---------------------- MODULE RequestPreparationProofs ----------------------
(***************************************************************************)
(* Theorems about RequestPreparation, for any number of requests, images   *)
(* and switches.                                                           *)
(***************************************************************************)
EXTENDS RequestPreparation, FiniteSetTheorems, SequenceTheorems, TLAPS

Calls == [number : Nat, got : Nat]

\* The calls in flight and the descriptions kept, and whose stream was ended by whom.
CacheInv ==
  /\ call \in [Requests -> Calls] /\ calls \in Nat
  /\ DOMAIN cache = Images
  /\ CacheHoldsAnswers

\* A request without a VLM call has a call record as well.
LEMMA NoCallTyped == NoCall \in Calls
BY DEF NoCall, Calls

\* The cache is empty at first.
LEMMA CacheInit == Init => CacheInv
<1>. SUFFICES ASSUME Init PROVE CacheInv
  OBVIOUS
<1>1. call \in [Requests -> Calls] /\ calls \in Nat
  BY NoCallTyped DEF Init
<1>2. DOMAIN cache = Images /\ \A i \in Images : cache[i] = NoCall
  BY DEF Init
<1>. QED BY <1>1, <1>2 DEF CacheInv, CacheHoldsAnswers

\* Only a finished description gets into the cache.
LEMMA CacheStep == CacheInv /\ [Next]_vars => CacheInv'
<1>. SUFFICES ASSUME CacheInv, [Next]_vars PROVE CacheInv'
  OBVIOUS
<1>1. ASSUME NEW r \in Requests, VisionEnds(r) PROVE CacheInv'
  <2>. DEFINE url == URLAt(r, NextImage(r))
  <2>0. call[r] \in Calls
    BY DEF CacheInv
  <2>1. /\ call' = [call EXCEPT ![r] = NoCall] /\ calls' = calls
        /\ ended' = ended \union {call[r].number}
        /\ \/ cache' = cache
           \/ call[r].got # 0 /\ cache' = [cache EXCEPT ![url] = call[r]]
    BY <1>1 DEF VisionEnds, Hangup
  <2>2. call' \in [Requests -> Calls] /\ calls' \in Nat
    BY <2>1, NoCallTyped DEF CacheInv
  <2>3. call[r].number \in ended' /\ (call[r].got # 0 => call[r].got > 0)
    BY <2>0, <2>1 DEF Calls
  <2>4. DOMAIN cache' = Images /\ \A i \in Images : cache'[i] = cache[i] \/ (cache'[i] = call[r] /\ call[r].got # 0)
    <3>. HIDE DEF url
    <3>. QED BY <2>1 DEF CacheInv
  <2>5. \A i \in Images : cache'[i] # NoCall => cache'[i].number \in ended' /\ cache'[i].got > 0
    BY <2>1, <2>3, <2>4 DEF CacheInv, CacheHoldsAnswers
  <2>. QED BY <2>2, <2>4, <2>5 DEF CacheInv, CacheHoldsAnswers
<1>2. CASE /\ UNCHANGED <<cache, ended>> /\ calls' \in {calls, calls + 1}
           /\ \/ call' = call
              \/ \E r \in Requests :
                   \/ call' = [call EXCEPT ![r] = NoCall]
                   \/ call' = [call EXCEPT ![r] = [number |-> calls + 1, got |-> 0]]
                   \/ call' = [call EXCEPT ![r].got = @ + 1]
  <2>1. call' \in [Requests -> Calls]
    <3>1. [number |-> calls + 1, got |-> 0] \in Calls
      BY DEF CacheInv, Calls
    <3>2. \A r \in Requests : [call[r] EXCEPT !.got = @ + 1] \in Calls
      BY DEF CacheInv, Calls
    <3>. QED BY <1>2, <3>1, <3>2, NoCallTyped DEF CacheInv
  <2>2. calls' \in Nat
    BY <1>2 DEF CacheInv
  <2>. QED BY <1>2, <2>1, <2>2 DEF CacheInv, CacheHoldsAnswers
<1>3. CASE UNCHANGED <<call, calls, cache, ended>>
  BY <1>2, <1>3
<1>4. ASSUME NEW r \in Requests,
             CallsVision(r) \/ VisionStreams(r) \/ VisionFails(r) \/ FindsDescription(r)
      PROVE  CacheInv'
  BY <1>2, <1>4 DEF CallsVision, VisionStreams, VisionFails, FindsDescription, Hangup, describing
<1>. QED BY <1>1, <1>3, <1>4
      DEF Next, Prepares, Arrives, ReadsSystemPrompt, ReadsVision, ReadsBypass, AllDescribed,
          ReadsForcedBucket, ReadsModel, PanelSets, Terminated, vars, describing

\* What is cached is what the VLM said on a stream that it ended itself: nothing that a
\* timeout, a broken connection or a client that left has cut off, and never nothing.
THEOREM CacheIsWhole == Spec => []CacheHoldsAnswers
<1>1. CacheInv => CacheHoldsAnswers
  BY DEF CacheInv
<1>. QED BY <1>1, CacheInit, CacheStep, PTL DEF Spec
-----------------------------------------------------------------------------
Fields == {"form", "messages", "tools", "set", "preset", "model"}

\* Every request has its locals, and its body the parts of one.
Shapes ==
  /\ DOMAIN phase = Requests /\ DOMAIN body = Requests /\ DOMAIN original = Requests
  /\ DOMAIN bypass = Requests /\ DOMAIN bucket = Requests /\ DOMAIN retries = Requests
  /\ \A r \in Requests : Fields \subseteq DOMAIN body[r]

Tunable(r) == ~(PresetFields \subseteq original[r].set)

\* Until the preset is chosen the body has the fields that the client has set; from then on it
\* has the preset of the bucket that is reported, or none, as the handler's bypass says, and
\* the retries follow the same bypass.
TuningInv ==
  \A r \in Requests :
    /\ phase[r] \in {"parsed", "prompted", "describing", "described", "labelled"} =>
         body[r].preset = "" /\ body[r].set = original[r].set
    /\ phase[r] = "sampled" =>
         body[r].preset = (IF ~bypass[r] /\ Tunable(r) THEN bucket[r] ELSE "")
    /\ phase[r] = "cycle" =>
         body[r].preset = (IF retries[r] > 0 /\ Tunable(r) THEN bucket[r] ELSE "")

\* A body is as its client sent it at first.
LEMMA TuningInit == Init => Shapes /\ TuningInv
<1>. SUFFICES ASSUME Init PROVE Shapes /\ TuningInv
  OBVIOUS
<1>1. Fields \subseteq DOMAIN EmptyBody
  BY DEF Fields, EmptyBody
<1>. QED BY <1>1 DEF Init, Shapes, TuningInv

\* A body with one part replaced has the other parts it had.
LEMMA PartReplaced ==
  ASSUME NEW b, Fields \subseteq DOMAIN b, NEW x, NEW c,
         c = [b EXCEPT !.messages = x] \/ c = [b EXCEPT !.tools = x] \/ c = [b EXCEPT !.model = x]
  PROVE  Fields \subseteq DOMAIN c /\ c.preset = b.preset /\ c.set = b.set
BY DEF Fields

\* A preset is one field of a body.
LEMMA PresetReplaced ==
  ASSUME NEW b, Fields \subseteq DOMAIN b, NEW x, NEW c, c = [b EXCEPT !.preset = x]
  PROVE  Fields \subseteq DOMAIN c /\ c.preset = x /\ c.set = b.set
BY DEF Fields

\* A step of another request, or of the panel, touches none of a request's locals.
OthersAlone(r) ==
  \A q \in Requests \ {r} :
    /\ phase'[q] = phase[q] /\ body'[q] = body[q] /\ original'[q] = original[q]
    /\ bypass'[q] = bypass[q] /\ bucket'[q] = bucket[q] /\ retries'[q] = retries[q]

Domains ==
  /\ DOMAIN phase = Requests /\ DOMAIN body = Requests /\ DOMAIN original = Requests
  /\ DOMAIN bypass = Requests /\ DOMAIN bucket = Requests /\ DOMAIN retries = Requests

\* The step of a request keeps what is said of the request if it does.
LEMMA TuningFrame ==
  ASSUME Shapes, TuningInv, NEW r \in Requests, Domains', OthersAlone(r),
         Fields \subseteq DOMAIN body'[r],
         phase'[r] \in {"parsed", "prompted", "describing", "described", "labelled"} =>
           body'[r].preset = "" /\ body'[r].set = original'[r].set,
         phase'[r] = "sampled" =>
           body'[r].preset = (IF ~bypass'[r] /\ Tunable(r)' THEN bucket'[r] ELSE ""),
         phase'[r] = "cycle" =>
           body'[r].preset = (IF retries'[r] > 0 /\ Tunable(r)' THEN bucket'[r] ELSE "")
  PROVE  Shapes' /\ TuningInv'
<1>1. \A q \in Requests \ {r} : Tunable(q)' = Tunable(q)
  BY DEF OthersAlone, Tunable
<1>2. Shapes'
  BY DEF Shapes, Domains, OthersAlone
<1>3. ASSUME NEW q \in Requests \ {r}
      PROVE  /\ phase'[q] \in {"parsed", "prompted", "describing", "described", "labelled"} =>
                  body'[q].preset = "" /\ body'[q].set = original'[q].set
             /\ phase'[q] = "sampled" =>
                  body'[q].preset = (IF ~bypass'[q] /\ Tunable(q)' THEN bucket'[q] ELSE "")
             /\ phase'[q] = "cycle" =>
                  body'[q].preset = (IF retries'[q] > 0 /\ Tunable(q)' THEN bucket'[q] ELSE "")
  BY <1>1 DEF OthersAlone, TuningInv
<1>. QED BY <1>2, <1>3 DEF TuningInv

\* Replacing messages, and going from one of the early phases to the next, keeps it.
LEMMA MessagesReplaced ==
  ASSUME Shapes, TuningInv, NEW r \in Requests, NEW x,
         body' = body \/ body' = [body EXCEPT ![r] = [@ EXCEPT !.messages = x]],
         UNCHANGED <<original, bypass, bucket, retries>>,
         \/ phase' = phase
         \/ /\ phase[r] \in {"parsed", "prompted", "describing", "described"}
            /\ \E to \in {"prompted", "describing", "described", "labelled"} :
                 phase' = [phase EXCEPT ![r] = to]
  PROVE  Shapes' /\ TuningInv'
<1>1. Domains' /\ OthersAlone(r)
  BY DEF Domains, Shapes, OthersAlone
<1>2. Fields \subseteq DOMAIN body[r]
  BY DEF Shapes
<1>3. \/ body'[r] = body[r]
      \/ body'[r] = [body[r] EXCEPT !.messages = x]
  BY DEF Shapes
<1>4. Fields \subseteq DOMAIN body'[r] /\ body'[r].preset = body[r].preset
      /\ body'[r].set = body[r].set
  BY <1>2, <1>3, PartReplaced
<1>5. \/ phase'[r] = phase[r]
      \/ /\ phase[r] \in {"parsed", "prompted", "describing", "described"}
         /\ phase'[r] \in {"prompted", "describing", "described", "labelled"}
  BY DEF Shapes
<1>6. Tunable(r)' = Tunable(r)
  BY DEF Tunable
<1>. QED BY <1>1, <1>4, <1>5, <1>6, TuningFrame DEF TuningInv

\* A request is tuned by the preset of its own bucket, or passed through as it came.
LEMMA TuningStep == Shapes /\ TuningInv /\ [Next]_vars => Shapes' /\ TuningInv'
<1>. SUFFICES ASSUME Shapes, TuningInv, [Next]_vars PROVE Shapes' /\ TuningInv'
  OBVIOUS
<1>1. ASSUME NEW r \in Requests, Arrives(r) PROVE Shapes' /\ TuningInv'
  <2>1. UNCHANGED <<bypass, bucket, retries>>
    BY <1>1 DEF Arrives
  <2>2. CASE UNCHANGED <<body, original>> /\ \E to \in {"failed", "raw"} : phase' = [phase EXCEPT ![r] = to]
    <3>1. Domains' /\ OthersAlone(r) /\ phase'[r] \in {"failed", "raw"}
          /\ Fields \subseteq DOMAIN body'[r]
      BY <2>1, <2>2 DEF Domains, Shapes, OthersAlone
    <3>. QED BY <3>1, TuningFrame
  <2>3. ASSUME NEW b \in Inputs, phase' = [phase EXCEPT ![r] = "parsed"],
               original' = [original EXCEPT ![r] = b],
               body' = [body EXCEPT ![r] = [b EXCEPT !.tools = SanitizeToolSchemas(@)]]
        PROVE  Shapes' /\ TuningInv'
    <3>. DEFINE tools == SanitizeToolSchemas(b.tools)
    <3>1. /\ phase'[r] = "parsed" /\ original'[r] = b /\ body'[r] = [b EXCEPT !.tools = tools]
          /\ Domains' /\ OthersAlone(r)
      BY <2>1, <2>3 DEF Domains, Shapes, OthersAlone
    <3>2. Fields \subseteq DOMAIN b /\ b.preset = ""
      BY PreparationAssumption DEF Fields
    <3>. HIDE DEF tools
    <3>3. Fields \subseteq DOMAIN body'[r] /\ body'[r].preset = "" /\ body'[r].set = original'[r].set
      <4>1. body'[r] = [b EXCEPT !.tools = tools]
        BY <3>1
      <4>2. Fields \subseteq DOMAIN body'[r] /\ body'[r].preset = b.preset /\ body'[r].set = b.set
        BY <3>2, <4>1, PartReplaced
      <4>. QED BY <3>1, <3>2, <4>2
    <3>. QED BY <3>1, <3>3, TuningFrame
  <2>. QED BY <1>1, <2>2, <2>3 DEF Arrives
<1>2. ASSUME NEW r \in Requests, ReadsSystemPrompt(r) PROVE Shapes' /\ TuningInv'
  BY <1>2, MessagesReplaced DEF ReadsSystemPrompt
<1>3. ASSUME NEW r \in Requests, ReadsVision(r) PROVE Shapes' /\ TuningInv'
  BY <1>3, MessagesReplaced DEF ReadsVision
<1>4. ASSUME NEW r \in Requests, AllDescribed(r) PROVE Shapes' /\ TuningInv'
  BY <1>4, MessagesReplaced DEF AllDescribed
<1>5. ASSUME NEW r \in Requests, FindsDescription(r) \/ VisionEnds(r) \/ VisionFails(r)
      PROVE  Shapes' /\ TuningInv'
  <2>1. \E x : body' = [body EXCEPT ![r] = [@ EXCEPT !.messages = x]]
    BY <1>5 DEF FindsDescription, VisionEnds, VisionFails, Replaced
  <2>2. UNCHANGED <<phase, original, bypass, bucket, retries>>
    BY <1>5 DEF FindsDescription, VisionEnds, VisionFails
  <2>. QED BY <2>1, <2>2, MessagesReplaced
<1>6. ASSUME NEW r \in Requests, ReadsBypass(r) PROVE Shapes' /\ TuningInv'
  <2>1. /\ phase[r] = "described" /\ phase'[r] = "labelled" /\ UNCHANGED <<body, original>>
        /\ Domains' /\ OthersAlone(r)
    BY <1>6 DEF ReadsBypass, Domains, Shapes, OthersAlone
  <2>. QED BY <2>1, TuningFrame DEF Shapes, TuningInv
<1>7. ASSUME NEW r \in Requests, ReadsForcedBucket(r) PROVE Shapes' /\ TuningInv'
  <2>1. PICK b : /\ bucket' = [bucket EXCEPT ![r] = b]
                 /\ body' = IF bypass[r] THEN body ELSE [body EXCEPT ![r] = ApplyPreset(@, b)]
    BY <1>7 DEF ReadsForcedBucket
  <2>2. /\ phase[r] = "labelled" /\ phase'[r] = "sampled" /\ UNCHANGED <<original, bypass>>
        /\ bucket'[r] = b /\ Domains' /\ OthersAlone(r)
        /\ body'[r] = (IF bypass[r] THEN body[r] ELSE ApplyPreset(body[r], b))
    BY <1>7, <2>1 DEF ReadsForcedBucket, Domains, Shapes, OthersAlone
  <2>3. Fields \subseteq DOMAIN body[r] /\ body[r].preset = "" /\ body[r].set = original[r].set
    BY <2>2 DEF Shapes, TuningInv
  <2>4. Fields \subseteq DOMAIN ApplyPreset(body[r], b)
        /\ ApplyPreset(body[r], b).preset = (IF Tunable(r) THEN b ELSE "")
    <3>. DEFINE x == IF PresetFields \subseteq body[r].set THEN "" ELSE b
    <3>1. ApplyPreset(body[r], b) = [body[r] EXCEPT !.preset = x]
      BY DEF ApplyPreset
    <3>2. x = IF Tunable(r) THEN b ELSE ""
      BY <2>3 DEF Tunable
    <3>. HIDE DEF x
    <3>3. Fields \subseteq DOMAIN ApplyPreset(body[r], b) /\ ApplyPreset(body[r], b).preset = x
      BY <2>3, <3>1, PresetReplaced
    <3>. QED BY <3>2, <3>3
  <2>5. Tunable(r)' = Tunable(r)
    BY <2>2 DEF Tunable
  <2>. QED BY <2>2, <2>3, <2>4, <2>5, TuningFrame
<1>8. ASSUME NEW r \in Requests, ReadsModel(r) PROVE Shapes' /\ TuningInv'
  <2>1. \E x : body'[r] = [body[r] EXCEPT !.model = x]
    BY <1>8 DEF ReadsModel, Shapes
  <2>2. /\ phase[r] = "sampled" /\ phase'[r] = "cycle" /\ UNCHANGED <<original, bypass, bucket>>
        /\ retries'[r] = RetriesOf(r) /\ Domains' /\ OthersAlone(r)
    BY <1>8 DEF ReadsModel, Domains, Shapes, OthersAlone
  <2>3. Fields \subseteq DOMAIN body'[r] /\ body'[r].preset = body[r].preset
    BY <2>1, PartReplaced DEF Shapes
  <2>4. RetriesOf(r) > 0 <=> ~bypass[r]
    <3>1. bypass[r] => RetriesOf(r) = 0
      BY DEF RetriesOf
    <3>2. ~bypass[r] => RetriesOf(r) = MaxRetries
      BY DEF RetriesOf
    <3>3. MaxRetries \in Nat \ {0}
      BY PreparationAssumption
    <3>. QED BY <3>1, <3>2, <3>3
  <2>5. Tunable(r)' = Tunable(r)
    BY <2>2 DEF Tunable
  <2>. QED BY <2>2, <2>3, <2>4, <2>5, TuningFrame DEF TuningInv
<1>9. CASE UNCHANGED <<phase, body, original, bypass, bucket, retries>>
  BY <1>9 DEF Shapes, TuningInv, Tunable
<1>. QED BY <1>1, <1>2, <1>3, <1>4, <1>5, <1>6, <1>7, <1>8, <1>9
      DEF Next, Prepares, CallsVision, VisionStreams, PanelSets, Terminated, vars, handlers

\* A request is either tuned and retried or passed through and called once, whatever the
\* switches do between the points at which the handler reads them, and the preset is that of
\* the bucket that is reported.
THEOREM PassesWholeOrNot == Spec => []PassThroughIsWhole
<1>1. TuningInv => PassThroughIsWhole
  BY DEF TuningInv, PassThroughIsWhole, Tunable
<1>. QED BY <1>1, TuningInit, TuningStep, PTL DEF Spec
-----------------------------------------------------------------------------
(* Sequences, and what is taken from them *)

\* A set of natural numbers has a smallest member.
LEMMA Smallest ==
  ASSUME NEW T \in SUBSET Nat, T # {}
  PROVE  \E x \in T : \A y \in T : x <= y
<1>. DEFINE R == OpToRel(<,Nat)
<1>1. \E x \in T : \A y \in T : ~ (<<y, x>> \in R)
  <2>1. IsWellFoundedOn(R, Nat)
    BY NatLessThanWellFounded
  <2>. HIDE DEF R
  <2>. QED BY <2>1, WFMin
<1>2. \A x, y \in Nat : y < x => <<y, x>> \in R
  BY DEF OpToRel
<1>. HIDE DEF R
<1>3. PICK x \in T : \A y \in T : ~ (<<y, x>> \in R)
  BY <1>1
<1>4. \A y \in T : ~ (y < x)
  BY <1>2, <1>3
<1>. QED BY <1>4

\* Induction up to a bound.
LEMMA InductionTo ==
  ASSUME NEW N \in Nat, NEW S, 0 \in S, \A n \in 0..N : n \in S /\ n < N => n + 1 \in S
  PROVE  \A n \in 0..N : n \in S
<1>. SUFFICES ASSUME (0..N) \ S # {} PROVE FALSE
  OBVIOUS
<1>1. (0..N) \ S \in SUBSET Nat
  OBVIOUS
<1>2. PICK x \in (0..N) \ S : \A y \in (0..N) \ S : x <= y
  BY <1>1, Smallest
<1>3. x - 1 \in 0..N /\ x - 1 < N /\ x - 1 + 1 = x
  BY <1>2
<1>4. x - 1 \in S
  BY <1>2, <1>3
<1>. QED BY <1>2, <1>3, <1>4

\* f takes from s what it holds at K, up to each n of D.
Takes(f, s, K, D) ==
  f = [n \in D |-> IF n = 0 THEN <<>>
                   ELSE IF n \in K THEN Append(f[n - 1], s[n]) ELSE f[n - 1]]

\* Only is the last step of taking.
LEMMA OnlyIs == \A s, K : Only(s, K) = (CHOOSE f : Takes(f, s, K, 0..Len(s)))[Len(s)]
BY DEF Only, Takes

\* What that says of each place.
LEMMA TakesAt ==
  ASSUME NEW f, NEW s, NEW K, NEW D, Takes(f, s, K, D)
  PROVE  \A n \in D : f[n] = IF n = 0 THEN <<>>
                             ELSE IF n \in K THEN Append(f[n - 1], s[n]) ELSE f[n - 1]
<1>. DEFINE e(m) == IF m = 0 THEN <<>>
                    ELSE IF m \in K THEN Append(f[m - 1], s[m]) ELSE f[m - 1]
<1>1. f = [m \in D |-> e(m)]
  BY DEF Takes
<1>. HIDE DEF e
<1>2. \A n \in D : f[n] = e(n)
  BY <1>1
<1>. QED BY <1>2 DEF e

\* There is always such an f.
LEMMA TakesExist ==
  ASSUME NEW N \in Nat, NEW s, NEW K
  PROVE  \E f : Takes(f, s, K, 0..N)
<1>. DEFINE S == {n \in Nat : \E f : Takes(f, s, K, 0..n)}
<1>1. 0 \in S
  <2>. DEFINE f == [n \in 0..0 |-> <<>>]
  <2>1. Takes(f, s, K, 0..0)
    BY DEF Takes
  <2>. QED BY <2>1
<1>2. ASSUME NEW n \in 0..N, n \in S PROVE n + 1 \in S
  <2>1. PICK f : Takes(f, s, K, 0..n)
    BY <1>2
  <2>. DEFINE g == [m \in 0..(n + 1) |-> IF m = 0 THEN <<>>
                      ELSE IF m \in K THEN Append(f[m - 1], s[m]) ELSE f[m - 1]]
  <2>2. \A m \in 0..n : m \in 0..(n + 1) /\ g[m] = f[m]
    <3>1. \A m \in 0..n : m \in 0..(n + 1)
      OBVIOUS
    <3>2. \A m \in 0..n : f[m] = IF m = 0 THEN <<>>
                      ELSE IF m \in K THEN Append(f[m - 1], s[m]) ELSE f[m - 1]
      <4>. DEFINE D == 0..n
      <4>1. Takes(f, s, K, D)
        BY <2>1
      <4>. HIDE DEF D
      <4>2. \A m \in D : f[m] = IF m = 0 THEN <<>>
                      ELSE IF m \in K THEN Append(f[m - 1], s[m]) ELSE f[m - 1]
        BY <4>1, TakesAt
      <4>. QED BY <4>2 DEF D
    <3>3. \A m \in 0..(n + 1) : g[m] = IF m = 0 THEN <<>>
                      ELSE IF m \in K THEN Append(f[m - 1], s[m]) ELSE f[m - 1]
      BY Zenon
    <3>. HIDE DEF g
    <3>4. ASSUME NEW m \in 0..n PROVE g[m] = f[m]
      <4>1. m \in 0..(n + 1)
        BY <3>1
      <4>. QED BY <3>2, <3>3, <4>1, Zenon
    <3>. QED BY <3>1, <3>4
  <2>3. \A m \in 0..(n + 1) : m # 0 => m - 1 \in 0..n
    OBVIOUS
  <2>4. \A m \in 0..(n + 1) : m # 0 => g[m - 1] = f[m - 1]
    BY <2>2, <2>3
  <2>5. Takes(g, s, K, 0..(n + 1))
    BY <2>4 DEF Takes
  <2>. QED BY <2>5
<1>3. N \in S
  <2>. HIDE DEF S
  <2>. QED BY <1>1, <1>2, InductionTo
<1>. QED BY <1>3

\* The steps of taking.
Taking(f, s, K) ==
  /\ f[0] = <<>>
  /\ \A n \in 1..Len(s) : f[n] = IF n \in K THEN Append(f[n - 1], s[n]) ELSE f[n - 1]
  /\ f[Len(s)] = Only(s, K)

\* It takes what it takes step by step, from a sequence of any elements.
LEMMA OnlyTakes ==
  ASSUME NEW A, NEW s \in Seq(A), NEW K
  PROVE  \E f : Taking(f, s, K) /\ \A n \in 0..Len(s) : f[n] \in Seq(A)
<1>. DEFINE D == 0..Len(s)
<1>1. Len(s) \in Nat /\ 0 \in D /\ \A n \in 1..Len(s) : n \in D /\ n # 0 /\ n - 1 \in D
  OBVIOUS
<1>2. PICK f : Takes(f, s, K, D) /\ f[Len(s)] = Only(s, K)
  BY <1>1, TakesExist, OnlyIs
<1>. HIDE DEF D
<1>3. \A n \in D : f[n] = IF n = 0 THEN <<>>
                          ELSE IF n \in K THEN Append(f[n - 1], s[n]) ELSE f[n - 1]
  BY <1>2, TakesAt
<1>4. f[0] = <<>> /\ f[0] \in Seq(A)
  <2>1. f[0] = <<>>
    BY <1>1, <1>3, Zenon
  <2>2. <<>> \in Seq(A)
    OBVIOUS
  <2>. QED BY <2>1, <2>2
<1>5. \A n \in 1..Len(s) : f[n] = IF n \in K THEN Append(f[n - 1], s[n]) ELSE f[n - 1]
  BY <1>1, <1>3
<1>6. \A n \in 0..Len(s) : f[n] \in Seq(A)
  <2>. DEFINE S == {n \in D : f[n] \in Seq(A)}
  <2>1. 0 \in S
    BY <1>1, <1>4
  <2>2. ASSUME NEW n \in 0..Len(s), n \in S, n < Len(s) PROVE n + 1 \in S
    <3>1. n + 1 \in 1..Len(s) /\ n + 1 - 1 = n /\ s[n + 1] \in A
      BY <1>1, <2>2
    <3>2. f[n + 1] = IF n + 1 \in K THEN Append(f[n], s[n + 1]) ELSE f[n]
      BY <1>5, <3>1
    <3>3. f[n] \in Seq(A)
      BY <2>2
    <3>4. f[n + 1] \in Seq(A)
      BY <3>1, <3>2, <3>3
    <3>. QED BY <1>1, <3>1, <3>4
  <2>. HIDE DEF S
  <2>3. \A n \in 0..Len(s) : n \in S
    BY <1>1, <2>1, <2>2, InductionTo
  <2>. QED BY <2>3 DEF S
<1>. QED BY <1>2, <1>4, <1>5, <1>6 DEF Taking

\* The same elements at the same places.
LEMMA OnlySame ==
  ASSUME NEW A, NEW s \in Seq(A), NEW t \in Seq(A), NEW K, NEW L, Len(s) = Len(t),
         \A n \in 1..Len(s) : (n \in K <=> n \in L) /\ (n \in K => s[n] = t[n])
  PROVE  Only(s, K) = Only(t, L)
<1>1. PICK f : Taking(f, s, K)
  BY OnlyTakes
<1>2. PICK g : Taking(g, t, L)
  BY OnlyTakes
<1>. DEFINE S == {n \in 0..Len(s) : f[n] = g[n]}
<1>3. 0 \in S
  BY <1>1, <1>2 DEF Taking
<1>4. ASSUME NEW n \in 0..Len(s), n \in S, n < Len(s) PROVE n + 1 \in S
  <2>1. n + 1 \in 1..Len(s) /\ n + 1 - 1 = n
    BY <1>4
  <2>2. f[n + 1] = IF n + 1 \in K THEN Append(f[n], s[n + 1]) ELSE f[n]
    BY <1>1, <2>1 DEF Taking
  <2>3. g[n + 1] = IF n + 1 \in L THEN Append(g[n], t[n + 1]) ELSE g[n]
    BY <1>2, <2>1 DEF Taking
  <2>4. f[n] = g[n]
    BY <1>4
  <2>5. f[n + 1] = g[n + 1]
    BY <2>1, <2>2, <2>3, <2>4
  <2>. QED BY <2>1, <2>5
<1>. HIDE DEF S
<1>n. Len(s) \in Nat
  OBVIOUS
<1>5. \A n \in 0..Len(s) : n \in S
  BY <1>n, <1>3, <1>4, InductionTo
<1>6. Len(s) \in S
  BY <1>n, <1>5
<1>. QED BY <1>1, <1>2, <1>6 DEF Taking, S

\* A sequence with one more element in front that is not taken.
LEMMA OnlyLonger ==
  ASSUME NEW A, NEW s \in Seq(A), NEW t \in Seq(A), NEW K, NEW L, Len(t) = Len(s) + 1,
         1 \notin L,
         \A n \in 1..Len(s) : (n \in K <=> n + 1 \in L) /\ (n \in K => s[n] = t[n + 1])
  PROVE  Only(t, L) = Only(s, K)
<1>1. PICK f : Taking(f, s, K)
  BY OnlyTakes
<1>2. PICK g : Taking(g, t, L)
  BY OnlyTakes
<1>. DEFINE S == {n \in 0..Len(s) : f[n] = g[n + 1]}
<1>3. 0 \in S
  <2>1. 1 \in 1..Len(t) /\ 1 - 1 = 0 /\ 0 + 1 = 1 /\ 0 \in 0..Len(s)
    OBVIOUS
  <2>2. g[1] = g[0]
    BY <1>2, <2>1 DEF Taking
  <2>3. f[0] = g[1]
    BY <1>1, <1>2, <2>2 DEF Taking
  <2>. QED BY <2>1, <2>3
<1>4. ASSUME NEW n \in 0..Len(s), n \in S, n < Len(s) PROVE n + 1 \in S
  <2>1. /\ n + 1 \in 1..Len(s) /\ n + 1 - 1 = n
        /\ n + 1 + 1 \in 1..Len(t) /\ n + 1 + 1 - 1 = n + 1
    BY <1>4
  <2>2. f[n + 1] = IF n + 1 \in K THEN Append(f[n], s[n + 1]) ELSE f[n]
    BY <1>1, <2>1 DEF Taking
  <2>3. g[n + 1 + 1] = IF n + 1 + 1 \in L THEN Append(g[n + 1], t[n + 1 + 1]) ELSE g[n + 1]
    BY <1>2, <2>1 DEF Taking
  <2>4. f[n] = g[n + 1]
    BY <1>4
  <2>5. f[n + 1] = g[n + 1 + 1]
    BY <2>1, <2>2, <2>3, <2>4
  <2>. QED BY <2>1, <2>5
<1>. HIDE DEF S
<1>n. Len(s) \in Nat
  OBVIOUS
<1>5. \A n \in 0..Len(s) : n \in S
  BY <1>n, <1>3, <1>4, InductionTo
<1>6. Len(s) \in S
  BY <1>n, <1>5
<1>. QED BY <1>1, <1>2, <1>6 DEF Taking, S

\* An element that moves to the front: it is not taken, or it is the first that is.
LEMMA OnlyMoved ==
  ASSUME NEW A, NEW s \in Seq(A), NEW t \in Seq(A), NEW K, NEW L, Len(t) = Len(s),
         NEW i \in 1..Len(s), t[1] = s[i], 1 \in L <=> i \in K,
         \A n \in 1..(i - 1) : (n \in K <=> n + 1 \in L) /\ (n \in K => s[n] = t[n + 1]),
         \A n \in (i + 1)..Len(s) : (n \in K <=> n \in L) /\ (n \in K => s[n] = t[n]),
         i \notin K \/ \A n \in 1..(i - 1) : n \notin K
  PROVE  Only(t, L) = Only(s, K)
<1>1. PICK f : Taking(f, s, K)
  BY OnlyTakes
<1>2. PICK g : Taking(g, t, L)
  BY OnlyTakes
<1>i. i \in Nat /\ Len(s) \in Nat
  OBVIOUS
<1>f. \A n \in 0..Len(s) : n < Len(s) =>
        /\ n + 1 \in 1..Len(s)
        /\ f[n + 1] = IF n + 1 \in K THEN Append(f[n], s[n + 1]) ELSE f[n]
        /\ g[n + 1] = IF n + 1 \in L THEN Append(g[n], t[n + 1]) ELSE g[n]
  <2>. TAKE n \in 0..Len(s)
  <2>. HAVE n < Len(s)
  <2>1. n + 1 \in 1..Len(s) /\ n + 1 - 1 = n
    OBVIOUS
  <2>. QED BY <1>1, <1>2, <2>1 DEF Taking
<1>0. f[0] = <<>> /\ g[0] = <<>>
  BY <1>1, <1>2 DEF Taking
\* Before the place the element comes from.
<1>. DEFINE B(n) == IF i \in K THEN f[n] = <<>> /\ g[n + 1] = Append(<<>>, s[i])
                                ELSE g[n + 1] = f[n]
<1>. DEFINE S == {n \in 0..Len(s) : (n < i => B(n)) /\ (i <= n => g[n] = f[n])}
<1>3. 0 \in S
  <2>1. 0 \in 0..Len(s) /\ 0 < Len(s) /\ 0 + 1 = 1 /\ ~(i <= 0)
    OBVIOUS
  <2>2. g[1] = IF 1 \in L THEN Append(g[0], t[1]) ELSE g[0]
    BY <1>f, <2>1
  <2>3. B(0)
    BY <1>0, <2>1, <2>2
  <2>. QED BY <2>1, <2>3
<1>4. ASSUME NEW n \in 0..Len(s), n \in S, n < Len(s) PROVE n + 1 \in S
  <2>1. n + 1 \in 0..Len(s) /\ (n < i => B(n)) /\ (i <= n => g[n] = f[n])
    BY <1>4
  <2>2. CASE i <= n
    <3>1. n + 1 \in (i + 1)..Len(s) /\ ~(n + 1 < i)
      BY <1>i, <1>4, <2>2
    <3>2. g[n + 1] = f[n + 1]
      BY <1>f, <1>4, <2>1, <2>2, <3>1
    <3>. QED BY <2>1, <3>1, <3>2
  <2>3. CASE n + 1 = i
    <3>1. n < i /\ ~(n + 1 < i) /\ B(n)
      BY <1>i, <2>1, <2>3
    <3>2. f[n + 1] = IF n + 1 \in K THEN Append(f[n], s[n + 1]) ELSE f[n]
      BY <1>f, <1>4
    <3>3. g[n + 1] = f[n + 1]
      BY <2>3, <3>1, <3>2
    <3>. QED BY <2>1, <3>1, <3>3
  <2>4. CASE n + 1 < i
    <3>1. n < i /\ B(n) /\ n + 1 \in 1..(i - 1) /\ ~(i <= n + 1) /\ n + 1 \in 0..Len(s)
          /\ n + 1 < Len(s)
      BY <1>i, <2>1, <2>4
    <3>2. f[n + 1] = IF n + 1 \in K THEN Append(f[n], s[n + 1]) ELSE f[n]
      BY <1>f, <1>4
    <3>3. g[n + 1 + 1] = IF n + 1 + 1 \in L THEN Append(g[n + 1], t[n + 1 + 1]) ELSE g[n + 1]
      BY <1>f, <3>1
    <3>4. (n + 1 \in K <=> n + 1 + 1 \in L) /\ (n + 1 \in K => s[n + 1] = t[n + 1 + 1])
      BY <3>1
    <3>5. B(n + 1)
      BY <3>1, <3>2, <3>3, <3>4
    <3>. QED BY <2>1, <3>1, <3>5
  <2>. QED BY <1>i, <2>2, <2>3, <2>4
<1>. HIDE DEF S
<1>5. \A n \in 0..Len(s) : n \in S
  BY <1>i, <1>3, <1>4, InductionTo
<1>6. Len(s) \in S /\ i <= Len(s)
  BY <1>i, <1>5
<1>. QED BY <1>1, <1>2, <1>6 DEF Taking, S

\* Where the elements taken have gone: in order, each to a place of its own, no gap between.
LEMMA TakenPlaces ==
  ASSUME NEW A, NEW s \in Seq(A), NEW K, NEW f, Taking(f, s, K),
         \A n \in 0..Len(s) : f[n] \in Seq(A)
  PROVE  /\ \A k \in 1..Len(s) : k \in K =>
              Len(f[k]) \in 1..Len(Only(s, K)) /\ Only(s, K)[Len(f[k])] = s[k]
         /\ \A k, l \in 1..Len(s) : k \in K /\ l \in K /\ k < l => Len(f[k]) < Len(f[l])
         /\ \A j \in 1..Len(Only(s, K)) : \E k \in 1..Len(s) : k \in K /\ Len(f[k]) = j
<1>. DEFINE P(n) ==
       /\ \A k \in 1..n : k \in K => Len(f[k]) \in 1..Len(f[n]) /\ f[n][Len(f[k])] = s[k]
       /\ \A k, l \in 1..n : k \in K /\ l \in K /\ k < l => Len(f[k]) < Len(f[l])
       /\ \A j \in 1..Len(f[n]) : \E k \in 1..n : k \in K /\ Len(f[k]) = j
<1>. DEFINE S == {n \in 0..Len(s) : P(n)}
<1>1. 0 \in S
  <2>1. f[0] = <<>>
    BY DEF Taking
  <2>2. Len(f[0]) = 0
    BY <2>1
  <2>3. 1..0 = {} /\ 0 \in 0..Len(s)
    OBVIOUS
  <2>. QED BY <2>2, <2>3
<1>2. ASSUME NEW n \in 0..Len(s), n \in S, n < Len(s) PROVE n + 1 \in S
  <2>1. n + 1 \in 0..Len(s) /\ n + 1 \in 1..Len(s) /\ n + 1 - 1 = n /\ s[n + 1] \in A
    BY <1>2
  <2>2. f[n + 1] = IF n + 1 \in K THEN Append(f[n], s[n + 1]) ELSE f[n]
    BY <2>1 DEF Taking
  <2>3. f[n] \in Seq(A) /\ Len(f[n]) \in Nat
    BY <1>2
  <2>4. P(n)
    BY <1>2
  <2>5. \A k \in 1..(n + 1) : k \in 1..n \/ k = n + 1
    OBVIOUS
  <2>6. \A k \in 1..n : k \in 1..(n + 1) /\ k < n + 1
    OBVIOUS
  <2>7. CASE n + 1 \notin K
    <3>1. f[n + 1] = f[n]
      BY <2>2, <2>7
    <3>2. P(n + 1)
      BY <2>4, <2>5, <2>6, <2>7, <3>1
    <3>. QED BY <2>1, <3>2
  <2>8. CASE n + 1 \in K
    <3>1. /\ Len(f[n + 1]) = Len(f[n]) + 1 /\ f[n + 1][Len(f[n]) + 1] = s[n + 1]
          /\ \A j \in 1..Len(f[n]) : f[n + 1][j] = f[n][j]
      BY <2>1, <2>2, <2>3, <2>8
    <3>2. ASSUME NEW k \in 1..(n + 1), k \in K
          PROVE  Len(f[k]) \in 1..Len(f[n + 1]) /\ f[n + 1][Len(f[k])] = s[k]
      <4>1. CASE k = n + 1
        BY <2>3, <3>1, <4>1
      <4>2. CASE k \in 1..n
        <5>1. Len(f[k]) \in 1..Len(f[n]) /\ f[n][Len(f[k])] = s[k]
          BY <2>4, <3>2, <4>2
        <5>. QED BY <2>3, <3>1, <5>1
      <4>. QED BY <2>5, <4>1, <4>2
    <3>3. ASSUME NEW k \in 1..(n + 1), NEW l \in 1..(n + 1), k \in K, l \in K, k < l
          PROVE  Len(f[k]) < Len(f[l])
      <4>1. k \in 1..n
        BY <3>3
      <4>2. CASE l = n + 1
        <5>1. Len(f[k]) \in 1..Len(f[n])
          BY <2>4, <3>3, <4>1
        <5>. QED BY <2>3, <3>1, <4>2, <5>1
      <4>3. CASE l \in 1..n
        BY <2>4, <3>3, <4>1, <4>3
      <4>. QED BY <2>5, <4>2, <4>3
    <3>4. ASSUME NEW j \in 1..Len(f[n + 1])
          PROVE  \E k \in 1..(n + 1) : k \in K /\ Len(f[k]) = j
      <4>1. CASE j = Len(f[n]) + 1
        <5>1. n + 1 \in 1..(n + 1)
          OBVIOUS
        <5>. QED BY <2>8, <3>1, <4>1, <5>1
      <4>2. CASE j \in 1..Len(f[n])
        <5>1. PICK k \in 1..n : k \in K /\ Len(f[k]) = j
          BY <2>4, <4>2
        <5>. QED BY <2>6, <5>1
      <4>. QED BY <2>3, <3>1, <4>1, <4>2
    <3>5. P(n + 1)
      BY <3>2, <3>3, <3>4
    <3>. QED BY <2>1, <3>5
  <2>. QED BY <2>7, <2>8
<1>. HIDE DEF S
<1>3. Len(s) \in Nat
  OBVIOUS
<1>4. \A n \in 0..Len(s) : n \in S
  BY <1>1, <1>2, <1>3, InductionTo
<1>5. Len(s) \in S
  BY <1>3, <1>4
<1>6. f[Len(s)] = Only(s, K)
  BY DEF Taking
<1>. QED BY <1>5, <1>6 DEF S

\* Taking from what has been taken is taking both at once.
LEMMA OnlyOnly ==
  ASSUME NEW A, NEW s \in Seq(A), NEW K, NEW L, NEW M, M \subseteq K,
         \A n \in 1..Len(s), j \in 1..Len(Only(s, K)) :
           n \in K /\ Only(s, K)[j] = s[n] => (j \in L <=> n \in M)
  PROVE  Only(s, K) \in Seq(A) /\ Only(Only(s, K), L) = Only(s, M)
<1>1. PICK f : Taking(f, s, K) /\ \A n \in 0..Len(s) : f[n] \in Seq(A)
  BY OnlyTakes
<1>. DEFINE u == Only(s, K)
<1>n. Len(s) \in Nat
  OBVIOUS
<1>2. u \in Seq(A) /\ f[Len(s)] = u
  BY <1>1, <1>n DEF Taking
<1>3. /\ \A k \in 1..Len(s) : k \in K => Len(f[k]) \in 1..Len(u) /\ u[Len(f[k])] = s[k]
  BY <1>1, TakenPlaces
<1>. HIDE DEF u
<1>4. PICK m : Taking(m, s, M)
  BY OnlyTakes
<1>5. PICK h : Taking(h, u, L)
  BY <1>2, OnlyTakes
<1>. DEFINE S == {n \in 0..Len(s) : h[Len(f[n])] = m[n]}
<1>6. 0 \in S
  <2>1. f[0] = <<>> /\ m[0] = <<>> /\ h[0] = <<>>
    BY <1>1, <1>4, <1>5 DEF Taking
  <2>2. Len(f[0]) = 0 /\ 0 \in 0..Len(s)
    BY <1>n, <2>1
  <2>. QED BY <2>1, <2>2
<1>7. ASSUME NEW n \in 0..Len(s), n \in S, n < Len(s) PROVE n + 1 \in S
  <2>1. n + 1 \in 0..Len(s) /\ n + 1 \in 1..Len(s) /\ n + 1 - 1 = n /\ s[n + 1] \in A
    BY <1>7
  <2>2. f[n + 1] = IF n + 1 \in K THEN Append(f[n], s[n + 1]) ELSE f[n]
    BY <1>1, <2>1 DEF Taking
  <2>3. m[n + 1] = IF n + 1 \in M THEN Append(m[n], s[n + 1]) ELSE m[n]
    BY <1>4, <2>1 DEF Taking
  <2>4. h[Len(f[n])] = m[n] /\ f[n] \in Seq(A) /\ Len(f[n]) \in Nat
    BY <1>1, <1>7
  <2>5. CASE n + 1 \notin K
    <3>1. f[n + 1] = f[n] /\ m[n + 1] = m[n]
      BY <2>2, <2>3, <2>5
    <3>. QED BY <2>1, <2>4, <3>1
  <2>6. CASE n + 1 \in K
    <3>. DEFINE j == Len(f[n + 1])
    <3>1. j = Len(f[n]) + 1
      BY <2>1, <2>2, <2>4, <2>6
    <3>2. j \in 1..Len(u) /\ u[j] = s[n + 1] /\ j - 1 = Len(f[n])
      BY <1>3, <2>1, <2>4, <2>6, <3>1
    <3>. HIDE DEF j
    <3>3. h[j] = IF j \in L THEN Append(h[j - 1], u[j]) ELSE h[j - 1]
      BY <1>5, <3>2 DEF Taking
    <3>4. j \in L <=> n + 1 \in M
      BY <2>1, <2>6, <3>2 DEF u
    <3>5. h[j] = m[n + 1]
      BY <2>3, <2>4, <3>2, <3>3, <3>4
    <3>. QED BY <2>1, <3>5 DEF j
  <2>. QED BY <2>5, <2>6
<1>. HIDE DEF S
<1>8. \A n \in 0..Len(s) : n \in S
  BY <1>n, <1>6, <1>7, InductionTo
<1>9. Len(s) \in S
  BY <1>n, <1>8
<1>10. h[Len(u)] = m[Len(s)]
  BY <1>2, <1>9 DEF S
<1>11. h[Len(u)] = Only(u, L) /\ m[Len(s)] = Only(s, M)
  BY <1>4, <1>5 DEF Taking
<1>. QED BY <1>2, <1>10, <1>11 DEF u

\* Two sequences are sequences over what they hold together.
LEMMA Together ==
  ASSUME NEW s, NEW t, IsSequence(s), IsSequence(t)
  PROVE  \E A : s \in Seq(A) /\ t \in Seq(A)
<1>. DEFINE A == ToSet(s) \cup ToSet(t)
<1>1. s \in Seq(A) /\ t \in Seq(A)
  BY SeqMonotonic DEF IsSequence
<1>. QED BY <1>1

\* A sequence has a length and holds something at each place up to it.
LEMMA SequenceType ==
  /\ \A s, A : s \in Seq(A) => IsSequence(s)
  /\ \A s : IsSequence(s) => Len(s) \in Nat /\ DOMAIN s = 1..Len(s)
<1>1. ASSUME NEW A, NEW s \in Seq(A) PROVE IsSequence(s)
  <2>1. Len(s) \in Nat /\ DOMAIN s = 1..Len(s) /\ s \in [1..Len(s) -> A]
    BY LenProperties
  <2>2. s \in [1..Len(s) -> ToSet(s)]
    BY <2>1 DEF ToSet
  <2>. QED BY <2>1, <2>2, SeqDef DEF IsSequence
<1>2. ASSUME NEW s, IsSequence(s) PROVE Len(s) \in Nat /\ DOMAIN s = 1..Len(s)
  BY <1>2, LenProperties DEF IsSequence
<1>. QED BY <1>1, <1>2

\* So is every function on an initial segment.
LEMMA FunctionIsSequence ==
  ASSUME NEW n \in Nat, NEW f, NEW A, f \in [1..n -> A]
  PROVE  IsSequence(f) /\ Len(f) = n
<1>1. f \in Seq(A)
  BY SeqDef
<1>2. Len(f) = n
  BY <1>1
<1>. QED BY <1>1, <1>2, SequenceType
-----------------------------------------------------------------------------
(* What is kept of messages *)

\* The texts in a content, as Own takes them.
TextsOf(content) == Only(content, {k \in DOMAIN content : content[k].kind = "text"})

\* A list of messages, of whoever.
Messages(messages) ==
  /\ IsSequence(messages)
  /\ \A m \in DOMAIN messages :
       /\ messages[m] = Message(messages[m].role, messages[m].shape, messages[m].content)
       /\ IsSequence(messages[m].content)

\* Nothing is taken from nothing.
LEMMA OnlyEmpty == \A K : Only(<<>>, K) = <<>>
<1>. TAKE K
<1>1. <<>> \in Seq({}) /\ Len(<<>>) = 0
  OBVIOUS
<1>2. PICK f : Taking(f, <<>>, K)
  BY <1>1, OnlyTakes
<1>. QED BY <1>1, <1>2 DEF Taking

\* An item that is no text becomes another that is none: the texts stay.
LEMMA TextsReplaced ==
  ASSUME NEW c, NEW d, IsSequence(c), IsSequence(d), DOMAIN c = DOMAIN d, NEW p \in DOMAIN c,
         \A k \in DOMAIN c : k # p => d[k] = c[k], c[p].kind # "text", d[p].kind # "text"
  PROVE  TextsOf(d) = TextsOf(c)
<1>. DEFINE K == {k \in DOMAIN c : c[k].kind = "text"}
            L == {k \in DOMAIN d : d[k].kind = "text"}
<1>1. PICK A : c \in Seq(A) /\ d \in Seq(A)
  BY Together
<1>2. DOMAIN c = 1..Len(c) /\ Len(d) = Len(c)
  BY SequenceType
<1>3. \A k \in 1..Len(d) : (k \in L <=> k \in K) /\ (k \in L => d[k] = c[k])
  BY <1>2
<1>. HIDE DEF K, L
<1>4. Only(d, L) = Only(c, K)
  BY <1>1, <1>2, <1>3, OnlySame
<1>. QED BY <1>4 DEF TextsOf, K, L

\* Dropping what is neither a text nor an image leaves the texts.
LEMMA TextsFlattened ==
  ASSUME NEW c, IsSequence(c), NEW K, K = {k \in DOMAIN c : c[k].kind # "other"}
  PROVE  IsSequence(Only(c, K)) /\ TextsOf(Only(c, K)) = TextsOf(c)
<1>. DEFINE u == Only(c, K)
            L == {k \in DOMAIN u : u[k].kind = "text"}
            M == {k \in DOMAIN c : c[k].kind = "text"}
<1>1. PICK A : c \in Seq(A)
  BY DEF IsSequence
<1>2. DOMAIN c = 1..Len(c) /\ M \subseteq K
  BY SequenceType
<1>3. u \in Seq(A)
  BY <1>1, OnlyTakes DEF Taking
<1>4. DOMAIN u = 1..Len(u)
  BY <1>3
<1>5. \A n \in 1..Len(c), j \in 1..Len(u) : n \in K /\ u[j] = c[n] => (j \in L <=> n \in M)
  BY <1>2, <1>4
<1>. HIDE DEF L, M
<1>6. Only(u, L) = Only(c, M)
  BY <1>1, <1>2, <1>5, OnlyOnly
<1>7. IsSequence(u)
  BY <1>3, SequenceType
<1>. QED BY <1>6, <1>7 DEF TextsOf, L, M

\* A prompt in front is none of the client's texts.
LEMMA TextsPrompted ==
  ASSUME NEW c, IsSequence(c), NEW x, x.kind # "text"
  PROVE  /\ IsSequence(Cons(x, c)) /\ Len(Cons(x, c)) = Len(c) + 1
         /\ Cons(x, c)[1] = x /\ \A k \in DOMAIN c : Cons(x, c)[k + 1] = c[k]
         /\ TextsOf(Cons(x, c)) = TextsOf(c)
<1>. DEFINE d == Cons(x, c)
            K == {k \in DOMAIN c : c[k].kind = "text"}
            L == {k \in DOMAIN d : d[k].kind = "text"}
            A == ToSet(c) \cup {x}
<1>1. c \in Seq(A) /\ <<x>> \in Seq(A)
  BY SeqMonotonic DEF IsSequence
<1>. HIDE DEF A
<1>2. /\ d \in Seq(A) /\ Len(d) = Len(c) + 1
      /\ d[1] = x /\ \A k \in 1..Len(c) : d[k + 1] = c[k]
  BY <1>1 DEF Cons
<1>3. DOMAIN c = 1..Len(c) /\ DOMAIN d = 1..Len(d) /\ Len(c) \in Nat
  BY <1>1, <1>2, SequenceType
<1>. HIDE DEF d
<1>4. 1 \notin L /\ \A n \in 1..Len(c) : n + 1 \in 1..Len(d)
  BY <1>2, <1>3
<1>5. \A n \in 1..Len(c) : (n \in K <=> n + 1 \in L) /\ (n \in K => c[n] = d[n + 1])
  BY <1>2, <1>3, <1>4
<1>. HIDE DEF K, L
<1>6. Only(d, L) = Only(c, K)
  BY <1>1, <1>2, <1>4, <1>5, OnlyLonger
<1>7. IsSequence(d)
  BY <1>2, SequenceType
<1>. QED BY <1>2, <1>3, <1>6, <1>7 DEF TextsOf, d, K, L

\* What Own takes, message by message.
LEMMA OwnType ==
  ASSUME NEW a, Messages(a)
  PROVE  /\ IsSequence(Own(a)) /\ Len(Own(a)) = Len(a) /\ DOMAIN Own(a) = DOMAIN a
         /\ DOMAIN a = 1..Len(a) /\ Len(a) \in Nat
         /\ \A m \in DOMAIN a : /\ Own(a)[m] = [role |-> a[m].role, texts |-> TextsOf(a[m].content)]
                                /\ Own(a)[m].role = a[m].role
                                /\ Own(a)[m].texts = TextsOf(a[m].content)
<1>1. DOMAIN a = 1..Len(a) /\ Len(a) \in Nat
  BY SequenceType DEF Messages
<1>. DEFINE w(m) == [role |-> a[m].role, texts |-> TextsOf(a[m].content)]
<1>2. Own(a) = [m \in DOMAIN a |-> w(m)]
  BY DEF Own, TextsOf
<1>3. \A m \in DOMAIN a : w(m).role = a[m].role /\ w(m).texts = TextsOf(a[m].content)
  OBVIOUS
<1>. HIDE DEF w
<1>4. Own(a) \in [1..Len(a) -> {w(m) : m \in DOMAIN a}]
  BY <1>1, <1>2
<1>5. IsSequence(Own(a)) /\ Len(Own(a)) = Len(a)
  BY <1>1, <1>4, FunctionIsSequence
<1>6. \A m \in DOMAIN a : Own(a)[m] = w(m)
  BY <1>2
<1>. QED BY <1>1, <1>2, <1>3, <1>5, <1>6 DEF w

\* Messages with the same roles and texts are the same to the client.
LEMMA OwnEqual ==
  ASSUME NEW a, Messages(a), NEW b, Messages(b), DOMAIN a = DOMAIN b,
         \A m \in DOMAIN a : b[m].role = a[m].role /\ TextsOf(b[m].content) = TextsOf(a[m].content)
  PROVE  Own(b) = Own(a) /\ Said(b) = Said(a) /\ Systems(b) = Systems(a)
<1>1. ASSUME NEW m \in DOMAIN a PROVE Own(b)[m] = Own(a)[m]
  <2>1. Own(a)[m] = [role |-> a[m].role, texts |-> TextsOf(a[m].content)]
    BY OwnType
  <2>2. Own(b)[m] = [role |-> b[m].role, texts |-> TextsOf(b[m].content)]
    BY OwnType
  <2>. QED BY <2>1, <2>2
<1>2. Own(b) = Own(a)
  BY <1>1 DEF Own, TextsOf
<1>3. \A m \in DOMAIN a : IsSystem(b[m]) <=> IsSystem(a[m])
  BY DEF IsSystem
<1>4. Said(b) = Said(a)
  <2>. DEFINE others(x) == {m \in DOMAIN x : ~IsSystem(x[m])}
              system(x) == {m \in DOMAIN x : IsSystem(x[m]) /\ Own(x)[m].texts # <<>>}
  <2>1. others(b) = others(a) /\ system(b) = system(a)
    BY <1>2, <1>3
  <2>2. Said(b) = <<Only(Own(b), others(b)), Only(Own(b), system(b))>>
    BY DEF Said
  <2>3. Said(a) = <<Only(Own(a), others(a)), Only(Own(a), system(a))>>
    BY DEF Said
  <2>. HIDE DEF others, system
  <2>. QED BY <1>2, <2>1, <2>2, <2>3
<1>5. Systems(b) = Systems(a)
  BY <1>3 DEF Systems
<1>. QED BY <1>2, <1>4, <1>5

\* A message and what a prompt makes of it: its content with the prompt in front.
LEMMA WithPromptType ==
  ASSUME NEW m, m = Message(m.role, m.shape, m.content), IsSequence(m.content),
         m.shape = "none" => m.content = <<>>, NEW x, NEW w, w = WithPrompt(m, x)
  PROVE  /\ w = Message(w.role, w.shape, w.content)
         /\ w.role = m.role /\ w.content = Cons(x, m.content)
<1>. DEFINE c == IF m.shape = "none" THEN <<x>> ELSE Cons(x, m.content)
            h == IF m.shape = "none" THEN "text" ELSE m.shape
<1>1. w = [m EXCEPT !.content = c, !.shape = h]
  BY DEF WithPrompt
<1>2. c = Cons(x, m.content)
  <2>1. <<x>> \o <<>> = <<x>>
    BY <<x>> \in Seq({x}), ConcatEmptySeq
  <2>. QED BY <2>1 DEF Cons
<1>. HIDE DEF c, h
<1>. QED BY <1>1, <1>2 DEF Message

\* The first system message, if there is one.
LEMMA FirstSystem ==
  ASSUME NEW a, IsSequence(a), NEW i, i = SelectInSeq(a, IsSystem)
  PROVE  \/ i = 0 /\ Systems(a) = {}
         \/ /\ i \in 1..Len(a) /\ IsSystem(a[i]) /\ Systems(a) # {}
            /\ \A m \in 1..(i - 1) : m \in 1..Len(a) /\ ~IsSystem(a[m])
<1>1. Len(a) \in Nat /\ DOMAIN a = 1..Len(a)
  BY SequenceType
<1>. DEFINE I == {m \in 1..Len(a) : IsSystem(a[m])}
<1>2. i = IF I # {} THEN Min(I) ELSE 0
  BY DEF SelectInSeq
<1>3. I = Systems(a)
  BY <1>1 DEF Systems
<1>4. CASE I = {}
  BY <1>2, <1>3, <1>4
<1>5. CASE I # {}
  <2>1. I \in SUBSET Nat
    BY <1>1
  <2>2. \E x \in I : \A y \in I : x <= y
    BY <1>5, <2>1, Smallest
  <2>3. Min(I) \in I /\ \A y \in I : Min(I) <= y
    BY <2>2 DEF Min
  <2>4. i = Min(I)
    BY <1>2, <1>5
  <2>. HIDE DEF I
  <2>5. i \in I /\ i \in Nat /\ \A y \in I : i <= y
    BY <2>1, <2>3, <2>4
  <2>6. i \in 1..Len(a) /\ IsSystem(a[i])
    BY <2>5 DEF I
  <2>7. \A m \in 1..(i - 1) : m \in 1..Len(a) /\ m \notin I
    BY <1>1, <2>5, <2>6
  <2>8. \A m \in 1..(i - 1) : m \in 1..Len(a) /\ ~IsSystem(a[m])
    BY <2>7 DEF I
  <2>. QED BY <1>3, <1>5, <2>6, <2>8
<1>. QED BY <1>4, <1>5

\* b is a with the prompt in front as a message of its own, or in the first system message,
\* which has moved to the front.
Injected(a, b, name) ==
  \/ /\ Systems(a) = {} /\ Len(b) = Len(a) + 1
     /\ b[1].role = "system" /\ b[1].content = <<Prompt(name)>>
     /\ \A m \in 1..Len(a) : b[m + 1] = a[m]
  \/ \E i \in 1..Len(a) :
       /\ IsSystem(a[i]) /\ Len(b) = Len(a)
       /\ \A m \in 1..(i - 1) : m \in 1..Len(a) /\ ~IsSystem(a[m]) /\ b[m + 1] = a[m]
       /\ \A m \in (i + 1)..Len(a) : b[m] = a[m]
       /\ b[1].role = a[i].role /\ b[1].content = Cons(Prompt(name), a[i].content)

\* That is what injecting a prompt does.
LEMMA InjectedType ==
  ASSUME NEW a, Messages(a), \A m \in DOMAIN a : a[m].shape = "none" => a[m].content = <<>>,
         NEW name \in Prompts, NEW b, b = InjectSystemPrompt(a, name)
  PROVE  Messages(b) /\ Injected(a, b, name)
<1>1. /\ IsSequence(a) /\ Len(a) \in Nat /\ DOMAIN a = 1..Len(a)
      /\ \A m \in 1..Len(a) : a[m] = Message(a[m].role, a[m].shape, a[m].content)
                              /\ IsSequence(a[m].content)
  BY SequenceType DEF Messages
<1>. DEFINE i == SelectInSeq(a, IsSystem)
<1>2. \/ i = 0 /\ Systems(a) = {}
      \/ /\ i \in 1..Len(a) /\ IsSystem(a[i]) /\ Systems(a) # {}
         /\ \A m \in 1..(i - 1) : m \in 1..Len(a) /\ ~IsSystem(a[m])
  BY <1>1, FirstSystem
<1>3. b = IF i = 0 THEN Cons(Message("system", "text", <<Prompt(name)>>), a)
          ELSE Cons(WithPrompt(a[i], Prompt(name)), RemoveAt(a, i))
  BY DEF InjectSystemPrompt
<1>. HIDE DEF i
<1>4. CASE i = 0
  <2>. DEFINE x == Message("system", "text", <<Prompt(name)>>)
              A == ToSet(a) \cup {x}
  <2>1. a \in Seq(A) /\ <<x>> \in Seq(A)
    BY <1>1, SeqMonotonic DEF IsSequence
  <2>x. x.role = "system" /\ x.content = <<Prompt(name)>> /\ x.shape = "text"
        /\ x = Message(x.role, x.shape, x.content)
    BY DEF Message
  <2>y. IsSequence(<<Prompt(name)>>)
    <3>1. <<Prompt(name)>> \in Seq({Prompt(name)})
      OBVIOUS
    <3>. QED BY <3>1, SequenceType
  <2>. HIDE DEF A, x
  <2>2. b = <<x>> \o a
    BY <1>3, <1>4 DEF Cons, x
  <2>3. b \in Seq(A) /\ Len(b) = Len(a) + 1 /\ b[1] = x /\ \A m \in 1..Len(a) : b[m + 1] = a[m]
    BY <2>1, <2>2
  <2>4. IsSequence(b) /\ DOMAIN b = 1..(Len(a) + 1)
    BY <2>3, SequenceType
  <2>5. \A m \in 1..(Len(a) + 1) : m = 1 \/ (m - 1 \in 1..Len(a) /\ m - 1 + 1 = m)
    BY <1>1
  <2>6. ASSUME NEW m \in 1..(Len(a) + 1)
        PROVE  b[m] = Message(b[m].role, b[m].shape, b[m].content) /\ IsSequence(b[m].content)
    <3>1. CASE m = 1
      BY <2>3, <2>x, <2>y, <3>1
    <3>2. CASE m - 1 \in 1..Len(a) /\ m - 1 + 1 = m
      <4>1. b[m] = a[m - 1]
        BY <2>3, <3>2
      <4>. QED BY <1>1, <3>2, <4>1
    <3>. QED BY <2>5, <3>1, <3>2
  <2>7. Messages(b)
    BY <2>4, <2>6 DEF Messages
  <2>8. Systems(a) = {} /\ b[1].role = "system" /\ b[1].content = <<Prompt(name)>>
    <3>1. i \notin 1..Len(a)
      BY <1>1, <1>4
    <3>. QED BY <1>2, <2>3, <2>x, <3>1
  <2>. QED BY <2>3, <2>7, <2>8 DEF Injected
<1>5. CASE i \in 1..Len(a)
  <2>. DEFINE x == WithPrompt(a[i], Prompt(name))
              A == ToSet(a) \cup {x}
  <2>0. i \in Nat /\ i # 0 /\ i <= Len(a)
    BY <1>1, <1>5
  <2>1. a \in Seq(A) /\ <<x>> \in Seq(A)
    BY <1>1, SeqMonotonic DEF IsSequence
  <2>x. /\ x = Message(x.role, x.shape, x.content)
        /\ x.role = a[i].role /\ x.content = Cons(Prompt(name), a[i].content)
    BY <1>1, <1>5, WithPromptType
  <2>y. IsSequence(x.content)
    <3>1. Prompt(name).kind # "text"
      BY DEF Prompt
    <3>. QED BY <1>1, <1>5, <2>x, <3>1, TextsPrompted
  <2>. HIDE DEF A, x
  <2>2. b = <<x>> \o RemoveAt(a, i)
    BY <1>3, <2>0 DEF Cons, x
  <2>. DEFINE c == SubSeq(a, 1, i - 1)
              d == SubSeq(a, i + 1, Len(a))
  <2>3. /\ c \in Seq(A) /\ Len(c) = i - 1 /\ \A m \in 1..(i - 1) : c[m] = a[m]
        /\ d \in Seq(A) /\ Len(d) = Len(a) - i /\ \A m \in 1..(Len(a) - i) : d[m] = a[i + m]
    <3>1. \A m \in 1..Len(a) : a[m] \in A
      BY <2>1
    <3>2. /\ c \in Seq(A) /\ Len(c) = i - 1 /\ \A m \in 1..(i - 1) : c[m] = a[m]
      BY <2>0, <2>1, <3>1
    <3>3. /\ d \in Seq(A) /\ Len(d) = Len(a) - i /\ \A m \in 1..(Len(a) - i) : d[m] = a[i + m]
      BY <2>0, <2>1, <3>1
    <3>. QED BY <3>2, <3>3
  <2>4. b = <<x>> \o (c \o d)
    BY <2>2 DEF RemoveAt
  <2>. HIDE DEF c, d
  <2>5. /\ c \o d \in Seq(A) /\ Len(c \o d) = Len(a) - 1
        /\ \A m \in 1..(i - 1) : (c \o d)[m] = a[m]
        /\ \A m \in i..(Len(a) - 1) : (c \o d)[m] = a[m + 1]
    <3>0. /\ c \o d \in Seq(A) /\ Len(c \o d) = Len(c) + Len(d)
          /\ \A m \in 1..(Len(c) + Len(d)) :
               (c \o d)[m] = IF m <= Len(c) THEN c[m] ELSE d[m - Len(c)]
      BY <2>3, ConcatProperties
    <3>a. Len(c) = i - 1 /\ Len(c) + Len(d) = Len(a) - 1
      BY <1>1, <2>0, <2>3
    <3>1. /\ c \o d \in Seq(A) /\ Len(c \o d) = Len(a) - 1
          /\ \A m \in 1..(Len(a) - 1) :
               (c \o d)[m] = IF m <= i - 1 THEN c[m] ELSE d[m - (i - 1)]
      BY <3>0, <3>a
    <3>2. \A m \in i..(Len(a) - 1) : m - (i - 1) \in 1..(Len(a) - i) /\ i + (m - (i - 1)) = m + 1
                                    /\ ~(m <= i - 1) /\ m \in 1..(Len(a) - 1)
      BY <1>1, <2>0
    <3>3. \A m \in 1..(i - 1) : m <= i - 1 /\ m \in 1..(Len(a) - 1)
      BY <1>1, <2>0
    <3>. QED BY <2>3, <3>1, <3>2, <3>3
  <2>6. b \in Seq(A) /\ Len(b) = Len(a) /\ b[1] = x
        /\ \A m \in 1..(Len(a) - 1) : b[m + 1] = (c \o d)[m]
    <3>. DEFINE u == c \o d
    <3>1. u \in Seq(A) /\ Len(u) = Len(a) - 1 /\ b = <<x>> \o u
      BY <2>4, <2>5
    <3>. HIDE DEF u
    <3>2. /\ b \in Seq(A) /\ Len(b) = Len(u) + 1 /\ b[1] = x
          /\ \A m \in 1..Len(u) : b[m + 1] = u[m]
      BY <2>1, <3>1
    <3>3. Len(u) + 1 = Len(a)
      BY <1>1, <3>1
    <3>. QED BY <3>1, <3>2, <3>3 DEF u
  <2>7. /\ \A m \in 1..(i - 1) : b[m + 1] = a[m]
        /\ \A m \in (i + 1)..Len(a) : b[m] = a[m]
    <3>1. \A m \in 1..(i - 1) : m \in 1..(Len(a) - 1)
      BY <1>1, <2>0
    <3>2. \A m \in (i + 1)..Len(a) : m - 1 \in i..(Len(a) - 1) /\ m - 1 \in 1..(Len(a) - 1)
                                     /\ m - 1 + 1 = m
      BY <1>1, <2>0
    <3>. QED BY <2>5, <2>6, <3>1, <3>2
  <2>8. IsSequence(b) /\ DOMAIN b = 1..Len(a)
    BY <2>6, SequenceType
  <2>9. \A m \in 1..Len(a) : \/ m = 1 \/ m \in (i + 1)..Len(a)
                             \/ m - 1 \in 1..(i - 1) /\ m - 1 + 1 = m
    BY <1>1, <2>0
  <2>10. ASSUME NEW m \in 1..Len(a)
         PROVE  b[m] = Message(b[m].role, b[m].shape, b[m].content) /\ IsSequence(b[m].content)
    <3>1. CASE m = 1
      BY <2>6, <2>x, <2>y, <3>1
    <3>2. CASE m - 1 \in 1..(i - 1) /\ m - 1 + 1 = m
      <4>1. b[m] = a[m - 1] /\ m - 1 \in 1..Len(a)
        BY <1>1, <2>0, <2>7, <3>2
      <4>. QED BY <1>1, <4>1
    <3>3. CASE m \in (i + 1)..Len(a)
      BY <1>1, <2>7, <3>3
    <3>. QED BY <2>9, <3>1, <3>2, <3>3
  <2>11. Messages(b)
    BY <2>8, <2>10 DEF Messages
  <2>12. IsSystem(a[i]) /\ \A m \in 1..(i - 1) : m \in 1..Len(a) /\ ~IsSystem(a[m])
    BY <1>2, <2>0
  <2>13. b[1].role = a[i].role /\ b[1].content = Cons(Prompt(name), a[i].content)
    BY <2>6, <2>x
  <2>14. Len(b) = Len(a)
    BY <2>6
  <2>. QED BY <1>5, <2>7, <2>11, <2>12, <2>13, <2>14 DEF Injected
<1>. QED BY <1>2, <1>4, <1>5
-----------------------------------------------------------------------------
(* Counting the items of some kinds *)

\* A set and what a one-to-one map makes of it have the same number of elements.
LEMMA SameNumber ==
  ASSUME NEW S, IsFiniteSet(S), NEW T, NEW f \in [S -> T],
         \A x, y \in S : f[x] = f[y] => x = y,
         \A t \in T : \E x \in S : f[x] = t
  PROVE  IsFiniteSet(T) /\ Cardinality(T) = Cardinality(S)
<1>1. f \in Bijection(S, T)
  BY DEF Bijection, Injection, Surjection, IsInjective
<1>2. ExistsBijection(S, T)
  BY <1>1 DEF ExistsBijection
<1>. QED BY <1>2, FS_Bijection

\* What is at the places of some kinds.
LEMMA PlacesAre ==
  ASSUME NEW a, NEW kinds
  PROVE  /\ \A p : p \in Places(a, kinds) =>
              /\ p = <<p[1], p[2]>> /\ p[1] \in DOMAIN a /\ p[2] \in DOMAIN a[p[1]].content
              /\ a[p[1]].content[p[2]].kind \in kinds
         /\ \A m \in DOMAIN a : \A k \in DOMAIN a[m].content :
              a[m].content[k].kind \in kinds => <<m, k>> \in Places(a, kinds)
<1>. DEFINE at(m) == {k \in DOMAIN a[m].content : a[m].content[k].kind \in kinds}
<1>1. Places(a, kinds) = UNION {{<<m, k>> : k \in at(m)} : m \in DOMAIN a}
  BY DEF Places
<1>2. ASSUME NEW p, p \in Places(a, kinds)
      PROVE  \E m \in DOMAIN a : \E k \in at(m) : p = <<m, k>>
  <2>. HIDE DEF at
  <2>. QED BY <1>1, <1>2
<1>3. ASSUME NEW m \in DOMAIN a, NEW k \in at(m) PROVE <<m, k>> \in Places(a, kinds)
  <2>. HIDE DEF at
  <2>. QED BY <1>1
<1>. QED BY <1>2, <1>3

\* There are finitely many.
LEMMA PlacesFinite ==
  ASSUME NEW a, Messages(a), NEW kinds
  PROVE  IsFiniteSet(Places(a, kinds))
<1>. DEFINE at(m) == {k \in DOMAIN a[m].content : a[m].content[k].kind \in kinds}
            of(m) == {<<m, k>> : k \in at(m)}
            G == {of(m) : m \in DOMAIN a}
<1>1. Places(a, kinds) = UNION G
  BY DEF Places
<1>2. IsFiniteSet(DOMAIN a)
  <2>1. DOMAIN a = 1..Len(a) /\ Len(a) \in Nat
    BY SequenceType DEF Messages
  <2>. QED BY <2>1, FS_Interval
<1>3. IsFiniteSet(G)
  <2>. DEFINE f == [m \in DOMAIN a |-> of(m)]
  <2>. HIDE DEF of
  <2>1. f \in Surjection(DOMAIN a, G)
    BY DEF Surjection
  <2>. HIDE DEF f, G
  <2>. QED BY <1>2, <2>1, FS_Surjection
<1>4. ASSUME NEW m \in DOMAIN a PROVE IsFiniteSet(of(m))
  <2>1. DOMAIN a[m].content = 1..Len(a[m].content) /\ Len(a[m].content) \in Nat
    BY SequenceType DEF Messages
  <2>2. IsFiniteSet(DOMAIN a[m].content)
    BY <2>1, FS_Interval
  <2>3. at(m) \in SUBSET DOMAIN a[m].content
    OBVIOUS
  <2>4. IsFiniteSet(at(m))
    <3>. HIDE DEF at
    <3>. QED BY <2>2, <2>3, FS_Subset
  <2>. DEFINE f == [k \in at(m) |-> <<m, k>>]
  <2>. HIDE DEF at
  <2>5. f \in Surjection(at(m), of(m))
    BY DEF Surjection
  <2>. HIDE DEF f, of
  <2>. QED BY <2>4, <2>5, FS_Surjection
<1>5. \A T \in G : IsFiniteSet(T)
  <2>. HIDE DEF of
  <2>. QED BY <1>4
<1>. HIDE DEF G
<1>. QED BY <1>1, <1>3, <1>5, FS_UNION

\* g moves the items of some kinds in c to those in d, one to one.
Moved(g, c, d, kinds) ==
  /\ \A k \in DOMAIN c : c[k].kind \in kinds => g[k] \in DOMAIN d /\ d[g[k]].kind \in kinds
  /\ \A k, l \in DOMAIN c : c[k].kind \in kinds /\ c[l].kind \in kinds /\ g[k] = g[l] => k = l
  /\ \A j \in DOMAIN d : d[j].kind \in kinds =>
       \E k \in DOMAIN c : c[k].kind \in kinds /\ g[k] = j

\* Items that stay where they are.
LEMMA Unmoved == \A c, kinds : \E g : Moved(g, c, c, kinds)
<1>. TAKE c, kinds
<1>. DEFINE g == [k \in DOMAIN c |-> k]
<1>1. Moved(g, c, c, kinds)
  BY DEF Moved
<1>. QED BY <1>1

\* h takes the messages of a to those of b, one to one, with all their items of some kinds; in
\* a message of b that is no message of a there are none.
Carried(h, a, b, kinds) ==
  /\ \A m \in DOMAIN a : h[m] \in DOMAIN b
  /\ \A m, n \in DOMAIN a : h[m] = h[n] => m = n
  /\ \A n \in DOMAIN b : \/ \E m \in DOMAIN a : h[m] = n
                         \/ \A k \in DOMAIN b[n].content : b[n].content[k].kind \notin kinds
  /\ \A m \in DOMAIN a : \E g : Moved(g, a[m].content, b[h[m]].content, kinds)

\* Then there are as many of them as before.
LEMMA SamePlaces ==
  ASSUME NEW a, Messages(a), NEW b, NEW kinds, NEW h, Carried(h, a, b, kinds)
  PROVE  Cardinality(Places(b, kinds)) = Cardinality(Places(a, kinds))
<1>0. /\ \A m \in DOMAIN a : h[m] \in DOMAIN b
      /\ \A m, n \in DOMAIN a : h[m] = h[n] => m = n
      /\ \A n \in DOMAIN b : \/ \E m \in DOMAIN a : h[m] = n
                             \/ \A k \in DOMAIN b[n].content : b[n].content[k].kind \notin kinds
      /\ \A m \in DOMAIN a : \E g : Moved(g, a[m].content, b[h[m]].content, kinds)
  BY DEF Carried
<1>. DEFINE to(m) == CHOOSE g : Moved(g, a[m].content, b[h[m]].content, kinds)
<1>1. \A m \in DOMAIN a : Moved(to(m), a[m].content, b[h[m]].content, kinds)
  BY <1>0
<1>. HIDE DEF to
<1>. DEFINE S == Places(a, kinds)
            T == Places(b, kinds)
            f == [p \in S |-> <<h[p[1]], to(p[1])[p[2]]>>]
<1>2. ASSUME NEW p \in S
      PROVE  /\ p = <<p[1], p[2]>> /\ p[1] \in DOMAIN a /\ p[2] \in DOMAIN a[p[1]].content
             /\ a[p[1]].content[p[2]].kind \in kinds
             /\ h[p[1]] \in DOMAIN b /\ to(p[1])[p[2]] \in DOMAIN b[h[p[1]]].content
             /\ b[h[p[1]]].content[to(p[1])[p[2]]].kind \in kinds
  <2>1. /\ p = <<p[1], p[2]>> /\ p[1] \in DOMAIN a /\ p[2] \in DOMAIN a[p[1]].content
        /\ a[p[1]].content[p[2]].kind \in kinds
    BY PlacesAre
  <2>2. Moved(to(p[1]), a[p[1]].content, b[h[p[1]]].content, kinds)
    BY <1>1, <2>1
  <2>. QED BY <1>0, <2>1, <2>2 DEF Moved
<1>3. f \in [S -> T]
  <2>1. ASSUME NEW p \in S PROVE <<h[p[1]], to(p[1])[p[2]]>> \in T
    BY <1>2, PlacesAre
  <2>. HIDE DEF T
  <2>. QED BY <2>1
<1>4. ASSUME NEW p \in S, NEW q \in S, f[p] = f[q] PROVE p = q
  <2>1. h[p[1]] = h[q[1]] /\ to(p[1])[p[2]] = to(q[1])[q[2]]
    BY <1>4
  <2>2. p[1] = q[1]
    BY <1>0, <1>2, <2>1
  <2>3. Moved(to(p[1]), a[p[1]].content, b[h[p[1]]].content, kinds)
    BY <1>1, <1>2
  <2>4. p[2] = q[2]
    <3>. DEFINE c == a[p[1]].content
    <3>1. /\ p[2] \in DOMAIN c /\ c[p[2]].kind \in kinds
          /\ q[2] \in DOMAIN c /\ c[q[2]].kind \in kinds
      BY <1>2, <2>2
    <3>2. to(p[1])[p[2]] = to(p[1])[q[2]]
      BY <2>1, <2>2
    <3>. HIDE DEF c
    <3>3. \A k, l \in DOMAIN c :
            c[k].kind \in kinds /\ c[l].kind \in kinds /\ to(p[1])[k] = to(p[1])[l] => k = l
      BY <2>3 DEF Moved, c
    <3>. QED BY <3>1, <3>2, <3>3
  <2>. QED BY <1>2, <2>2, <2>4
<1>5. ASSUME NEW t \in T PROVE \E p \in S : f[p] = t
  <2>1. /\ t = <<t[1], t[2]>> /\ t[1] \in DOMAIN b /\ t[2] \in DOMAIN b[t[1]].content
        /\ b[t[1]].content[t[2]].kind \in kinds
    BY PlacesAre
  <2>2. PICK m \in DOMAIN a : h[m] = t[1]
    BY <1>0, <2>1
  <2>3. PICK k \in DOMAIN a[m].content : a[m].content[k].kind \in kinds /\ to(m)[k] = t[2]
    BY <1>1, <2>1, <2>2 DEF Moved
  <2>4. <<m, k>> \in S
    BY <2>3, PlacesAre
  <2>5. f[<<m, k>>] = <<h[m], to(m)[k]>>
    BY <2>4
  <2>. QED BY <2>1, <2>2, <2>3, <2>4, <2>5
<1>6. IsFiniteSet(S)
  BY PlacesFinite
<1>. HIDE DEF f, S, T
<1>7. Cardinality(T) = Cardinality(S)
  BY <1>3, <1>4, <1>5, <1>6, SameNumber
<1>. QED BY <1>7 DEF S, T
-----------------------------------------------------------------------------
(* The prompt is injected *)

\* What an image is, or has been replaced by.
Pictures == {"image", "described", "unavailable"}

\* What ClientIsHeard says of the prompt.
PromptLeads(now, then) ==
  Prompted(now) # {} =>
    /\ Prompted(now) = {1} /\ IsSystem(now[1]) /\ now[1].content[1].kind = "prompt"
    /\ Cardinality(Systems(now)) = (IF Systems(then) = {} THEN 1 ELSE Cardinality(Systems(then)))

\* Messages that are what a client's have become.
Faithful(now, then) ==
  /\ Messages(now)
  /\ Said(now) = Said(then)
  /\ PromptLeads(now, then)
  /\ Cardinality(Places(now, Pictures)) = Cardinality(Places(then, {"image"}))

\* A client's messages hold none of what the proxy puts into messages.
LEMMA ClientType ==
  ASSUME NEW a, ClientMessages(a)
  PROVE  /\ Messages(a) /\ Prompted(a) = {} /\ Places(a, Pictures) = Places(a, {"image"})
         /\ \A m \in DOMAIN a : a[m].shape = "none" => a[m].content = <<>>
<1>1. Messages(a) /\ \A m \in DOMAIN a : a[m].shape = "none" => a[m].content = <<>>
  BY DEF ClientMessages, Messages
<1>2. \A m \in DOMAIN a : \A k \in DOMAIN a[m].content :
        /\ a[m].content[k].kind # "prompt"
        /\ a[m].content[k].kind \in Pictures <=> a[m].content[k].kind \in {"image"}
  BY DEF ClientMessages, Pictures
<1>3. Prompted(a) = {}
  BY <1>2 DEF Prompted
<1>4. Places(a, Pictures) = Places(a, {"image"})
  <2>1. ASSUME NEW p, p \in Places(a, Pictures) PROVE p \in Places(a, {"image"})
    <3>1. /\ p = <<p[1], p[2]>> /\ p[1] \in DOMAIN a /\ p[2] \in DOMAIN a[p[1]].content
          /\ a[p[1]].content[p[2]].kind \in Pictures
      BY <2>1, PlacesAre
    <3>2. <<p[1], p[2]>> \in Places(a, {"image"})
      BY <1>2, <3>1, PlacesAre
    <3>. QED BY <3>1, <3>2
  <2>2. ASSUME NEW p, p \in Places(a, {"image"}) PROVE p \in Places(a, Pictures)
    <3>1. /\ p = <<p[1], p[2]>> /\ p[1] \in DOMAIN a /\ p[2] \in DOMAIN a[p[1]].content
          /\ a[p[1]].content[p[2]].kind \in {"image"}
      BY <2>2, PlacesAre
    <3>2. <<p[1], p[2]>> \in Places(a, Pictures)
      BY <1>2, <3>1, PlacesAre
    <3>. QED BY <3>1, <3>2
  <2>. QED BY <2>1, <2>2
<1>. QED BY <1>1, <1>3, <1>4

\* Messages nothing has been done to.
LEMMA FaithfulAtFirst ==
  ASSUME NEW a, ClientMessages(a)
  PROVE  Faithful(a, a)
BY ClientType DEF Faithful, PromptLeads

\* What the client said in a message that the prompt has been put in front of, and in one that
\* is the prompt alone.
LEMMA PromptedMessage ==
  ASSUME NEW c, IsSequence(c), NEW name, NEW d, d = Cons(Prompt(name), c)
  PROVE  /\ IsSequence(d) /\ TextsOf(d) = TextsOf(c)
         /\ 1 \in DOMAIN d /\ d[1].kind = "prompt"
         /\ \E g : Moved(g, c, d, Pictures)
<1>1. Prompt(name).kind = "prompt"
  BY DEF Prompt
<1>2. /\ IsSequence(d) /\ Len(d) = Len(c) + 1
      /\ d[1] = Prompt(name) /\ \A k \in DOMAIN c : d[k + 1] = c[k]
      /\ TextsOf(d) = TextsOf(c)
  BY <1>1, TextsPrompted
<1>3. /\ Len(c) \in Nat /\ DOMAIN c = 1..Len(c) /\ DOMAIN d = 1..(Len(c) + 1)
  BY <1>2, SequenceType
<1>. DEFINE g == [k \in DOMAIN c |-> k + 1]
<1>4. \A k \in DOMAIN c : g[k] = k + 1 /\ g[k] \in DOMAIN d /\ d[g[k]] = c[k]
  BY <1>2, <1>3
<1>5. \A j \in DOMAIN d : j = 1 \/ (j - 1 \in DOMAIN c /\ j - 1 + 1 = j)
  BY <1>3
<1>6. d[1].kind \notin Pictures
  BY <1>1, <1>2 DEF Pictures
<1>7. \A j \in DOMAIN d : d[j].kind \in Pictures =>
        \E k \in DOMAIN c : c[k].kind \in Pictures /\ g[k] = j
  <2>. TAKE j \in DOMAIN d
  <2>. HAVE d[j].kind \in Pictures
  <2>1. j - 1 \in DOMAIN c /\ j - 1 + 1 = j
    BY <1>5, <1>6
  <2>2. g[j - 1] = j /\ c[j - 1] = d[j]
    BY <1>4, <2>1
  <2>. QED BY <2>1, <2>2
<1>8. \A k, l \in DOMAIN c : g[k] = g[l] => k = l
  BY <1>3, <1>4
<1>. HIDE DEF g
<1>9. Moved(g, c, d, Pictures)
  BY <1>4, <1>7, <1>8 DEF Moved
<1>. QED BY <1>1, <1>2, <1>3, <1>9

\* Injecting the prompt into the messages of a client.
LEMMA InjectedIsFaithful ==
  ASSUME NEW a, ClientMessages(a), NEW name \in Prompts, NEW b, b = InjectSystemPrompt(a, name)
  PROVE  Faithful(b, a)
<1>1. /\ Messages(a) /\ Prompted(a) = {} /\ Places(a, Pictures) = Places(a, {"image"})
      /\ \A m \in DOMAIN a : a[m].shape = "none" => a[m].content = <<>>
  BY ClientType
<1>2. Messages(b) /\ Injected(a, b, name)
  BY <1>1, InjectedType
<1>3. /\ Len(a) \in Nat /\ DOMAIN a = 1..Len(a) /\ IsSequence(Own(a)) /\ Len(Own(a)) = Len(a)
      /\ \A m \in DOMAIN a : /\ Own(a)[m] = [role |-> a[m].role, texts |-> TextsOf(a[m].content)]
                             /\ Own(a)[m].texts = TextsOf(a[m].content)
                             /\ IsSequence(a[m].content)
  BY <1>1, OwnType DEF Messages
<1>4. /\ Len(b) \in Nat /\ DOMAIN b = 1..Len(b) /\ IsSequence(Own(b)) /\ Len(Own(b)) = Len(b)
      /\ \A m \in DOMAIN b : /\ Own(b)[m] = [role |-> b[m].role, texts |-> TextsOf(b[m].content)]
                             /\ Own(b)[m].texts = TextsOf(b[m].content)
  BY <1>2, OwnType
<1>5. PICK A : Own(a) \in Seq(A) /\ Own(b) \in Seq(A)
  BY <1>3, <1>4, Together
<1>. DEFINE others(x) == {m \in DOMAIN x : ~IsSystem(x[m])}
            system(x) == {m \in DOMAIN x : IsSystem(x[m]) /\ Own(x)[m].texts # <<>>}
<1>6. /\ Said(a) = <<Only(Own(a), others(a)), Only(Own(a), system(a))>>
      /\ Said(b) = <<Only(Own(b), others(b)), Only(Own(b), system(b))>>
  BY DEF Said
<1>7. /\ \A m : m \in others(a) <=> m \in DOMAIN a /\ ~IsSystem(a[m])
      /\ \A m : m \in others(b) <=> m \in DOMAIN b /\ ~IsSystem(b[m])
      /\ \A m : m \in system(a) <=> m \in DOMAIN a /\ IsSystem(a[m]) /\ TextsOf(a[m].content) # <<>>
      /\ \A m : m \in system(b) <=> m \in DOMAIN b /\ IsSystem(b[m]) /\ TextsOf(b[m].content) # <<>>
  BY <1>3, <1>4
<1>. HIDE DEF others, system
<1>. DEFINE Same == Said(b) = Said(a) /\ PromptLeads(b, a)
                    /\ Cardinality(Places(b, Pictures)) = Cardinality(Places(a, Pictures))
<1>8. ASSUME Systems(a) = {}, Len(b) = Len(a) + 1,
             b[1].role = "system", b[1].content = <<Prompt(name)>>,
             \A m \in 1..Len(a) : b[m + 1] = a[m]
      PROVE  Same
  <2>1. /\ IsSystem(b[1]) /\ 1 \in DOMAIN b /\ \A m \in 1..Len(a) : m + 1 \in DOMAIN b
        /\ \A n \in DOMAIN b : n = 1 \/ (n - 1 \in 1..Len(a) /\ n - 1 + 1 = n /\ n \in Nat)
    BY <1>3, <1>4, <1>8 DEF IsSystem
  <2>2. \A m \in 1..Len(a) : ~IsSystem(a[m]) /\ b[m + 1] = a[m]
    BY <1>3, <1>8 DEF Systems
  <2>3. /\ IsSequence(b[1].content) /\ TextsOf(b[1].content) = <<>>
        /\ 1 \in DOMAIN b[1].content /\ b[1].content[1].kind = "prompt"
        /\ \A k \in DOMAIN b[1].content : b[1].content[k].kind = "prompt"
    <3>1. <<>> \in Seq({}) /\ <<Prompt(name)>> \in Seq({Prompt(name)})
      OBVIOUS
    <3>2. Cons(Prompt(name), <<>>) = <<Prompt(name)>>
      BY <3>1, ConcatEmptySeq DEF Cons
    <3>3. IsSequence(<<>>) /\ TextsOf(<<>>) = <<>>
      BY <3>1, SequenceType, OnlyEmpty DEF TextsOf
    <3>4. DOMAIN <<Prompt(name)>> = {1} /\ <<Prompt(name)>>[1] = Prompt(name)
      OBVIOUS
    <3>5. Prompt(name).kind = "prompt"
      BY DEF Prompt
    <3>. QED BY <1>8, <3>2, <3>3, <3>4, <3>5, PromptedMessage
  <2>4. \A m \in 1..Len(a) : Own(b)[m + 1] = Own(a)[m]
    <3>. TAKE m \in 1..Len(a)
    <3>1. m \in DOMAIN a /\ m + 1 \in DOMAIN b /\ b[m + 1] = a[m]
      BY <1>3, <2>1, <2>2
    <3>2. Own(a)[m] = [role |-> a[m].role, texts |-> TextsOf(a[m].content)]
      BY <1>3, <3>1
    <3>3. Own(b)[m + 1] = [role |-> b[m + 1].role, texts |-> TextsOf(b[m + 1].content)]
      BY <1>4, <3>1
    <3>. QED BY <3>1, <3>2, <3>3
  <2>5. Only(Own(b), others(b)) = Only(Own(a), others(a))
    <3>1. 1 \notin others(b)
      BY <1>7, <2>1
    <3>2. \A n \in 1..Len(Own(a)) : /\ n \in others(a) <=> n + 1 \in others(b)
                                    /\ n \in others(a) => Own(a)[n] = Own(b)[n + 1]
      BY <1>3, <1>7, <2>1, <2>2, <2>4
    <3>. QED BY <1>3, <1>4, <1>5, <1>8, <3>1, <3>2, OnlyLonger
  <2>6. Only(Own(b), system(b)) = Only(Own(a), system(a))
    <3>1. 1 \notin system(b)
      BY <1>7, <2>3
    <3>2. \A n \in 1..Len(Own(a)) : /\ n \in system(a) <=> n + 1 \in system(b)
                                    /\ n \in system(a) => Own(a)[n] = Own(b)[n + 1]
      BY <1>3, <1>7, <2>1, <2>2, <2>4
    <3>. QED BY <1>3, <1>4, <1>5, <1>8, <3>1, <3>2, OnlyLonger
  <2>7. Systems(b) = {1} /\ Prompted(b) = {1}
    <3>1. \A n \in DOMAIN b : n # 1 => ~IsSystem(b[n])
      BY <2>1, <2>2
    <3>2. \A n \in DOMAIN b : n # 1 => n \notin Prompted(b)
      <4>1. \A m \in 1..Len(a) : \A k \in DOMAIN a[m].content : a[m].content[k].kind # "prompt"
        BY <1>1, <1>3 DEF Prompted
      <4>. QED BY <2>1, <2>2, <4>1 DEF Prompted
    <3>. QED BY <2>1, <2>3, <3>1, <3>2 DEF Systems, Prompted
  <2>8. Cardinality(Places(b, Pictures)) = Cardinality(Places(a, Pictures))
    <3>. DEFINE h == [m \in DOMAIN a |-> m + 1]
    <3>1. \A m \in DOMAIN a : h[m] = m + 1 /\ h[m] \in DOMAIN b /\ b[h[m]].content = a[m].content
      BY <1>3, <2>1, <2>2
    <3>2. \A m, n \in DOMAIN a : h[m] = h[n] => m = n
      BY <1>3, <3>1
    <3>3. \A n \in DOMAIN b : \/ \E m \in DOMAIN a : h[m] = n
                              \/ \A k \in DOMAIN b[n].content : b[n].content[k].kind \notin Pictures
      <4>. TAKE n \in DOMAIN b
      <4>1. CASE n = 1
        BY <2>3, <4>1 DEF Pictures
      <4>2. CASE n - 1 \in 1..Len(a) /\ n - 1 + 1 = n
        <5>1. n - 1 \in DOMAIN a /\ h[n - 1] = n
          BY <1>3, <4>2, <3>1
        <5>. QED BY <5>1
      <4>. QED BY <2>1, <4>1, <4>2
    <3>. HIDE DEF h
    <3>4. \A m \in DOMAIN a : \E g : Moved(g, a[m].content, b[h[m]].content, Pictures)
      BY <3>1, Unmoved
    <3>5. \A m \in DOMAIN a : h[m] \in DOMAIN b
      BY <3>1
    <3>6. Carried(h, a, b, Pictures)
      BY <3>2, <3>3, <3>4, <3>5 DEF Carried
    <3>. QED BY <1>1, <3>6, SamePlaces
  <2>9. PromptLeads(b, a)
    <3>1. Cardinality(Systems(b)) = 1
      BY <2>7, FS_Singleton
    <3>. QED BY <1>8, <2>1, <2>3, <2>7, <3>1 DEF PromptLeads
  <2>. QED BY <1>6, <2>5, <2>6, <2>8, <2>9
<1>9. ASSUME NEW i \in 1..Len(a), IsSystem(a[i]), Len(b) = Len(a),
             \A m \in 1..(i - 1) : m \in 1..Len(a) /\ ~IsSystem(a[m]) /\ b[m + 1] = a[m],
             \A m \in (i + 1)..Len(a) : b[m] = a[m],
             b[1].role = a[i].role, b[1].content = Cons(Prompt(name), a[i].content)
      PROVE  Same
  <2>0. i \in Nat /\ 1 <= i /\ i <= Len(a) /\ DOMAIN b = DOMAIN a
    BY <1>3, <1>4, <1>9
  <2>1. /\ IsSystem(b[1]) /\ 1 \in DOMAIN b
        /\ \A m \in 1..(i - 1) : m \in DOMAIN a /\ m + 1 \in DOMAIN b
        /\ \A m \in (i + 1)..Len(a) : m \in DOMAIN b
        /\ \A m \in DOMAIN a : m = i \/ m \in 1..(i - 1) \/ m \in (i + 1)..Len(a)
        /\ \A n \in DOMAIN b : \/ n = 1 \/ n \in (i + 1)..Len(a)
                               \/ n - 1 \in 1..(i - 1) /\ n - 1 + 1 = n
    <3>1. IsSystem(b[1])
      BY <1>9 DEF IsSystem
    <3>. QED BY <1>3, <2>0, <3>1
  <2>2. /\ IsSequence(b[1].content) /\ TextsOf(b[1].content) = TextsOf(a[i].content)
        /\ 1 \in DOMAIN b[1].content /\ b[1].content[1].kind = "prompt"
        /\ \E g : Moved(g, a[i].content, b[1].content, Pictures)
    BY <1>3, <1>9, PromptedMessage
  <2>3. /\ Own(b)[1] = Own(a)[i]
        /\ \A m \in 1..(i - 1) : Own(b)[m + 1] = Own(a)[m]
        /\ \A m \in (i + 1)..Len(a) : Own(b)[m] = Own(a)[m]
    <3>1. Own(b)[1] = Own(a)[i]
      <4>1. Own(b)[1] = [role |-> b[1].role, texts |-> TextsOf(b[1].content)]
        BY <1>4, <2>1
      <4>2. Own(a)[i] = [role |-> a[i].role, texts |-> TextsOf(a[i].content)]
        BY <1>3
      <4>. QED BY <1>9, <2>2, <4>1, <4>2
    <3>2. ASSUME NEW m \in DOMAIN a, NEW n \in DOMAIN b, b[n] = a[m]
          PROVE  Own(b)[n] = Own(a)[m]
      <4>1. Own(a)[m] = [role |-> a[m].role, texts |-> TextsOf(a[m].content)]
        BY <1>3
      <4>2. Own(b)[n] = [role |-> b[n].role, texts |-> TextsOf(b[n].content)]
        BY <1>4
      <4>. QED BY <3>2, <4>1, <4>2
    <3>3. \A m \in 1..(i - 1) : Own(b)[m + 1] = Own(a)[m]
      BY <1>9, <2>1, <3>2
    <3>4. \A m \in (i + 1)..Len(a) : Own(b)[m] = Own(a)[m]
      BY <1>9, <2>0, <2>1, <3>2
    <3>. QED BY <3>1, <3>3, <3>4
  <2>4. Only(Own(b), others(b)) = Only(Own(a), others(a))
    <3>1. 1 \in others(b) <=> i \in others(a)
      BY <1>3, <1>7, <1>9, <2>1
    <3>2. i \notin others(a)
      BY <1>7, <1>9
    <3>3. \A n \in 1..(i - 1) : /\ n \in others(a) <=> n + 1 \in others(b)
                                /\ n \in others(a) => Own(a)[n] = Own(b)[n + 1]
      BY <1>7, <1>9, <2>1, <2>3
    <3>4. \A n \in (i + 1)..Len(Own(a)) : /\ n \in others(a) <=> n \in others(b)
                                          /\ n \in others(a) => Own(a)[n] = Own(b)[n]
      BY <1>3, <1>7, <1>9, <2>0, <2>1, <2>3
    <3>. QED BY <1>3, <1>4, <1>5, <1>9, <2>3, <3>1, <3>2, <3>3, <3>4, OnlyMoved, SMTT(30)
  <2>5. Only(Own(b), system(b)) = Only(Own(a), system(a))
    <3>1. 1 \in system(b) <=> i \in system(a)
      BY <1>3, <1>7, <1>9, <2>1, <2>2
    <3>2. \A n \in 1..(i - 1) : n \notin system(a)
      BY <1>7, <1>9
    <3>3. \A n \in 1..(i - 1) : /\ n \in system(a) <=> n + 1 \in system(b)
                                /\ n \in system(a) => Own(a)[n] = Own(b)[n + 1]
      BY <1>7, <1>9, <2>1, <2>3
    <3>4. \A n \in (i + 1)..Len(Own(a)) : /\ n \in system(a) <=> n \in system(b)
                                          /\ n \in system(a) => Own(a)[n] = Own(b)[n]
      BY <1>3, <1>7, <1>9, <2>0, <2>1, <2>3
    <3>. QED BY <1>3, <1>4, <1>5, <1>9, <2>3, <3>1, <3>2, <3>3, <3>4, OnlyMoved, SMTT(30)
  <2>. DEFINE h == [m \in DOMAIN a |-> IF m = i THEN 1 ELSE IF m \in 1..(i - 1) THEN m + 1 ELSE m]
  <2>6. /\ h[i] = 1 /\ \A m \in 1..(i - 1) : h[m] = m + 1
        /\ \A m \in (i + 1)..Len(a) : h[m] = m
    BY <1>3, <2>0, <2>1
  <2>. HIDE DEF h
  <2>7. \A m \in DOMAIN a : h[m] \in DOMAIN b
    BY <2>1, <2>6
  <2>8. \A m, n \in DOMAIN a : h[m] = h[n] => m = n
    BY <1>3, <2>0, <2>1, <2>6
  <2>9. \A n \in DOMAIN b : \E m \in DOMAIN a : h[m] = n
    <3>. TAKE n \in DOMAIN b
    <3>1. CASE n = 1
      BY <1>3, <2>6, <3>1
    <3>2. CASE n \in (i + 1)..Len(a)
      BY <2>0, <2>1, <2>6, <3>2
    <3>3. CASE n - 1 \in 1..(i - 1) /\ n - 1 + 1 = n
      BY <2>1, <2>6, <3>3
    <3>. QED BY <2>1, <3>1, <3>2, <3>3
  <2>10. \A m \in DOMAIN a : m # i => b[h[m]] = a[m]
    BY <1>9, <2>1, <2>6
  <2>11. Cardinality(Places(b, Pictures)) = Cardinality(Places(a, Pictures))
    <3>1. \A m \in DOMAIN a : \E g : Moved(g, a[m].content, b[h[m]].content, Pictures)
      BY <2>2, <2>6, <2>10, Unmoved
    <3>2. \A n \in DOMAIN b : \/ \E m \in DOMAIN a : h[m] = n
                              \/ \A k \in DOMAIN b[n].content : b[n].content[k].kind \notin Pictures
      BY <2>9
    <3>3. Carried(h, a, b, Pictures)
      BY <2>7, <2>8, <3>1, <3>2 DEF Carried
    <3>. QED BY <1>1, <3>3, SamePlaces
  <2>12. Prompted(b) = {1}
    <3>1. \A m \in DOMAIN a : \A k \in DOMAIN a[m].content : a[m].content[k].kind # "prompt"
      BY <1>1 DEF Prompted
    <3>2. \A n \in DOMAIN b : n # 1 => n \notin Prompted(b)
      <4>. TAKE n \in DOMAIN b
      <4>. HAVE n # 1
      <4>1. PICK m \in DOMAIN a : h[m] = n
        BY <2>9
      <4>2. b[n] = a[m]
        BY <2>6, <2>10, <4>1
      <4>. QED BY <3>1, <4>2 DEF Prompted
    <3>. QED BY <2>1, <2>2, <3>2 DEF Prompted
  <2>13. Cardinality(Systems(b)) = Cardinality(Systems(a))
    <3>. DEFINE f == [m \in Systems(a) |-> h[m]]
    <3>1. Systems(a) \subseteq DOMAIN a /\ IsFiniteSet(Systems(a))
      <4>1. IsFiniteSet(DOMAIN a)
        BY <1>3, FS_Interval
      <4>2. Systems(a) \in SUBSET DOMAIN a
        BY DEF Systems
      <4>. QED BY <4>1, <4>2, FS_Subset
    <3>2. \A m \in DOMAIN a : IsSystem(b[h[m]]) <=> IsSystem(a[m])
      BY <1>9, <2>1, <2>6, <2>10
    <3>3. f \in [Systems(a) -> Systems(b)]
      BY <2>7, <3>2 DEF Systems
    <3>4. \A m, n \in Systems(a) : f[m] = f[n] => m = n
      BY <2>8, <3>1
    <3>5. \A n \in Systems(b) : \E m \in Systems(a) : f[m] = n
      <4>. TAKE n \in Systems(b)
      <4>1. n \in DOMAIN b /\ IsSystem(b[n])
        BY DEF Systems
      <4>2. PICK m \in DOMAIN a : h[m] = n
        BY <2>9, <4>1
      <4>3. m \in Systems(a)
        BY <3>2, <4>1, <4>2 DEF Systems
      <4>. QED BY <4>2, <4>3
    <3>. HIDE DEF f
    <3>. QED BY <3>1, <3>3, <3>4, <3>5, SameNumber
  <2>14. PromptLeads(b, a)
    <3>1. Systems(a) # {}
      BY <1>3, <1>9 DEF Systems
    <3>. QED BY <2>1, <2>2, <2>12, <2>13, <3>1 DEF PromptLeads
  <2>. QED BY <1>6, <2>4, <2>5, <2>11, <2>14
<1>10. Same
  <2>. HIDE DEF Same
  <2>. QED BY <1>2, <1>8, <1>9 DEF Injected
<1>. QED BY <1>1, <1>2, <1>10 DEF Faithful
-----------------------------------------------------------------------------
(* The images are described *)

\* There is a first image if there is one.
LEMMA NextImageIn ==
  ASSUME NEW r, Messages(body[r].messages), ImagesIn(body[r].messages) # {}
  PROVE  NextImage(r) \in Places(body[r].messages, {"image"})
<1>. DEFINE a == body[r].messages
            S == Places(a, {"image"})
<1>1. \A p \in S : p = <<p[1], p[2]>> /\ p[1] \in Nat /\ p[2] \in Nat
  <2>. TAKE p \in S
  <2>1. p = <<p[1], p[2]>> /\ p[1] \in DOMAIN a /\ p[2] \in DOMAIN a[p[1]].content
    BY PlacesAre
  <2>2. DOMAIN a = 1..Len(a) /\ DOMAIN a[p[1]].content = 1..Len(a[p[1]].content)
    BY <2>1, SequenceType DEF Messages
  <2>. QED BY <2>1, <2>2
<1>2. S # {}
  BY DEF ImagesIn
<1>. HIDE DEF S
<1>. DEFINE M == {p[1] : p \in S}
<1>3. PICK m \in M : \A n \in M : m <= n
  <2>1. M \in SUBSET Nat /\ M # {}
    BY <1>1, <1>2
  <2>. HIDE DEF M
  <2>. QED BY <2>1, Smallest
<1>. DEFINE K == {p[2] : p \in {p \in S : p[1] = m}}
<1>4. PICK k \in K : \A l \in K : k <= l
  <2>1. K \in SUBSET Nat /\ K # {}
    BY <1>1, <1>3
  <2>. HIDE DEF K
  <2>. QED BY <2>1, Smallest
<1>5. PICK p \in S : p[1] = m /\ p[2] = k
  BY <1>4
<1>6. \A q \in S : p[1] < q[1] \/ (p[1] = q[1] /\ p[2] <= q[2])
  <2>. TAKE q \in S
  <2>1. m <= q[1] /\ (q[1] = m => k <= q[2])
    BY <1>3, <1>4
  <2>2. m \in Nat /\ q[1] \in Nat
    BY <1>1, <1>5
  <2>. QED BY <1>5, <2>1, <2>2
<1>7. \E x \in S : \A q \in S : x[1] < q[1] \/ (x[1] = q[1] /\ x[2] <= q[2])
  BY <1>6
<1>8. NextImage(r) = CHOOSE x \in S : \A q \in S : x[1] < q[1] \/ (x[1] = q[1] /\ x[2] <= q[2])
  BY DEF NextImage, S, ImagesIn
<1>9. NextImage(r) \in S
  BY <1>7, <1>8
<1>. QED BY <1>9 DEF S

\* If the items of some kinds stay in their messages, there are as many as before.
LEMMA PlacesStay ==
  ASSUME NEW a, Messages(a), NEW b, DOMAIN b = DOMAIN a, NEW kinds,
         \A m \in DOMAIN a : \E g : Moved(g, a[m].content, b[m].content, kinds)
  PROVE  Cardinality(Places(b, kinds)) = Cardinality(Places(a, kinds))
<1>. DEFINE h == [m \in DOMAIN a |-> m]
<1>1. \A m \in DOMAIN a : h[m] = m
  OBVIOUS
<1>. HIDE DEF h
<1>2. \A m \in DOMAIN a : h[m] \in DOMAIN b
  BY <1>1
<1>3. \A m, n \in DOMAIN a : h[m] = h[n] => m = n
  BY <1>1
<1>4. \A n \in DOMAIN b : \/ \E m \in DOMAIN a : h[m] = n
                          \/ \A k \in DOMAIN b[n].content : b[n].content[k].kind \notin kinds
  BY <1>1
<1>5. \A m \in DOMAIN a : \E g : Moved(g, a[m].content, b[h[m]].content, kinds)
  BY <1>1
<1>6. Carried(h, a, b, kinds)
  BY <1>2, <1>3, <1>4, <1>5 DEF Carried
<1>. QED BY <1>6, SamePlaces

\* What describing keeps of each message: its role, its texts, its items for images and the
\* prompt, which stays in front.
KeptIn(x, w) ==
  /\ w.role = x.role /\ TextsOf(w.content) = TextsOf(x.content)
  /\ \E g : Moved(g, x.content, w.content, Pictures)
  /\ \E g : Moved(g, x.content, w.content, {"prompt"})
  /\ 1 \in DOMAIN x.content /\ x.content[1].kind = "prompt" => w.content[1].kind = "prompt"

\* Messages of which that is kept are as faithful as before.
LEMMA StaysFaithful ==
  ASSUME NEW a, NEW then, Faithful(a, then), NEW b, Messages(b), DOMAIN b = DOMAIN a,
         \A m \in DOMAIN a : KeptIn(a[m], b[m])
  PROVE  Faithful(b, then)
<1>k. \A m \in DOMAIN a :
        /\ b[m].role = a[m].role /\ TextsOf(b[m].content) = TextsOf(a[m].content)
        /\ \E g : Moved(g, a[m].content, b[m].content, Pictures)
        /\ \E g : Moved(g, a[m].content, b[m].content, {"prompt"})
        /\ 1 \in DOMAIN a[m].content /\ a[m].content[1].kind = "prompt"
             => b[m].content[1].kind = "prompt"
  BY DEF KeptIn
<1>1. Messages(a) /\ IsSequence(a)
  BY DEF Faithful, Messages
<1>2. Said(b) = Said(a) /\ Systems(b) = Systems(a)
  BY <1>1, <1>k, OwnEqual
<1>3. Cardinality(Places(b, Pictures)) = Cardinality(Places(a, Pictures))
  BY <1>1, <1>k, PlacesStay
<1>4. Prompted(b) = Prompted(a)
  <2>1. ASSUME NEW m \in DOMAIN a
        PROVE  (\E k \in DOMAIN b[m].content : b[m].content[k].kind = "prompt")
                 <=> \E k \in DOMAIN a[m].content : a[m].content[k].kind = "prompt"
    <3>1. PICK g : Moved(g, a[m].content, b[m].content, {"prompt"})
      BY <1>k
    <3>. QED BY <3>1 DEF Moved
  <2>. QED BY <2>1 DEF Prompted
<1>5. ASSUME Prompted(b) # {}
      PROVE  /\ Prompted(b) = {1} /\ IsSystem(b[1]) /\ b[1].content[1].kind = "prompt"
             /\ Cardinality(Systems(b)) = (IF Systems(then) = {} THEN 1 ELSE Cardinality(Systems(then)))
  <2>1. /\ Prompted(a) = {1} /\ IsSystem(a[1]) /\ a[1].content[1].kind = "prompt"
        /\ Cardinality(Systems(a)) = (IF Systems(then) = {} THEN 1 ELSE Cardinality(Systems(then)))
    BY <1>4, <1>5 DEF Faithful, PromptLeads
  <2>2. 1 \in DOMAIN a /\ DOMAIN a[1].content # {}
    BY <2>1 DEF Prompted
  <2>3. 1 \in DOMAIN a[1].content
    <3>1. Len(a[1].content) \in Nat /\ DOMAIN a[1].content = 1..Len(a[1].content)
      BY <1>1, <2>2, SequenceType DEF Messages
    <3>. QED BY <2>2, <3>1
  <2>. QED BY <1>k, <1>2, <1>4, <2>1, <2>2, <2>3 DEF IsSystem
<1>. QED BY <1>2, <1>3, <1>5 DEF Faithful, PromptLeads

\* A list that has an item replaced.
LEMMA ItemReplaced ==
  ASSUME NEW c, IsSequence(c), NEW k \in DOMAIN c, NEW x, NEW d, d = [c EXCEPT ![k] = x]
  PROVE  IsSequence(d) /\ DOMAIN d = DOMAIN c /\ d[k] = x /\ \A l \in DOMAIN c : l # k => d[l] = c[l]
<1>1. Len(c) \in Nat /\ DOMAIN c = 1..Len(c)
  BY SequenceType
<1>2. DOMAIN d = DOMAIN c /\ d[k] = x /\ \A l \in DOMAIN c : l # k => d[l] = c[l]
  OBVIOUS
<1>. DEFINE A == {d[l] : l \in DOMAIN c}
<1>3. d \in [1..Len(c) -> A]
  <2>1. d = [l \in DOMAIN c |-> IF l = k THEN x ELSE c[l]]
    OBVIOUS
  <2>2. \A l \in DOMAIN c : d[l] \in A
    OBVIOUS
  <2>. HIDE DEF A
  <2>. QED BY <1>1, <2>1, <2>2
<1>. HIDE DEF A
<1>4. IsSequence(d)
  BY <1>1, <1>3, FunctionIsSequence
<1>. QED BY <1>2, <1>4

\* What describing an image does to a list of messages.
LEMMA ImageReplaced ==
  ASSUME NEW a, NEW then, Faithful(a, then), NEW p, p \in Places(a, {"image"}),
         NEW x, x.kind \in {"described", "unavailable"},
         NEW b, b = [a EXCEPT ![p[1]].content[p[2]] = x]
  PROVE  Faithful(b, then)
<1>1. /\ p[1] \in DOMAIN a /\ p[2] \in DOMAIN a[p[1]].content
      /\ a[p[1]].content[p[2]].kind = "image"
  BY PlacesAre
<1>2. Messages(a) /\ IsSequence(a)
  BY DEF Faithful, Messages
<1>. DEFINE n == p[1]
            c == a[n].content
            d == [c EXCEPT ![p[2]] = x]
            w == [a[n] EXCEPT !.content = d]
<1>3. b = [a EXCEPT ![n] = w]
  OBVIOUS
<1>4. IsSequence(c) /\ a[n] = Message(a[n].role, a[n].shape, c)
  BY <1>1, <1>2 DEF Messages
<1>5. /\ IsSequence(d) /\ DOMAIN d = DOMAIN c /\ d[p[2]] = x
      /\ \A l \in DOMAIN c : l # p[2] => d[l] = c[l]
  <2>. HIDE DEF c
  <2>. QED BY <1>1, <1>4, ItemReplaced DEF c
<1>. HIDE DEF d
<1>6. w.content = d /\ w.role = a[n].role /\ w = Message(w.role, w.shape, w.content)
  BY <1>4 DEF Message
<1>. HIDE DEF w
<1>7. /\ IsSequence(b) /\ DOMAIN b = DOMAIN a /\ b[n] = w /\ \A m \in DOMAIN a : m # n => b[m] = a[m]
  <2>1. n \in DOMAIN a
    BY <1>1
  <2>. HIDE DEF n
  <2>2. b = [a EXCEPT ![n] = w] /\ IsSequence(a)
    BY <1>2, <1>3
  <2>3. \A y, e : e = [a EXCEPT ![n] = y] =>
          /\ IsSequence(e) /\ DOMAIN e = DOMAIN a /\ e[n] = y
          /\ \A m \in DOMAIN a : m # n => e[m] = a[m]
    BY <1>2, <2>1, ItemReplaced
  <2>. QED BY <2>2, <2>3
<1>8. Messages(b)
  <2>1. ASSUME NEW m \in DOMAIN b
        PROVE  b[m] = Message(b[m].role, b[m].shape, b[m].content) /\ IsSequence(b[m].content)
    <3>1. CASE m = n
      BY <1>5, <1>6, <1>7, <3>1
    <3>2. CASE m # n
      BY <1>2, <1>7, <3>2 DEF Messages
    <3>. QED BY <3>1, <3>2
  <2>. QED BY <1>7, <2>1 DEF Messages
<1>9. /\ TextsOf(d) = TextsOf(c)
      /\ \E g : Moved(g, c, d, Pictures)
      /\ \E g : Moved(g, c, d, {"prompt"})
      /\ 1 \in DOMAIN c /\ c[1].kind = "prompt" => d[1].kind = "prompt"
  <2>. DEFINE k == p[2]
  <2>0. k \in DOMAIN c /\ c[k].kind = "image"
    BY <1>1
  <2>. HIDE DEF c, k
  <2>1. k \in DOMAIN c /\ c[k].kind = "image" /\ d[k] = x /\ DOMAIN d = DOMAIN c
        /\ \A l \in DOMAIN c : l # k => d[l] = c[l]
    BY <1>5, <2>0 DEF k
  <2>2. TextsOf(d) = TextsOf(c)
    BY <1>4, <1>5, <2>1, TextsReplaced DEF c
  <2>. DEFINE g == [l \in DOMAIN c |-> l]
  <2>3. \A l \in DOMAIN c : g[l] = l
    OBVIOUS
  <2>. HIDE DEF g
  <2>4. \A l \in DOMAIN c : /\ c[l].kind \in Pictures <=> d[l].kind \in Pictures
                            /\ c[l].kind \in {"prompt"} <=> d[l].kind \in {"prompt"}
    BY <2>1 DEF Pictures
  <2>5. Moved(g, c, d, Pictures) /\ Moved(g, c, d, {"prompt"})
    BY <2>1, <2>3, <2>4 DEF Moved
  <2>6. 1 \in DOMAIN c /\ c[1].kind = "prompt" => d[1].kind = "prompt"
    BY <2>4
  <2>. QED BY <2>2, <2>5, <2>6
<1>10. ASSUME NEW m \in DOMAIN a PROVE KeptIn(a[m], b[m])
  <2>1. CASE m = n
    BY <1>6, <1>7, <1>9, <2>1 DEF KeptIn
  <2>2. CASE m # n
    BY <1>7, <2>2, Unmoved DEF KeptIn
  <2>. QED BY <2>1, <2>2
<1>. HIDE DEF n, c
<1>. QED BY <1>7, <1>8, <1>10, StaysFaithful

\* What flattening a message does to its content: the rest keeps its order, whatever is dropped.
LEMMA ContentFlattened ==
  ASSUME NEW m, m = Message(m.role, m.shape, m.content), IsSequence(m.content),
         NEW w, w = Flattened(m)
  PROVE  /\ w.role = m.role /\ w = Message(w.role, w.shape, w.content) /\ w.shape # "parts"
         /\ IsSequence(w.content) /\ TextsOf(w.content) = TextsOf(m.content)
         /\ \A kinds : "other" \notin kinds => \E g : Moved(g, m.content, w.content, kinds)
         /\ 1 \in DOMAIN m.content /\ m.content[1].kind = "prompt" => w.content[1].kind = "prompt"
<1>1. CASE m.shape # "parts"
  BY <1>1, Unmoved DEF Flattened
<1>2. CASE m.shape = "parts"
  <2>. DEFINE c == m.content
              K == {k \in DOMAIN c : c[k].kind # "other"}
              u == Only(c, K)
  <2>1. w = Message(m.role, "text", u)
    BY <1>2 DEF Flattened
  <2>2. IsSequence(u) /\ TextsOf(u) = TextsOf(c)
    BY TextsFlattened
  <2>3. PICK A : c \in Seq(A)
    BY DEF IsSequence
  <2>4. PICK f : Taking(f, c, K) /\ \A n \in 0..Len(c) : f[n] \in Seq(A)
    BY <2>3, OnlyTakes
  <2>5. DOMAIN c = 1..Len(c) /\ Len(c) \in Nat /\ DOMAIN u = 1..Len(u) /\ Len(u) \in Nat
    BY <2>2, SequenceType
  <2>6. \A k \in K : k \in DOMAIN c /\ c[k].kind # "other"
    OBVIOUS
  <2>k. \A k \in DOMAIN c : c[k].kind # "other" => k \in K
    OBVIOUS
  <2>. HIDE DEF K, c
  <2>7. /\ \A k \in 1..Len(c) : k \in K =>
              Len(f[k]) \in 1..Len(Only(c, K)) /\ Only(c, K)[Len(f[k])] = c[k]
        /\ \A k, l \in 1..Len(c) : k \in K /\ l \in K /\ k < l => Len(f[k]) < Len(f[l])
        /\ \A j \in 1..Len(Only(c, K)) : \E k \in 1..Len(c) : k \in K /\ Len(f[k]) = j
    BY <2>3, <2>4, TakenPlaces
  <2>. DEFINE g == [k \in DOMAIN c |-> Len(f[k])]
  <2>8. \A k \in DOMAIN c : g[k] = Len(f[k])
    OBVIOUS
  <2>9. /\ \A k \in K : k \in DOMAIN c /\ g[k] \in DOMAIN u /\ u[g[k]] = c[k]
        /\ \A k, l \in K : k < l => g[k] < g[l]
        /\ \A j \in DOMAIN u : \E k \in K : g[k] = j
    <3>. HIDE DEF g
    <3>1. \A k \in K : k \in DOMAIN c /\ g[k] \in DOMAIN u /\ u[g[k]] = c[k]
      BY <2>5, <2>6, <2>7, <2>8
    <3>2. \A k, l \in K : k < l => g[k] < g[l]
      BY <2>5, <2>6, <2>7, <2>8
    <3>3. \A j \in DOMAIN u : \E k \in K : g[k] = j
      BY <2>5, <2>6, <2>7, <2>8
    <3>. QED BY <3>1, <3>2, <3>3
  <2>. HIDE DEF g, u
  <2>10. \A k, l \in K : g[k] = g[l] => k = l
    <3>1. \A k \in K : k \in Nat /\ g[k] \in Nat
      BY <2>5, <2>9
    <3>. QED BY <2>9, <3>1
  <2>11. ASSUME NEW kinds, "other" \notin kinds PROVE Moved(g, c, u, kinds)
    <3>1. \A k \in DOMAIN c : c[k].kind \in kinds => k \in K
      BY <2>11, <2>k
    <3>2. \A k \in DOMAIN c : c[k].kind \in kinds => g[k] \in DOMAIN u /\ u[g[k]].kind \in kinds
      BY <2>9, <3>1
    <3>3. \A k, l \in DOMAIN c : c[k].kind \in kinds /\ c[l].kind \in kinds /\ g[k] = g[l] => k = l
      BY <2>10, <3>1
    <3>4. \A j \in DOMAIN u : u[j].kind \in kinds => \E k \in DOMAIN c : c[k].kind \in kinds /\ g[k] = j
      BY <2>9
    <3>. QED BY <3>2, <3>3, <3>4 DEF Moved
  <2>12. ASSUME 1 \in DOMAIN c, c[1].kind = "prompt" PROVE u[1].kind = "prompt"
    <3>1. 1 \in K
      BY <2>12, <2>k
    <3>2. 1 \in 1..Len(c) /\ 1 - 1 = 0
      BY <2>5, <2>12
    <3>3. f[1] = Append(f[0], c[1]) /\ f[0] = <<>>
      BY <2>4, <3>1, <3>2 DEF Taking
    <3>4. Len(f[1]) = 1
      BY <3>3
    <3>5. g[1] = 1
      BY <2>8, <2>12, <3>4
    <3>. QED BY <2>9, <2>12, <3>1, <3>5
  <2>13. w.role = m.role /\ w.shape = "text" /\ w.content = u /\ w = Message(w.role, w.shape, w.content)
    BY <2>1 DEF Message
  <2>14. /\ IsSequence(w.content) /\ TextsOf(w.content) = TextsOf(m.content)
    BY <2>2, <2>13 DEF u, c
  <2>15. \A kinds : "other" \notin kinds => \E x : Moved(x, m.content, w.content, kinds)
    BY <2>11, <2>13 DEF c
  <2>16. 1 \in DOMAIN m.content /\ m.content[1].kind = "prompt" => w.content[1].kind = "prompt"
    BY <2>12, <2>13 DEF c
  <2>. QED BY <2>13, <2>14, <2>15, <2>16
<1>. QED BY <1>1, <1>2

\* What flattening does to a list of messages from which the images have gone.
LEMMA AllFlattened ==
  ASSUME NEW a, NEW then, Faithful(a, then), ImagesIn(a) = {},
         NEW b, b = [m \in DOMAIN a |-> Flattened(a[m])]
  PROVE  /\ Faithful(b, then) /\ Places(b, {"image"}) = {}
         /\ \A m \in DOMAIN b : b[m].shape # "parts"
<1>1. Messages(a) /\ Len(a) \in Nat /\ DOMAIN a = 1..Len(a)
  BY SequenceType DEF Faithful, Messages
<1>2. DOMAIN b = DOMAIN a /\ \A m \in DOMAIN a : b[m] = Flattened(a[m])
  OBVIOUS
<1>3. ASSUME NEW m \in DOMAIN a
      PROVE  /\ b[m].role = a[m].role /\ b[m] = Message(b[m].role, b[m].shape, b[m].content)
             /\ b[m].shape # "parts"
             /\ IsSequence(b[m].content) /\ TextsOf(b[m].content) = TextsOf(a[m].content)
             /\ \A kinds : "other" \notin kinds => \E g : Moved(g, a[m].content, b[m].content, kinds)
             /\ 1 \in DOMAIN a[m].content /\ a[m].content[1].kind = "prompt"
                  => b[m].content[1].kind = "prompt"
  <2>1. a[m] = Message(a[m].role, a[m].shape, a[m].content) /\ IsSequence(a[m].content)
    BY <1>1 DEF Messages
  <2>. QED BY <1>2, <2>1, ContentFlattened
<1>4. Messages(b)
  <2>. DEFINE A == {b[m] : m \in DOMAIN a}
  <2>1. b \in [1..Len(a) -> A]
    BY <1>1, <1>2
  <2>. HIDE DEF A
  <2>2. IsSequence(b)
    BY <1>1, <2>1, FunctionIsSequence
  <2>. QED BY <1>2, <1>3, <2>2 DEF Messages
<1>5. ASSUME NEW m \in DOMAIN a PROVE KeptIn(a[m], b[m])
  <2>1. "other" \notin Pictures /\ "other" \notin {"prompt"}
    BY DEF Pictures
  <2>. QED BY <1>3, <2>1 DEF KeptIn
<1>6. Faithful(b, then)
  <2>1. DOMAIN b = DOMAIN a
    BY <1>2
  <2>. QED BY <1>4, <1>5, <2>1, StaysFaithful
<1>7. Places(b, {"image"}) = {}
  <2>. SUFFICES ASSUME NEW q, q \in Places(b, {"image"}) PROVE FALSE
    OBVIOUS
  <2>1. /\ q[1] \in DOMAIN b /\ q[2] \in DOMAIN b[q[1]].content
        /\ b[q[1]].content[q[2]].kind \in {"image"}
    BY PlacesAre
  <2>2. PICK g : Moved(g, a[q[1]].content, b[q[1]].content, {"image"})
    BY <1>2, <1>3, <2>1
  <2>3. PICK k \in DOMAIN a[q[1]].content : a[q[1]].content[k].kind \in {"image"}
    BY <2>1, <2>2 DEF Moved
  <2>4. <<q[1], k>> \in Places(a, {"image"})
    BY <1>2, <2>1, <2>3, PlacesAre
  <2>. QED BY <2>4 DEF ImagesIn
<1>. QED BY <1>2, <1>3, <1>6, <1>7
-----------------------------------------------------------------------------
(* The handler *)

InPreparation == {"prompted", "describing", "described", "labelled", "sampled", "cycle"}
Afterwards == {"described", "labelled", "sampled", "cycle"}

\* What is said of a request: as its client sent it at first, from then on faithful, after the
\* images have been described without any, and a call of the VLM is about an image.
Heard(r) ==
  /\ phase[r] = "parsed" =>
       body[r].messages = original[r].messages /\ ClientMessages(original[r].messages)
  /\ phase[r] \in InPreparation => Faithful(body[r].messages, original[r].messages)
  /\ phase[r] \in Afterwards /\ seesImages[r] =>
       /\ Places(body[r].messages, {"image"}) = {}
       /\ \A m \in DOMAIN body[r].messages : body[r].messages[m].shape # "parts"
  /\ ~NoCallOn(r) => Describing(r)

HearingInv ==
  /\ DOMAIN seesImages = Requests /\ DOMAIN call = Requests
  /\ \A r \in Requests : Heard(r)

\* No request has been read at first.
LEMMA HearingInit == Init => HearingInv
BY DEF Init, HearingInv, Heard, InPreparation, Afterwards, NoCallOn

\* The step of a request keeps what is said of the others.
LEMMA HearingFrame ==
  ASSUME HearingInv, NEW r \in Requests, OthersAlone(r),
         DOMAIN seesImages' = Requests, DOMAIN call' = Requests,
         \A q \in Requests \ {r} : seesImages'[q] = seesImages[q] /\ call'[q] = call[q],
         Heard(r)'
  PROVE  HearingInv'
<1>1. ASSUME NEW q \in Requests, q # r PROVE Heard(q)'
  <2>1. /\ phase'[q] = phase[q] /\ body'[q] = body[q] /\ original'[q] = original[q]
        /\ seesImages'[q] = seesImages[q] /\ call'[q] = call[q]
    BY <1>1 DEF OthersAlone
  <2>2. Heard(q)
    BY DEF HearingInv
  <2>. QED BY <2>1, <2>2 DEF Heard, NoCallOn, Describing
<1>. QED BY <1>1 DEF HearingInv

\* The messages of a body are one of its fields.
LEMMA MessagesSet ==
  ASSUME NEW b, Fields \subseteq DOMAIN b, NEW x, NEW c
  PROVE  /\ c = [b EXCEPT !.messages = x] => c.messages = x
         /\ c = [b EXCEPT !.tools = x] \/ c = [b EXCEPT !.model = x] \/ c = [b EXCEPT !.preset = x] =>
              c.messages = b.messages
BY DEF Fields

\* A call of the VLM is made while the images are described: it is about the next of them.
LEMMA CallIsOnImage ==
  ASSUME HearingInv, NEW r \in Requests, ~NoCallOn(r) \/ Describing(r)
  PROVE  /\ phase[r] = "describing" /\ Faithful(body[r].messages, original[r].messages)
         /\ NextImage(r) \in Places(body[r].messages, {"image"})
<1>1. Heard(r)
  BY DEF HearingInv
<1>2. phase[r] = "describing" /\ ImagesIn(body[r].messages) # {}
  BY <1>1 DEF Heard, Describing
<1>3. Faithful(body[r].messages, original[r].messages)
  BY <1>1, <1>2 DEF Heard, InPreparation
<1>4. Messages(body[r].messages)
  BY <1>3 DEF Faithful
<1>. QED BY <1>2, <1>3, <1>4, NextImageIn

\* An image is replaced by what has been made of it.
LEMMA ReplacingIsFaithful ==
  ASSUME Shapes, HearingInv, NEW r \in Requests, ~NoCallOn(r) \/ Describing(r),
         NEW x, x.kind \in {"described", "unavailable"}, Replaced(r, x)
  PROVE  Faithful(body'[r].messages, original[r].messages)
<1>1. /\ Faithful(body[r].messages, original[r].messages)
      /\ NextImage(r) \in Places(body[r].messages, {"image"})
  BY CallIsOnImage
<1>. DEFINE p == NextImage(r)
            y == [body[r].messages EXCEPT ![p[1]].content[p[2]] = x]
<1>2. body' = [body EXCEPT ![r].messages[p[1]].content[p[2]] = x]
  BY DEF Replaced
<1>3. body' = [body EXCEPT ![r] = [@ EXCEPT !.messages = y]]
  <2>. HIDE DEF p
  <2>. QED BY <1>2
<1>4. Faithful(y, original[r].messages)
  <2>. HIDE DEF p
  <2>. QED BY <1>1, ImageReplaced DEF p
<1>. HIDE DEF y
<1>5. body'[r] = [body[r] EXCEPT !.messages = y]
  BY <1>3 DEF Shapes
<1>6. body'[r].messages = y
  BY <1>5, MessagesSet DEF Shapes
<1>. QED BY <1>4, <1>6

\* What replaces an image.
LEMMA Replacements ==
  /\ Unavailable.kind \in {"described", "unavailable"}
  /\ \A url, d : Described(url, d).kind \in {"described", "unavailable"}
BY DEF Unavailable, Described

\* Every step keeps the client heard.
LEMMA HearingStep ==
  Shapes /\ HearingInv /\ [Next]_vars => HearingInv'
<1>. SUFFICES ASSUME Shapes, HearingInv, [Next]_vars PROVE HearingInv'
  OBVIOUS
<1>0. DOMAIN seesImages = Requests /\ DOMAIN call = Requests /\ \A r \in Requests : Heard(r)
  BY DEF HearingInv
<1>1. ASSUME NEW r \in Requests, Arrives(r) PROVE HearingInv'
  <2>1. UNCHANGED <<seesImages, bypass, bucket, retries, call>>
    BY <1>1 DEF Arrives, describing
  <2>0. phase[r] = "new" /\ NoCallOn(r)
    BY <1>0, <1>1 DEF Arrives, Heard, Describing
  <2>2. CASE UNCHANGED <<body, original>> /\ \E to \in {"failed", "raw"} : phase' = [phase EXCEPT ![r] = to]
    <3>1. OthersAlone(r) /\ phase'[r] \in {"failed", "raw"}
      BY <2>1, <2>2 DEF Shapes, OthersAlone
    <3>2. Heard(r)'
      BY <2>0, <2>1, <3>1 DEF Heard, NoCallOn, InPreparation, Afterwards
    <3>. QED BY <1>0, <2>1, <3>1, <3>2, HearingFrame
  <2>3. ASSUME NEW b \in Inputs, phase' = [phase EXCEPT ![r] = "parsed"],
               original' = [original EXCEPT ![r] = b],
               body' = [body EXCEPT ![r] = [b EXCEPT !.tools = SanitizeToolSchemas(@)]]
        PROVE  HearingInv'
    <3>. DEFINE tools == SanitizeToolSchemas(b.tools)
    <3>1. /\ phase'[r] = "parsed" /\ original'[r] = b /\ body'[r] = [b EXCEPT !.tools = tools]
          /\ OthersAlone(r)
      BY <2>1, <2>3 DEF Shapes, OthersAlone
    <3>2. Fields \subseteq DOMAIN b /\ ClientMessages(b.messages)
      BY PreparationAssumption DEF Fields
    <3>. HIDE DEF tools
    <3>3. body'[r].messages = b.messages
      BY <3>1, <3>2, MessagesSet
    <3>4. Heard(r)'
      BY <2>0, <2>1, <3>1, <3>2, <3>3 DEF Heard, NoCallOn, InPreparation, Afterwards
    <3>. QED BY <1>0, <2>1, <3>1, <3>4, HearingFrame
  <2>. QED BY <1>1, <2>2, <2>3 DEF Arrives
<1>2. ASSUME NEW r \in Requests, ReadsSystemPrompt(r) PROVE HearingInv'
  <2>1. /\ phase[r] = "parsed" /\ phase'[r] = "prompted" /\ OthersAlone(r)
        /\ UNCHANGED <<original, seesImages, call>>
    BY <1>2 DEF ReadsSystemPrompt, Shapes, OthersAlone, describing
  <2>2. NoCallOn(r) /\ body[r].messages = original[r].messages /\ ClientMessages(original[r].messages)
    BY <1>0, <2>1 DEF Heard, Describing
  <2>. DEFINE y == InjectSystemPrompt(body[r].messages, live.prompt)
  <2>3. \/ body'[r] = body[r]
        \/ body'[r] = [body[r] EXCEPT !.messages = y]
    BY <1>2 DEF ReadsSystemPrompt, Shapes
  <2>4. Faithful(body[r].messages, original[r].messages)
    BY <2>2, FaithfulAtFirst
  <2>5. Faithful(y, original[r].messages)
    <3>1. CASE live.prompt \in Prompts
      BY <2>2, <3>1, InjectedIsFaithful
    <3>2. CASE live.prompt \notin Prompts
      BY <2>4, <3>2 DEF InjectSystemPrompt
    <3>. QED BY <3>1, <3>2
  <2>. HIDE DEF y
  <2>6. body'[r].messages = body[r].messages \/ body'[r].messages = y
    BY <2>3, MessagesSet DEF Shapes
  <2>7. Heard(r)'
    BY <2>1, <2>2, <2>4, <2>5, <2>6 DEF Heard, NoCallOn, InPreparation, Afterwards
  <2>. QED BY <1>0, <2>1, <2>7, HearingFrame
<1>3. ASSUME NEW r \in Requests, ReadsVision(r) PROVE HearingInv'
  <2>1. /\ phase[r] = "prompted" /\ phase'[r] = (IF seesImages'[r] THEN "describing" ELSE "described")
        /\ UNCHANGED <<body, original, call>> /\ OthersAlone(r) /\ DOMAIN seesImages' = Requests
        /\ \A q \in Requests \ {r} : seesImages'[q] = seesImages[q]
    BY <1>0, <1>3 DEF ReadsVision, Shapes, OthersAlone, describing
  <2>2. NoCallOn(r) /\ Faithful(body[r].messages, original[r].messages)
    BY <1>0, <2>1 DEF Heard, Describing, InPreparation
  <2>3. Heard(r)'
    BY <2>1, <2>2 DEF Heard, NoCallOn, InPreparation, Afterwards
  <2>. QED BY <1>0, <2>1, <2>3, HearingFrame
<1>4. ASSUME NEW r \in Requests, AllDescribed(r) PROVE HearingInv'
  <2>. DEFINE y == [m \in DOMAIN body[r].messages |-> Flattened(body[r].messages[m])]
  <2>1. /\ phase[r] = "describing" /\ ~Describing(r) /\ phase'[r] = "described" /\ OthersAlone(r)
        /\ UNCHANGED <<original, seesImages, call>> /\ body'[r] = [body[r] EXCEPT !.messages = y]
    BY <1>4 DEF AllDescribed, Shapes, OthersAlone, describing
  <2>2. NoCallOn(r) /\ Faithful(body[r].messages, original[r].messages)
    BY <1>0, <2>1 DEF Heard, InPreparation
  <2>3. ImagesIn(body[r].messages) = {}
    BY <2>1 DEF Describing
  <2>4. /\ Faithful(y, original[r].messages) /\ Places(y, {"image"}) = {}
        /\ \A m \in DOMAIN y : y[m].shape # "parts"
    BY <2>2, <2>3, AllFlattened
  <2>. HIDE DEF y
  <2>5. body'[r].messages = y
    BY <2>1, MessagesSet DEF Shapes
  <2>6. Heard(r)'
    BY <2>1, <2>2, <2>4, <2>5 DEF Heard, NoCallOn, InPreparation, Afterwards
  <2>. QED BY <1>0, <2>1, <2>6, HearingFrame
<1>5. ASSUME NEW r \in Requests, FindsDescription(r) \/ VisionEnds(r) \/ VisionFails(r)
      PROVE  HearingInv'
  <2>1. /\ UNCHANGED <<phase, original, seesImages, bypass, bucket, retries>>
        /\ ~NoCallOn(r) \/ Describing(r)
        /\ \/ call' = call /\ NoCallOn(r)
           \/ call' = [call EXCEPT ![r] = NoCall]
    BY <1>5 DEF FindsDescription, VisionEnds, VisionFails, Hangup, describing
  <2>2. \E x : x.kind \in {"described", "unavailable"} /\ Replaced(r, x)
    BY <1>5, Replacements DEF FindsDescription, VisionEnds, VisionFails
  <2>3. phase[r] = "describing" /\ phase'[r] = "describing"
    BY <2>1, CallIsOnImage
  <2>4. Faithful(body'[r].messages, original[r].messages)
    BY <2>1, <2>2, ReplacingIsFaithful
  <2>5. \A q \in Requests \ {r} : body'[q] = body[q]
    BY <2>2 DEF Replaced, Shapes
  <2>6. OthersAlone(r)
    BY <2>1, <2>5 DEF OthersAlone
  <2>7. NoCallOn(r)' /\ DOMAIN call' = Requests /\ \A q \in Requests \ {r} : call'[q] = call[q]
    BY <1>0, <2>1 DEF NoCallOn
  <2>8. Heard(r)'
    BY <2>1, <2>3, <2>4, <2>7 DEF Heard, InPreparation, Afterwards
  <2>. QED BY <1>0, <2>1, <2>6, <2>7, <2>8, HearingFrame
<1>6. ASSUME NEW r \in Requests, CallsVision(r) \/ VisionStreams(r) PROVE HearingInv'
  <2>1. /\ UNCHANGED <<phase, body, original, seesImages, bypass, bucket, retries>>
        /\ Describing(r) \/ ~NoCallOn(r)
        /\ \E x : call' = [call EXCEPT ![r] = x]
    BY <1>6 DEF CallsVision, VisionStreams, handlers
  <2>2. Describing(r) /\ Describing(r)'
    BY <1>0, <2>1 DEF Heard, Describing
  <2>3. OthersAlone(r) /\ DOMAIN call' = Requests /\ \A q \in Requests \ {r} : call'[q] = call[q]
    BY <1>0, <2>1 DEF OthersAlone
  <2>4. Heard(r)'
    BY <1>0, <2>1, <2>2 DEF Heard
  <2>. QED BY <1>0, <2>1, <2>3, <2>4, HearingFrame
<1>7. ASSUME NEW r \in Requests, ReadsBypass(r) \/ ReadsForcedBucket(r) \/ ReadsModel(r)
      PROVE  HearingInv'
  <2>1. /\ phase[r] \in {"described", "labelled", "sampled"}
        /\ phase'[r] \in {"labelled", "sampled", "cycle"}
        /\ UNCHANGED <<original, seesImages, call>> /\ OthersAlone(r)
    BY <1>7 DEF ReadsBypass, ReadsForcedBucket, ReadsModel, Shapes, OthersAlone, describing
  <2>2. Fields \subseteq DOMAIN body[r]
    BY DEF Shapes
  <2>3. body'[r].messages = body[r].messages
    <3>1. CASE ReadsBypass(r)
      BY <3>1 DEF ReadsBypass
    <3>2. CASE ReadsForcedBucket(r)
      <4>1. \/ body'[r] = body[r]
            \/ \E b : body'[r] = ApplyPreset(body[r], b)
        BY <3>2 DEF ReadsForcedBucket, Shapes
      <4>2. ASSUME NEW b PROVE ApplyPreset(body[r], b).messages = body[r].messages
        BY <2>2, MessagesSet DEF ApplyPreset
      <4>. QED BY <4>1, <4>2
    <3>3. CASE ReadsModel(r)
      <4>1. \E x : body'[r] = [body[r] EXCEPT !.model = x]
        BY <3>3 DEF ReadsModel, Shapes
      <4>. QED BY <2>2, <4>1, MessagesSet
    <3>. QED BY <1>7, <3>1, <3>2, <3>3
  <2>4. NoCallOn(r) /\ Heard(r)
    BY <1>0, <2>1 DEF Heard, Describing
  <2>5. Heard(r)'
    BY <2>1, <2>3, <2>4 DEF Heard, NoCallOn, InPreparation, Afterwards
  <2>. QED BY <1>0, <2>1, <2>5, HearingFrame
<1>8. CASE UNCHANGED <<phase, body, original, seesImages, call>>
  BY <1>0, <1>8 DEF HearingInv, Heard, NoCallOn, Describing
<1>. QED BY <1>1, <1>2, <1>3, <1>4, <1>5, <1>6, <1>7, <1>8
      DEF Next, Prepares, PanelSets, Terminated, vars, handlers, describing

\* The client's words reach the model in the client's order, whatever is injected, moved and
\* described while the panel changes its switches, and a system prompt stands first and adds
\* no second system message.
THEOREM ClientIsAlwaysHeard == Spec => []ClientIsHeard
<1>1. HearingInv => ClientIsHeard
  BY DEF HearingInv, Heard, InPreparation, ClientIsHeard, Faithful, PromptLeads
<1>. QED BY <1>1, HearingInit, HearingStep, TuningInit, TuningStep, PTL DEF Spec

\* A request that found vision-describe on reaches the model as text only, with one text for
\* each image of the client, however its describe calls end.
THEOREM OnlyTextIsSent == Spec => []OnlyTextReaches
<1>1. ASSUME HearingInv, NEW r \in Requests, seesImages[r], phase[r] = "cycle"
      PROVE  /\ \A m \in DOMAIN body[r].messages : body[r].messages[m].shape # "parts"
             /\ Cardinality(Places(body[r].messages, {"described", "unavailable"}))
                  = Cardinality(Places(original[r].messages, {"image"}))
  <2>. DEFINE a == body[r].messages
  <2>1. /\ Places(a, {"image"}) = {} /\ \A m \in DOMAIN a : a[m].shape # "parts"
        /\ Cardinality(Places(a, Pictures)) = Cardinality(Places(original[r].messages, {"image"}))
    BY <1>1 DEF HearingInv, Heard, InPreparation, Afterwards, Faithful
  <2>2. ASSUME NEW p, p \in Places(a, Pictures) PROVE p \in Places(a, {"described", "unavailable"})
    <3>1. /\ p = <<p[1], p[2]>> /\ p[1] \in DOMAIN a /\ p[2] \in DOMAIN a[p[1]].content
          /\ a[p[1]].content[p[2]].kind \in Pictures
      BY <2>2, PlacesAre
    <3>2. a[p[1]].content[p[2]].kind \notin {"image"}
      BY <2>1, <3>1, PlacesAre
    <3>. DEFINE texts == {"described", "unavailable"}
    <3>i. a[p[1]].content[p[2]].kind \in texts
      BY <3>1, <3>2 DEF Pictures
    <3>. HIDE DEF texts
    <3>3. <<p[1], p[2]>> \in Places(a, texts)
      BY <3>1, <3>i, PlacesAre
    <3>. QED BY <3>1, <3>3 DEF texts
  <2>3. ASSUME NEW p, p \in Places(a, {"described", "unavailable"}) PROVE p \in Places(a, Pictures)
    <3>1. /\ p = <<p[1], p[2]>> /\ p[1] \in DOMAIN a /\ p[2] \in DOMAIN a[p[1]].content
          /\ a[p[1]].content[p[2]].kind \in {"described", "unavailable"}
      BY <2>3, PlacesAre
    <3>2. <<p[1], p[2]>> \in Places(a, Pictures)
      BY <3>1, PlacesAre DEF Pictures
    <3>. QED BY <3>1, <3>2
  <2>4. Places(a, {"described", "unavailable"}) = Places(a, Pictures)
    BY <2>2, <2>3
  <2>. QED BY <2>1, <2>4
<1>2. HearingInv => OnlyTextReaches
  BY <1>1 DEF OnlyTextReaches
<1>. QED BY <1>2, HearingInit, HearingStep, TuningInit, TuningStep, PTL DEF Spec
=============================================================================
