------------------------ MODULE MCClassifiedRequest ------------------------
(***************************************************************************)
(* A small instance of ClassifiedRequest: streaming and plain clients of   *)
(* both endpoints, with just enough generations for a retry, a probe, a    *)
(* confirmation and a flaw that outlives the retries.                      *)
(***************************************************************************)
EXTENDS ClassifiedRequest

Fine == [blank |-> FALSE, tools |-> FALSE, repeats |-> FALSE, unbalanced |-> FALSE,
         badJSON |-> FALSE, affirms |-> FALSE, finish |-> "stop", tokens |-> 3]

MCGenerations == {
  Fine,
  [Fine EXCEPT !.tools = TRUE, !.finish = "tool_calls"],
  [Fine EXCEPT !.affirms = TRUE],
  [Fine EXCEPT !.blank = TRUE, !.finish = ""],                  \* empty, no finish_reason
  [Fine EXCEPT !.unbalanced = TRUE, !.finish = "length"] }

Chat == [kind |-> "chat", stream |-> TRUE, bypass |-> FALSE, matched |-> TRUE,
         messages |-> TRUE]
Native == [Chat EXCEPT !.kind = "completion", !.messages = FALSE]
MCRequests == {Chat, [Chat EXCEPT !.stream = FALSE],
               Native, [Native EXCEPT !.stream = FALSE]}
=============================================================================
