--------------------------- MODULE MCRequestCycle ---------------------------
(***************************************************************************)
(* A small instance of RequestCycle: the generations below are one of each *)
(* verdict of DetectIssue and each outcome of the alert-continuation test. *)
(***************************************************************************)
EXTENDS RequestCycle

Fine == [blank |-> FALSE, tools |-> FALSE, repeats |-> FALSE, unbalanced |-> FALSE,
         badJSON |-> FALSE, affirms |-> FALSE, finish |-> "stop", tokens |-> 3]

MCGenerations == {
  Fine,
  [Fine EXCEPT !.tools = TRUE, !.repeats = TRUE, !.tokens = 4],  \* tools, yet "stop";
                                                               \* legitimate repeats
  [Fine EXCEPT !.tools = TRUE, !.blank = TRUE, !.finish = "tool_calls"],
  [Fine EXCEPT !.affirms = TRUE, !.tokens = 1],                \* "yes, done"
  [Fine EXCEPT !.finish = "", !.tokens = 2],                   \* no finish_reason
  [Fine EXCEPT !.blank = TRUE, !.tokens = 0],                  \* empty
  [Fine EXCEPT !.badJSON = TRUE],
  [Fine EXCEPT !.repeats = TRUE, !.finish = "length", !.tokens = 9],
  [Fine EXCEPT !.unbalanced = TRUE, !.finish = "length"],
  [Fine EXCEPT !.blank = TRUE, !.finish = Sentinel] }

\* Two chat requests and a native one; bypass on and off.
Chat == [kind |-> "chat", stream |-> TRUE, bypass |-> FALSE, matched |-> TRUE,
         messages |-> TRUE]
MCRequests == {
  Chat,
  [Chat EXCEPT !.bypass = TRUE],
  [Chat EXCEPT !.matched = FALSE],
  [Chat EXCEPT !.messages = FALSE],
  [Chat EXCEPT !.kind = "completion", !.messages = FALSE] }
=============================================================================
