------------------------ MODULE MCRequestPreparation ------------------------
(***************************************************************************)
(* Two requests that may carry the same image, and one change of a switch  *)
(* of the panel while they are prepared.  The bodies: a conversation whose *)
(* system message comes late and is an array, with a message that has no   *)
(* content; the same image twice and one without an address, and no system *)
(* message; and a native prompt.                                           *)
(***************************************************************************)
EXTENDS RequestPreparation

MCBody(form, messages, set) ==
  [form |-> form, messages |-> messages, set |-> set, preset |-> "", model |-> "client",
   tools |-> {[keyword |-> "pattern", under |-> {"properties", "items"}],
              [keyword |-> "pattern", under |-> {"not"}]}]

Shot == "shot"
Conversation ==
  <<Message("user", "parts", <<Text("fix"), Image(Shot), [kind |-> "other", of |-> "audio"]>>),
    Message("system", "parts", <<Text("rules")>>),
    Message("assistant", "none", <<>>), Message("system", "none", <<>>),
    Message("user", "text", <<Text("design")>>)>>
Album == <<Message("user", "parts", <<Image(Shot), Image(NoURL), Image(Shot)>>)>>
MCInputs ==
  {MCBody("messages", Conversation, {}), MCBody("messages", Album, {"temperature"}),
   MCBody("prompt", <<Message("user", "text", <<Text("fix")>>)>>, {"temperature", "top_p"})}

MCSettings(prompt, vision) ==
  [prompt |-> prompt, vision |-> vision, bypass |-> FALSE, forced |-> "", model |-> ""]
MCRestored == {MCSettings("", FALSE), MCSettings("terse", TRUE)}

MCRequests == {"one", "two"}
MCImages == {Shot}
MCStrip == {"pattern"}
MCPrompts == {"terse"}
MCBuckets == {"architecture", "general"}
MCPriority == <<"architecture", "general">>
MCKeywords(item) ==
  CASE item.kind = "text" /\ item.of = "fix" -> {"coding"}
    [] item.kind = "text" /\ item.of = "design" -> {"architecture"}
    [] item.kind = "described" -> {"coding", "architecture"}
    [] OTHER -> {}
MCPresetFields == {"temperature", "top_p"}
MCModels == {"picked"}
=============================================================================
