--------------------------- MODULE MCControlPanel ---------------------------
(***************************************************************************)
(* One page with two polls on their way at once, so that they can overtake *)
(* each other; one POST, two requests for the catalog; a catalog that may  *)
(* drop the model that was chosen from it.                                 *)
(***************************************************************************)
EXTENDS ControlPanel

MCChoices == {"architecture"}
MCModels == {"glm", "kimi"}
MCCatalogs == {{"glm"}, {"kimi"}}
MCPolls == {"p1", "p2"}
MCPosts == {"o1"}
MCLoads == {"l1", "l2"}
=============================================================================
