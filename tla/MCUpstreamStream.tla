-------------------------- MODULE MCUpstreamStream --------------------------
(***************************************************************************)
(* A small instance of UpstreamStream: one line of every kind, two tool    *)
(* calls, and a reasoning cap that a short response can pass.              *)
(***************************************************************************)
EXTENDS UpstreamStream

MCMultiplier == <<3, 2>>
MCLines == {[k |-> "noise"], [k |-> "content"], [k |-> "reasoning"], [k |-> "finish"],
            [k |-> "usage"], [k |-> "done"],
            [k |-> "tool", index |-> 0], [k |-> "tool", index |-> 1]}
=============================================================================
