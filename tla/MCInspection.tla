---------------------------- MODULE MCInspection ----------------------------
(***************************************************************************)
(* Every text of up to four items in the first attempt, and every one of   *)
(* eight words out of two; one for each verdict afterwards.  Two words     *)
(* that come again within three are a repetition.  Numbers are in          *)
(* twentieths: temperatures near the floor, at the default of 0.8, and     *)
(* above the ceiling; caps unset, below the ceiling, and above it; usages  *)
(* from the smallest to one above the ceiling, and none.                   *)
(***************************************************************************)
EXTENDS Inspection

MCTexts == BoundedSeq({"(", ")", "[", "]", "apostrophe", "quote", Escape}, 4)
             \union BoundedSeq({"w", "(", Blank, Fence, BadJSON}, 4)
             \union BoundedSeq({"w", "v"}, 8)
MCLaterTexts == {<<>>, <<"w", "w", "w", "w">>, <<"(">>, <<BadJSON>>, <<"w">>}
MCUsages == {0, 1, 2, 3, 4, 5, 9}
MCBodies == {[temperature |-> 4, cap |-> 0], [temperature |-> 16, cap |-> 4],
             [temperature |-> 40, cap |-> 9]}
=============================================================================
