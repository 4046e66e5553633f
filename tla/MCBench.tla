------------------------------ MODULE MCBench ------------------------------
(***************************************************************************)
(* Two repeats of two questions: an endpoint that answers, at two speeds,  *)
(* refuses the shape, or fails.                                            *)
(***************************************************************************)
EXTENDS Bench

CONSTANTS p1, p2

Choice(i) == [of |-> i, index |-> i, map |-> "numbers", content |-> "none"]

MCPrompts == <<p1, p2>>
MCCalls == 1..Repeats
MCBatches == [c \in MCCalls |-> {MCPrompts}]
MCChoiceLists == <<{<<Choice(1)>>, NoChoices}, {<<Choice(2), Choice(1)>>, NotJson}>>
=============================================================================
