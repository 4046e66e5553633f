---------------------------- MODULE MCEvalDriver ----------------------------
(***************************************************************************)
(* Two drivers in one directory, over sets of one key and over sets whose  *)
(* English half lacks one of two, which are refused.                       *)
(***************************************************************************)
EXTENDS EvalDriver

OneKey == [zh |-> <<7>>, en |-> <<7>>]
Subset == [zh |-> <<7, 31>>, en |-> <<7>>]

MCJobs == {OneKey, Subset}

DriverSymmetry == Permutations(Drivers)
=============================================================================
