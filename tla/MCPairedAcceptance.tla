------------------------- MODULE MCPairedAcceptance -------------------------
(***************************************************************************)
(* Two acceptances in one directory, over sets of one key and over sets    *)
(* whose English half lacks one of two.                                    *)
(***************************************************************************)
EXTENDS PairedAcceptance

OneKey == [zh |-> <<7>>, en |-> <<7>>]
TwoKeys == [zh |-> <<7, 31>>, en |-> <<31, 7>>]
Subset == [zh |-> <<7, 31>>, en |-> <<7>>]

MCJobs == {OneKey, TwoKeys, Subset}

\* Bound: replies are lost only in behaviours of one driver and one date, over
\* one key, where nobody is killed.
LossesApart ==
    Silences > 0 =>
        /\ clock = 0
        /\ \A d, e \in Drivers : d # e => pc[d] = "idle" \/ pc[e] = "idle"
        /\ \A d \in Drivers : pc[d] # "killed" /\ Len(sets[d].zh) < 2

DriverSymmetry == Permutations(Drivers)
=============================================================================
