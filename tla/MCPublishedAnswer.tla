-------------------------- MODULE MCPublishedAnswer --------------------------
(* Readouts of up to five slots with one spelling, and of up to three slots
   with any mixture of spellings. *)
EXTENDS PublishedAnswer

CONSTANTS none, MaxSlots, MaxMass

Spelling(b, s) == [bare |-> b, spaced |-> s]

OneSpelling ==
    UNION {{[i \in 1..n |-> Spelling(f[i], none)] : f \in [1..n -> 1..MaxMass]} :
           n \in 2..MaxSlots}

BothSpellings ==
    UNION {[1..n -> [bare : {none, 1, 4}, spaced : {none, 1, 2}]] : n \in 2..3}

MCReadouts == OneSpelling \cup BothSpellings

\* Every slot equally likely.
FlatReadouts ==
    {[i \in 1..n |-> Spelling(1, none)] : n \in 2..MaxSlots}
=============================================================================
