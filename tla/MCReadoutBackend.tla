-------------------------- MODULE MCReadoutBackend --------------------------
(***************************************************************************)
(* Two concurrent calls, of up to three prompts and of up to two.  The     *)
(* endpoint sends choices in every order, with every mixture of right,     *)
(* missing and non-integer indexes, with two of the same index, with one   *)
(* choice without a usable distribution, or too few of them.               *)
(***************************************************************************)
EXTENDS ReadoutBackend, TLC

CONSTANTS c1, c2, p1, p2, p3

Choice(of, index, shape) ==
    [of |-> of, index |-> index, map |-> shape[1], content |-> shape[2]]

\* What a choice may carry: a usable distribution in either shape, or none.
Usual == <<"numbers", "none">>
Shapes == {<<"none", "numbers">>, <<"junk", "numbers">>, <<"none", "junk">>, <<"none", "none">>}

Bijections(n) == {f \in [1..n -> 1..n] : {f[i] : i \in 1..n} = 1..n}

\* n choices in any order, any of them with its own or a non-integer index
\* or with none, as long as those without one are in request order.
Labelled(n) ==
    {cs \in {[i \in 1..n |-> Choice(of[i], index[i], Usual)] :
             of \in Bijections(n), index \in [1..n -> (1..n) \cup {NoIndex, NotAnIndex}]} :
        Trustworthy(cs)}

\* In order, all of them said to be the first.
SameIndex(n) == [i \in 1..n |-> Choice(i, 1, Usual)]

\* In order, with one choice of another shape.
Shaped(n) ==
    {[i \in 1..n |-> Choice(i, i, IF i = odd THEN any ELSE Usual)] : odd \in 1..n, any \in Shapes}

\* Without choices, or with one fewer than asked for.
Short(n) == {NoChoices, NotJson, [i \in 1..(n - 1) |-> Choice(i, i, Usual)]}

Wire(n) == Short(n) \cup Labelled(n) \cup Shaped(n) \cup {SameIndex(n)}

\* A single prompt is read off the first choice, whatever its index.
MCWire == <<Short(1) \cup Shaped(1) \cup {SameIndex(1)}, Wire(2), Wire(3)>>

MCBatches == (c1 :> {<<>>, <<p1, p2, p3>>}) @@ (c2 :> {<<p3>>, <<p1, p2>>})
=============================================================================
