------------------------------ MODULE Ordering ------------------------------
(***************************************************************************)
(* Sorting: Python's sorted() and the ascending loops over a BTreeMap or a *)
(* vector of bins, as an operator on a finite set of integers.             *)
(***************************************************************************)
EXTENDS Integers, FiniteSets

\* The keys in order.
InOrder(keys) ==
    [k \in 1..Cardinality(keys) |-> CHOOSE x \in keys : Cardinality({y \in keys : y < x}) = k - 1]
=============================================================================
