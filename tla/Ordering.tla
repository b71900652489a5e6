------------------------------ MODULE Ordering ------------------------------
(***************************************************************************)
(* A finite set listed in a strict total order, as ORDER BY and sorted     *)
(* list it.  An element stands at the place that counts the elements       *)
(* before it, which is a definition proofs can count with.                 *)
(***************************************************************************)
EXTENDS Naturals, FiniteSets

\* The elements of S before x in the order R, a set of pairs.
Before(S, R, x) == {y \in S : <<y, x>> \in R}

\* S in the order R.
Ordered(S, R) ==
    [n \in 1 .. Cardinality(S) |-> CHOOSE x \in S : Cardinality(Before(S, R, x)) = n - 1]
=============================================================================
