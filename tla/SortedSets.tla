------------------------------ MODULE SortedSets ------------------------------
(***************************************************************************)
(* The elements of a finite set of numbers as a sequence, the least first. *)
(***************************************************************************)
EXTENDS Naturals, FiniteSets

\* The i-th has i - 1 elements before it.
Sorted(S) == [i \in 1 .. Cardinality(S) |-> CHOOSE x \in S : Cardinality({y \in S : y < x}) = i - 1]
=============================================================================
