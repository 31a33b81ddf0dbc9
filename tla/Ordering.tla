------------------------------ MODULE Ordering ------------------------------
(***************************************************************************)
(* The elements of a finite set of integers in increasing order.           *)
(***************************************************************************)
EXTENDS Integers, Sequences, FiniteSets

Ordered(S) ==
  [i \in 1..Cardinality(S) |->
     CHOOSE n \in S : Cardinality({m \in S : m < n}) = i - 1]
=============================================================================
