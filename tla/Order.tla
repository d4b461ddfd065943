------------------------------- MODULE Order --------------------------------
(***************************************************************************)
(* The members of a finite set of numbers in order, as a sequence: what is *)
(* selected from a list stays in the list's order.                         *)
(***************************************************************************)
EXTENDS Naturals, FiniteSets

\* How many members of S are up to i.
Rank(S, i) == Cardinality({j \in S : j <= i})

InOrder(S) == [n \in 1..Cardinality(S) |-> CHOOSE i \in S : Rank(S, i) = n]
=============================================================================
