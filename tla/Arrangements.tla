---------------------------- MODULE Arrangements ----------------------------
(***************************************************************************)
(* Lists made from sets, by the places of their members: what loops,       *)
(* filters and sorts of the code leave behind, without going through them. *)
(***************************************************************************)
EXTENDS Integers, FiniteSets

\* The members of S from first to last in the order of the pairs in R: the one
\* at i has i - 1 before it.
Arranged(S, R) ==
  [i \in 1..Cardinality(S) |->
     CHOOSE p \in S : Cardinality({q \in S : <<q, p>> \in R}) = i - 1]

\* The numbers in S from the least to the greatest.
Ascending(S) == Arranged(S, {e \in S \X S : e[1] < e[2]})

\* The elements of the list s at these places, in their order.
Kept(s, places) ==
  LET order == Ascending(places)
  IN [i \in 1..Cardinality(places) |-> s[order[i]]]
=============================================================================
