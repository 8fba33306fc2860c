-------------------------- MODULE MCClientSideReads --------------------------
(***************************************************************************)
(* Instances of ClientSideReads for TLC: five items with three numbers, a  *)
(* string and no value in the column, of which the SELECT matches four.    *)
(***************************************************************************)
EXTENDS ClientSideReads

MCPositions == 1..5
MCMatching == {1, 2, 4, 5}
MCValueOf ==
  [p \in MCPositions |->
     <<<<Num, 2>>, <<Null, 0>>, <<Num, -1>>, <<Str, 1>>, <<Num, 1>>>>[p]]
Aggregates == AggregateSelects
Orders ==
  [kind : {"ordered"}, descending : BOOLEAN, limit : {NoLimit, 0, 1, 2}]
AllSelects == Aggregates \union Orders
=============================================================================
