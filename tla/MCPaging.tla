------------------------------ MODULE MCPaging ------------------------------
(***************************************************************************)
(* Instances of Paging for TLC: requests without a client-side cap, the    *)
(* native ones with no limit, one the host picks and one it may not pick;  *)
(* and a SELECT with a cap.                                                *)
(***************************************************************************)
EXTENDS Paging

MCPositions == 1..4
MCMatching == {2, 3}
Uncapped ==
  {<<"partiql", NoLimit>>, <<"partiql", -1>>}
    \union ({"scan", "query"} \X {NoLimit, 0, 1, 3})
Capped == {<<"partiql", 1>>}
Native == {<<"scan", NoLimit>>, <<"query", 1>>}
=============================================================================
