----------------------------- MODULE TableReads -----------------------------
(***************************************************************************)
(* What the modules that read DynamoDB tables share: how DynamoDB answers  *)
(* a Scan, Query or ExecuteStatement, and how dynamodb/models.rs turns the *)
(* LastEvaluatedKey of an answer into a token and back.                    *)
(*                                                                         *)
(* An item is its position, a positive number, in the order in which       *)
(* DynamoDB goes through the table, which its key determines.              *)
(***************************************************************************)
EXTENDS Integers, FiniteSets

CONSTANT KeyType    \* type of the key: "S", "N" or "B"

ASSUME KeyTypeAssumption == KeyType \in {"S", "N", "B"}

\* A call on table that starts behind start evaluates the next items: at most
\* bound of them, or fewer when they are large.  The last evaluated one is
\* reported when items are left, and maybe when none is; 0 stands for none.
Evaluates(table, start, bound, items, last) ==
  LET rest == {p \in table : p > start} IN
  /\ items \subseteq rest
  /\ \A p \in items, q \in rest \ items : p < q
  /\ Cardinality(items) <= bound
  /\ rest # {} => items # {}
  /\ rest # items => last # 0
  /\ last # 0 => last \in items /\ \A p \in items : p <= last

(***************************************************************************)
(* Keys and tokens.  A key or a token is the set of the one attribute it   *)
(* holds, and None, the empty set, when there is none.                     *)
(***************************************************************************)
None == {}

KeyAt(p) == IF p = 0 THEN None ELSE {[type |-> KeyType, of |-> p]}

\* Where a call with this key or token starts.
StartOf(key) == IF key = None THEN 0 ELSE (CHOOSE av \in key : TRUE).of

\* A number is shown as a string, binary data not at all.
attribute_value_to_json(av) ==
  [kind |-> "string", of |-> IF av.type = "B" THEN 0 ELSE av.of]

\* Faulty variant: what looks like a number is made one.
GuessNumber(v) == [type |-> "N", of |-> v.of]

json_to_attribute_value(v) == [type |-> "S", of |-> v.of]

encode_last_key(key) == {attribute_value_to_json(av) : av \in key}
decode_pagination_token(t) == {json_to_attribute_value(v) : v \in t}

\* DynamoDB takes a start key of the table's own type only.
Valid(key) == \A av \in key : av.type = KeyType
=============================================================================
