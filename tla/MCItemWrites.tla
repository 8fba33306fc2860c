---------------------------- MODULE MCItemWrites ----------------------------
(***************************************************************************)
(* Instances of ItemWrites for TLC: a table with the key (id, at), and one *)
(* that comes back with the key (at) alone.                                *)
(***************************************************************************)
EXTENDS ItemWrites, TLC

Composite == [pk |-> "id", keys |-> {"id", "at"}]
Single == [pk |-> "at", keys |-> {"at"}]
TwoSchemas == {Composite, Single}

Full == [id |-> 1, at |-> 1]
Partial == [at |-> 1]

Insert(item, idempotent) ==
  [op |-> "insert", item |-> item, idempotent |-> idempotent, condition |-> {}]
Keyed(op, key) == [op |-> op, key |-> key]

AllCalls ==
  {Insert(Full, TRUE), Insert(Full, FALSE), Insert(Partial, FALSE), Insert(Partial, TRUE),
   [Insert(Full, TRUE) EXCEPT !.condition = {"email"}],
   Keyed("update", Full), Keyed("update", Partial), Keyed("delete", Full)}

\* The requests differ in nothing but what they ask for.
Requesters == Permutations(Requests)

MCContents == {{}, {[id |-> 1, at |-> 1, by |-> "other"]}}
=============================================================================
