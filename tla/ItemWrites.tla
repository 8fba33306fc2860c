------------------------------ MODULE ItemWrites ------------------------------
(***************************************************************************)
(* insert_record, update_record and delete_record (handlers/crud.rs) on one *)
(* table, handled side by side by the workers.  All but the plain insert    *)
(* ask for the keys of the table first and write with what they learned;    *)
(* in between, others write, and may drop the table and create it again.    *)
(* The SDK repeats a write whose answer it did not get.                     *)
(*                                                                         *)
(* An item, and a key, is a function from its attributes to their values.   *)
(***************************************************************************)
EXTENDS Integers, FiniteSets, Functions

CONSTANTS
  Requests,    \* requests the host sends
  Calls,       \* what they may ask for
  Contents,    \* what the table may hold at first
  Schemas,     \* what its keys may be: [pk, keys] with the partition key
  MaxAttempts, \* times the SDK sends a write
  MaxDrops     \* bound: times others drop the table

\* A condition is the set of the one attribute that may not be there, or of
\* none; that of an insert is its condition_expression.
ASSUME CallAssumption ==
  \A c \in Calls :
    \/ c.op = "insert"
         /\ DOMAIN c = {"op", "item", "idempotent", "condition"}
         /\ c.idempotent \in BOOLEAN /\ DOMAIN c.item # {}
    \/ c.op \in {"update", "delete"} /\ DOMAIN c = {"op", "key"}
                                     /\ DOMAIN c.key # {}

\* "by" is the attribute the writes leave their name in.
ASSUME SchemaAssumption ==
  \A s \in Schemas : s.pk \in s.keys /\ "by" \notin s.keys

ASSUME BoundAssumption ==
  IsFiniteSet(Requests) /\ MaxAttempts \in Nat \ {0} /\ MaxDrops \in Nat

NoTable == [pk |-> "", keys |-> {}]

VARIABLES
  schema,   \* the keys of the table, or NoTable
  items,    \* what it holds
  call,     \* what each request asks for
  phase,    \* of each request: "start", "write" or its outcome: "ok",
            \* "invalid" (parameters), "opaque" (its key does not fit the
            \* table), "failed" (anything else)
  learned,  \* the schema each request has been told
  attempts, \* how often its write was sent
  applied,  \* history: how often its write took effect
  drops,    \* how often the table was dropped
  removals  \* history: how often items were deleted or dropped

vars == <<schema, items, call, phase, learned, attempts, applied, drops,
          removals>>

Init ==
  /\ schema \in Schemas
  /\ items \in Contents
  /\ \A i \in items : schema.keys \subseteq DOMAIN i
  /\ call \in [Requests -> Calls]
  /\ phase = [r \in Requests |-> "start"]
  /\ learned = [r \in Requests |-> NoTable]
  /\ attempts = [r \in Requests |-> 0]
  /\ applied = [r \in Requests |-> 0]
  /\ drops = 0
  /\ removals = 0

(***************************************************************************)
(* Others drop the table and create it anew.                               *)
(***************************************************************************)
DropTable ==
  /\ schema # NoTable /\ drops < MaxDrops
  /\ schema' = NoTable
  /\ items' = {}
  /\ drops' = drops + 1
  /\ removals' = removals + 1
  /\ UNCHANGED <<call, phase, learned, attempts, applied>>

CreateTable ==
  /\ schema = NoTable
  /\ schema' \in Schemas
  /\ UNCHANGED <<items, call, phase, learned, attempts, applied, drops, removals>>

(***************************************************************************)
(* The handlers, up to the write                                           *)
(***************************************************************************)
Goes(r, to) == phase' = [phase EXCEPT ![r] = to]

\* DescribeTable has answered with the keys.
Learn(r) == learned' = [learned EXCEPT ![r] = schema]

\* Does the handler set the condition of r?
Defaulted(r) == call[r].idempotent /\ call[r].condition = {}

\* Faulty variant: only the condition of the caller is used.
ExplicitCondition(r) == call[r].condition

\* The condition of an insert: attribute_not_exists of the partition key for
\* an idempotent one without a condition of its own.
resolve_insert_condition(r) ==
  IF Defaulted(r) THEN {learned[r].pk} ELSE call[r].condition

\* Faulty variant: an incomplete key passes.
KeyOfColumns(key, keys) == DOMAIN key \subseteq keys

\* validate_key_columns and ensure_full_key.
ValidKey(key, keys) == DOMAIN key \subseteq keys /\ keys \subseteq DOMAIN key

PrepareInsert(r) ==
  /\ call[r].op = "insert"
  /\ IF Defaulted(r)
       THEN \/ schema # NoTable /\ Learn(r) /\ Goes(r, "write")
            \/ Goes(r, "failed") /\ UNCHANGED learned
       ELSE Goes(r, "write") /\ UNCHANGED learned

PrepareKeyed(r) ==
  /\ call[r].op # "insert"
  /\ \/ /\ schema # NoTable
        /\ Learn(r)
        /\ Goes(r, IF ValidKey(call[r].key, schema.keys) THEN "write"
                   ELSE "invalid")
     \/ Goes(r, "failed") /\ UNCHANGED learned

Prepare(r) ==
  /\ phase[r] = "start"
  /\ PrepareInsert(r) \/ PrepareKeyed(r)
  /\ UNCHANGED <<schema, items, call, attempts, applied, drops, removals>>

(***************************************************************************)
(* PutItem, UpdateItem and DeleteItem                                      *)
(***************************************************************************)
KeyOf(i) == Restrict(i, schema.keys)
At(key) == {i \in items : KeyOf(i) = key}

\* Who set the attribute that is not part of any key.
With(f, r) == [a \in DOMAIN f \union {"by"} |-> IF a = "by" THEN r ELSE f[a]]

Fits(r) ==
  IF call[r].op = "insert" THEN schema.keys \subseteq DOMAIN call[r].item
  ELSE DOMAIN call[r].key = schema.keys

ConditionHolds(r) ==
  call[r].op = "insert" =>
    \A i \in At(KeyOf(call[r].item)) :
      resolve_insert_condition(r) \intersect DOMAIN i = {}

\* What the table holds after the write of r.
After(r) ==
  CASE call[r].op = "insert" ->
         (items \ At(KeyOf(call[r].item))) \union {With(call[r].item, r)}
    [] call[r].op = "delete" -> items \ At(call[r].key)
    [] call[r].op = "update" ->
         LET old == At(call[r].key) IN
         (items \ old) \union
           {With(i, r) : i \in IF old = {} THEN {call[r].key} ELSE old}

Accepted(r) == schema # NoTable /\ Fits(r) /\ ConditionHolds(r)

\* Faulty variant: the condition of an idempotent insert that does not hold is
\* reported as success.
OutcomeIdempotent(r) ==
  IF schema = NoTable THEN "failed"
  ELSE IF ~Fits(r) THEN "opaque"
  ELSE "ok"

\* The answer of DynamoDB, as the handler reports it.
Outcome(r) ==
  IF schema = NoTable THEN "failed"
  ELSE IF ~Fits(r) THEN "opaque"
  ELSE IF ConditionHolds(r) THEN "ok"
  ELSE "failed"

\* The write of r arrives, and takes effect unless DynamoDB rejects it.
Arrive(r) ==
  /\ items' = IF Accepted(r) THEN After(r) ELSE items
  /\ applied' = [applied EXCEPT ![r] = @ + IF Accepted(r) THEN 1 ELSE 0]
  /\ removals' = removals +
       IF Accepted(r) /\ call[r].op = "delete" THEN 1 ELSE 0

\* The answer arrives, or is lost: the SDK sends the write again, or gives up.
Send(r) ==
  /\ phase[r] = "write"
  /\ attempts' = [attempts EXCEPT ![r] = @ + 1]
  /\ \/ Arrive(r) /\ Goes(r, Outcome(r))
     \/ /\ Arrive(r) \/ UNCHANGED <<items, applied, removals>>
        /\ Goes(r, IF attempts[r] + 1 < MaxAttempts THEN "write" ELSE "failed")
  /\ UNCHANGED <<schema, call, learned, drops>>

(***************************************************************************)
(* The specification                                                       *)
(***************************************************************************)
Next ==
  \/ DropTable \/ CreateTable
  \/ \E r \in Requests : Prepare(r) \/ Send(r)

Spec == Init /\ [][Next]_vars

(***************************************************************************)
(* Properties                                                              *)
(***************************************************************************)

IdempotentInsert(r) == call[r].op = "insert" /\ Defaulted(r)

\* The write of an idempotent insert never replaces an item, "an existing item
\* is never silently overwritten" (crud.rs:53-55), as long as the keys of the
\* table are those it was told.
NeverOverwrites ==
  [][\A r \in Requests :
       IdempotentInsert(r) /\ applied'[r] # applied[r] /\ learned[r] = schema
         => items \subseteq items']_vars

\* The idempotent inserts of an item that were reported as successful.
Inserted(item) ==
  {r \in Requests : IdempotentInsert(r) /\ call[r].item = item /\ phase[r] = "ok"}

\* Idempotent inserts of one item do not both succeed, however they overlap and
\* are repeated, unless it was deleted in between, as long as the table is not
\* dropped: one that comes back may have another partition key than the
\* condition of crud.rs:101 names.
InsertedOnce ==
  drops = 0 => \A r \in Requests :
    IdempotentInsert(r) => Cardinality(Inserted(call[r].item)) <= 1 + removals

\* Success is reported only for a write that took effect, and parameters are
\* found invalid before anything is written.
OutcomesAreTrue ==
  \A r \in Requests :
    /\ phase[r] = "ok" => applied[r] > 0
    /\ phase[r] = "invalid" => applied[r] = 0

\* As long as the keys of the table are those it was told, an update or delete
\* whose key does not fit is refused by the handler, not by DynamoDB: "callers
\* get a clear error instead of an opaque service failure" (crud.rs:5-7).
KeyErrorsAreClear ==
  [][\A r \in Requests :
       phase'[r] # phase[r] /\ phase'[r] = "opaque"
         => call[r].op = "insert" \/ learned[r] # schema]_vars
===============================================================================
