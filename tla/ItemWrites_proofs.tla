-------------------------- MODULE ItemWrites_proofs --------------------------
(***************************************************************************)
(* Proofs about ItemWrites, for every set of requests and calls, every     *)
(* table and key, and any number of attempts and of drops.                 *)
(***************************************************************************)
EXTENDS ItemWrites, FiniteSetTheorems, TLAPS

\* A condition finds the items it is meant to find because every item has the
\* attributes of the key, and a key that reached its write is a key of the
\* schema the handler was told.
Typed ==
  /\ schema \in Schemas \union {NoTable}
  /\ call \in [Requests -> Calls]
  /\ DOMAIN phase = Requests
  /\ DOMAIN learned = Requests
  /\ applied \in [Requests -> Nat]

Keyed ==
  /\ \A i \in items : schema.keys \subseteq DOMAIN i
  /\ schema = NoTable => items = {}

Validated ==
  \A r \in Requests :
    phase[r] = "write" /\ call[r].op # "insert"
      => DOMAIN call[r].key = learned[r].keys

Unwritten == \A r \in Requests : phase[r] = "start" => applied[r] = 0

IInv == Typed /\ Keyed /\ Validated /\ Unwritten /\ OutcomesAreTrue

\* A write leaves only items with the attributes of the key.
LEMMA WriteKeepsKeys ==
  ASSUME Keyed, NEW r \in Requests, call[r] \in Calls, Accepted(r)
  PROVE  \A i \in After(r) : schema.keys \subseteq DOMAIN i
<1>1. \A f : DOMAIN f \subseteq DOMAIN With(f, r)
  BY DEF With
<1>2. \A i \in items : schema.keys \subseteq DOMAIN With(i, r)
  BY <1>1 DEF Keyed
<1>3. CASE call[r].op = "insert"
  <2>1. schema.keys \subseteq DOMAIN With(call[r].item, r)
    BY <1>1, <1>3 DEF Accepted, Fits
  <2>2. After(r) = (items \ At(KeyOf(call[r].item))) \union {With(call[r].item, r)}
    BY <1>3 DEF After
  <2> QED
    BY <2>1, <2>2 DEF Keyed
<1>4. CASE call[r].op = "delete"
  BY <1>4 DEF After, Keyed
<1>5. CASE call[r].op = "update"
  <2>1. schema.keys \subseteq DOMAIN With(call[r].key, r)
    BY <1>1, <1>5 DEF Accepted, Fits
  <2>2. ASSUME NEW i \in After(r)
        PROVE  \/ i \in items
               \/ i = With(call[r].key, r)
               \/ \E j \in items : i = With(j, r)
    BY <1>5 DEF After, At
  <2> QED
    BY <1>2, <2>1, <2>2 DEF Keyed
<1> QED
  BY <1>3, <1>4, <1>5, CallAssumption

LEMMA InvInit == Init => IInv
<1> SUFFICES ASSUME Init PROVE IInv
  OBVIOUS
<1>1. schema # NoTable
  <2>1. schema.pk \in schema.keys
    BY SchemaAssumption DEF Init
  <2>2. NoTable.keys = {}
    BY DEF NoTable
  <2> QED
    BY <2>1, <2>2
<1>2. Typed
  BY DEF Init, Typed
<1>3. Keyed
  BY <1>1 DEF Init, Keyed
<1>4. Validated /\ Unwritten /\ OutcomesAreTrue
  BY DEF Init, Validated, Unwritten, OutcomesAreTrue
<1> QED
  BY <1>2, <1>3, <1>4 DEF IInv

\* What a handler does before its write: it decides how to go on, and a key it
\* goes on with is a whole key of the schema it was told.
LEMMA PrepareFacts ==
  ASSUME Typed, NEW r \in Requests, Prepare(r)
  PROVE  /\ phase[r] = "start"
         /\ UNCHANGED <<schema, items, call, attempts, applied, drops, removals>>
         /\ \E s \in {"write", "invalid", "failed"} :
              /\ phase' = [phase EXCEPT ![r] = s]
              /\ s = "write" /\ call[r].op # "insert"
                   => DOMAIN call[r].key = learned'[r].keys
         /\ DOMAIN learned' = Requests
         /\ \A q \in Requests : q # r => learned'[q] = learned[q]
<1> USE DEF Goes, Learn, Typed
<1>1. CASE PrepareInsert(r)
  BY <1>1 DEF Prepare, PrepareInsert
<1>2. CASE PrepareKeyed(r)
  <2>1. CASE learned' = [learned EXCEPT ![r] = schema]
    <3>1. PICK s \in {"write", "invalid", "failed"} :
            /\ phase' = [phase EXCEPT ![r] = s]
            /\ s = "write" => ValidKey(call[r].key, schema.keys)
      BY <1>2 DEF PrepareKeyed
    <3>2. s = "write" => DOMAIN call[r].key = schema.keys
      BY <3>1 DEF ValidKey
    <3> QED
      BY <2>1, <3>1, <3>2 DEF Prepare
  <2>2. CASE learned' # [learned EXCEPT ![r] = schema]
    BY <1>2, <2>2 DEF Prepare, PrepareKeyed
  <2> QED
    BY <2>1, <2>2
<1> QED
  BY <1>1, <1>2 DEF Prepare

LEMMA PrepareInv ==
  ASSUME IInv, NEW r \in Requests, Prepare(r)
  PROVE  IInv'
<1> USE DEF IInv
<1>1. PICK s \in {"write", "invalid", "failed"} :
        /\ phase' = [phase EXCEPT ![r] = s]
        /\ s = "write" /\ call[r].op # "insert"
             => DOMAIN call[r].key = learned'[r].keys
  BY PrepareFacts
<1>2. /\ phase[r] = "start"
      /\ UNCHANGED <<schema, items, call, applied>>
      /\ DOMAIN learned' = Requests
      /\ \A q \in Requests : q # r => learned'[q] = learned[q]
  BY PrepareFacts
<1>3. /\ DOMAIN phase' = Requests
      /\ phase'[r] = s
      /\ \A q \in Requests : q # r => phase'[q] = phase[q]
  BY <1>1 DEF Typed
<1>4. Typed' /\ Keyed'
  BY <1>2, <1>3 DEF Typed, Keyed
<1>5. Validated'
  BY <1>1, <1>2, <1>3 DEF Validated
<1>6. Unwritten' /\ OutcomesAreTrue'
  BY <1>2, <1>3 DEF Unwritten, OutcomesAreTrue
<1> QED
  BY <1>4, <1>5, <1>6

\* What one attempt of a write does: it may take effect, and is reported as a
\* success only then.
LEMMA SendFacts ==
  ASSUME Typed, NEW r \in Requests, Send(r)
  PROVE  /\ phase[r] = "write"
         /\ UNCHANGED <<schema, call, learned>>
         /\ \/ Accepted(r) /\ items' = After(r)
                /\ applied' = [applied EXCEPT ![r] = @ + 1]
            \/ UNCHANGED <<items, applied>>
         /\ \E s \in {"write", "ok", "opaque", "failed"} :
              /\ phase' = [phase EXCEPT ![r] = s]
              /\ s = "ok" => applied'[r] = applied[r] + 1
              /\ s = "opaque" => schema # NoTable /\ ~Fits(r)
<1>1. /\ phase[r] = "write"
      /\ UNCHANGED <<schema, call, learned>>
  BY DEF Send
<1>2. ASSUME Arrive(r)
      PROVE  /\ \/ Accepted(r) /\ items' = After(r)
                    /\ applied' = [applied EXCEPT ![r] = @ + 1]
                \/ UNCHANGED <<items, applied>>
             /\ Accepted(r) => applied'[r] = applied[r] + 1
  <2>1. CASE Accepted(r)
    BY <1>2, <2>1 DEF Arrive, Typed
  <2>2. CASE ~Accepted(r)
    <3>1. applied' = [applied EXCEPT ![r] = @ + 0] /\ items' = items
      BY <1>2, <2>2 DEF Arrive
    <3>2. applied[r] + 0 = applied[r]
      BY DEF Typed
    <3>3. applied' = applied
      BY <3>1, <3>2 DEF Typed
    <3> QED
      BY <2>2, <3>1, <3>3
  <2> QED
    BY <2>1, <2>2
<1>3. /\ Outcome(r) \in {"ok", "opaque", "failed"}
      /\ Outcome(r) = "ok" => Accepted(r)
      /\ Outcome(r) = "opaque" => schema # NoTable /\ ~Fits(r)
  BY DEF Outcome, Accepted
<1>4. CASE Arrive(r) /\ Goes(r, Outcome(r))
  BY <1>1, <1>2, <1>3, <1>4 DEF Goes
<1>5. CASE /\ Arrive(r) \/ UNCHANGED <<items, applied, removals>>
           /\ \E s \in {"write", "failed"} : Goes(r, s)
  BY <1>1, <1>2, <1>5 DEF Goes
<1> QED
  BY <1>4, <1>5 DEF Send

LEMMA SendInv ==
  ASSUME IInv, NEW r \in Requests, Send(r)
  PROVE  IInv'
<1> USE DEF IInv
<1>1. PICK s \in {"write", "ok", "opaque", "failed"} :
        /\ phase' = [phase EXCEPT ![r] = s]
        /\ s = "ok" => applied'[r] = applied[r] + 1
  BY SendFacts
<1>2. phase[r] = "write" /\ UNCHANGED <<schema, call, learned>>
  BY SendFacts
<1>3. \/ Accepted(r) /\ items' = After(r)
         /\ applied' = [applied EXCEPT ![r] = @ + 1]
      \/ UNCHANGED <<items, applied>>
  BY SendFacts
<1>4. /\ DOMAIN phase' = Requests
      /\ phase'[r] = s
      /\ \A q \in Requests : q # r => phase'[q] = phase[q]
  BY <1>1 DEF Typed
<1>5. /\ applied' \in [Requests -> Nat]
      /\ \A q \in Requests : q # r => applied'[q] = applied[q]
      /\ applied[r] \in Nat
  BY <1>3 DEF Typed
<1>6. Typed'
  BY <1>2, <1>4, <1>5 DEF Typed
<1>7. Keyed'
  <2>1. CASE Accepted(r) /\ items' = After(r)
    BY <1>2, <2>1, WriteKeepsKeys DEF Typed, Keyed, Accepted
  <2>2. CASE UNCHANGED items
    BY <1>2, <2>2 DEF Keyed
  <2> QED
    BY <1>3, <2>1, <2>2
<1>8. Validated'
  BY <1>2, <1>4 DEF Validated
<1>9. Unwritten'
  BY <1>4, <1>5 DEF Unwritten
<1>10. OutcomesAreTrue'
  BY <1>1, <1>4, <1>5 DEF OutcomesAreTrue
<1> QED
  BY <1>6, <1>7, <1>8, <1>9, <1>10

\* The table loses its items with its keys, and a new one is empty.
LEMMA InvStep == IInv /\ [Next]_vars => IInv'
<1> SUFFICES ASSUME IInv, [Next]_vars PROVE IInv'
  OBVIOUS
<1>1. CASE DropTable
  BY <1>1 DEF DropTable, NoTable, IInv, Typed, Keyed, Validated, Unwritten,
              OutcomesAreTrue
<1>2. CASE CreateTable
  BY <1>2 DEF CreateTable, IInv, Typed, Keyed, Validated, Unwritten,
              OutcomesAreTrue
<1>3. CASE UNCHANGED vars
  BY <1>3 DEF vars, IInv, Typed, Keyed, Validated, Unwritten, OutcomesAreTrue
<1> QED
  BY <1>1, <1>2, <1>3, PrepareInv, SendInv DEF Next

-----------------------------------------------------------------------------
\* Success is reported only for a write that took effect, and nothing has been
\* written when parameters are found invalid.
THEOREM OutcomesHold == Spec => []OutcomesAreTrue
<1>1. IInv => OutcomesAreTrue
  BY DEF IInv
<1> QED
  BY <1>1, InvInit, InvStep, PTL DEF Spec

\* An idempotent insert replaces no item of a table with the keys it was told:
\* the item would have the partition key that the condition excludes.
THEOREM InsertsOnlyAdd == Spec => NeverOverwrites
<1> DEFINE Adds ==
      \A r \in Requests :
        IdempotentInsert(r) /\ applied'[r] # applied[r] /\ learned[r] = schema
          => items \subseteq items'
<1>1. IInv /\ [Next]_vars => [Adds]_vars
  <2> SUFFICES ASSUME IInv, Next, NEW r \in Requests, IdempotentInsert(r),
                      applied'[r] # applied[r], learned[r] = schema
               PROVE  items \subseteq items'
    OBVIOUS
  <2>1. Send(r)
    <3>1. ~(DropTable \/ CreateTable)
      BY DEF DropTable, CreateTable
    <3>2. PICK q \in Requests : Prepare(q) \/ Send(q)
      BY <3>1 DEF Next
    <3>3. ~Prepare(q)
      BY DEF Prepare
    <3>4. q = r
      <4>1. CASE applied' = [applied EXCEPT ![q] = @ + 1]
        BY <4>1 DEF IInv, Typed
      <4> QED
        BY <3>2, <3>3, <4>1, SendFacts DEF IInv
    <3> QED
      BY <3>2, <3>3, <3>4
  <2>2. Accepted(r) /\ items' = After(r)
    BY <2>1, SendFacts DEF IInv
  <2>3. /\ call[r].op = "insert"
        /\ resolve_insert_condition(r) = {schema.pk}
    BY DEF IdempotentInsert, resolve_insert_condition
  <2>4. schema.pk \in schema.keys
    BY <2>2, SchemaAssumption DEF Accepted, IInv, Typed
  <2>5. \A i \in items : schema.pk \in DOMAIN i
    BY <2>4 DEF IInv, Keyed
  <2>6. At(KeyOf(call[r].item)) = {}
    BY <2>2, <2>3, <2>5 DEF Accepted, ConditionHolds, At
  <2> QED
    BY <2>2, <2>3, <2>6 DEF After
<1> QED
  BY <1>1, InvInit, InvStep, PTL DEF Spec, NeverOverwrites

\* DynamoDB never finds fault with the key of an update or delete that was
\* validated against the keys the table has when the write arrives.
THEOREM KeysAreValidated == Spec => KeyErrorsAreClear
<1> DEFINE Clear ==
      \A r \in Requests :
        phase'[r] # phase[r] /\ phase'[r] = "opaque"
          => call[r].op = "insert" \/ learned[r] # schema
<1>1. IInv /\ [Next]_vars => [Clear]_vars
  <2> SUFFICES ASSUME IInv, Next, NEW r \in Requests,
                      phase'[r] # phase[r], phase'[r] = "opaque",
                      call[r].op # "insert", learned[r] = schema
               PROVE  FALSE
    OBVIOUS
  <2>1. PICK q \in Requests : Prepare(q) \/ Send(q)
    BY DEF Next, DropTable, CreateTable
  <2>2. \E s : phase' = [phase EXCEPT ![q] = s]
    BY <2>1, PrepareFacts, SendFacts DEF IInv
  <2>3. q = r
    BY <2>2 DEF IInv, Typed
  <2>4. ~Prepare(r)
    BY PrepareFacts DEF IInv, Typed
  <2>5. Send(r)
    BY <2>1, <2>3, <2>4
  <2>6. phase[r] = "write" /\ ~Fits(r)
    BY <2>5, SendFacts DEF IInv, Typed
  <2>7. DOMAIN call[r].key = schema.keys
    BY <2>6 DEF IInv, Validated
  <2> QED
    BY <2>6, <2>7 DEF Fits
<1> QED
  BY <1>1, InvInit, InvStep, PTL DEF Spec, KeyErrorsAreClear

(***************************************************************************)
(* Idempotent inserts of one item: while the table stays, each success     *)
(* fills the place of the item, which only a deletion makes free again.    *)
(***************************************************************************)
Place(item) == IF At(KeyOf(item)) = {} THEN 0 ELSE 1

\* While the table stays, the condition of an insert names its partition key.
Steady ==
  /\ schema # NoTable
  /\ \A r \in Requests :
       phase[r] = "write" /\ IdempotentInsert(r) => learned[r] = schema

Counted == \A item : Cardinality(Inserted(item)) <= removals + Place(item)

Once ==
  /\ drops \in Nat /\ removals \in Nat
  /\ drops = 0 => Steady /\ Counted

LEMMA InsertedFinite ==
  \A item : IsFiniteSet(Inserted(item)) /\ Cardinality(Inserted(item)) \in Nat
<1> TAKE item
<1>1. Inserted(item) \subseteq Requests
  BY DEF Inserted
<1> QED
  BY <1>1, BoundAssumption, FS_Subset, FS_CardinalityType

\* The name a write leaves is no part of the key.
LEMMA KeyOfWith ==
  ASSUME schema \in Schemas, NEW r, NEW f, schema.keys \subseteq DOMAIN f
  PROVE  KeyOf(With(f, r)) = KeyOf(f)
<1>1. "by" \notin schema.keys
  BY SchemaAssumption
<1>2. \A a \in schema.keys : With(f, r)[a] = f[a]
  BY <1>1 DEF With
<1> QED
  BY <1>2 DEF KeyOf, Restrict

\* Only a deletion makes a place free.
LEMMA PlacesStayTaken ==
  ASSUME IInv, schema # NoTable, schema' = schema, NEW r \in Requests,
         Accepted(r), items' = After(r), call[r].op # "delete",
         NEW k, At(k) # {}
  PROVE  At(k)' # {}
<1>1. schema \in Schemas
  BY DEF IInv, Typed
<1>2. PICK i \in items : KeyOf(i) = k
  BY DEF At
<1>3. \A j : KeyOf(j)' = KeyOf(j)
  BY DEF KeyOf
<1>4. SUFFICES \E j \in After(r) : KeyOf(j) = k
  BY <1>3 DEF At
<1>5. KeyOf(With(i, r)) = k
  BY <1>1, <1>2, KeyOfWith DEF IInv, Keyed
<1>6. CASE call[r].op = "insert"
  <2>1. KeyOf(With(call[r].item, r)) = KeyOf(call[r].item)
    BY <1>1, <1>6, KeyOfWith DEF Accepted, Fits
  <2>2. CASE KeyOf(call[r].item) = k
    BY <1>6, <2>1, <2>2 DEF After
  <2>3. CASE KeyOf(call[r].item) # k
    BY <1>2, <1>6, <2>3 DEF After, At
  <2> QED
    BY <2>2, <2>3
<1>7. CASE call[r].op = "update"
  <2>1. CASE i \in At(call[r].key)
    BY <1>5, <1>7, <2>1 DEF After
  <2>2. CASE i \notin At(call[r].key)
    BY <1>2, <1>7, <2>2 DEF After
  <2> QED
    BY <2>1, <2>2
<1> QED
  BY <1>6, <1>7, CallAssumption DEF IInv, Typed

\* What one attempt of a write does to the places.
LEMMA SendPlaces ==
  ASSUME Typed, removals \in Nat, NEW r \in Requests, Send(r)
  PROVE  /\ UNCHANGED <<schema, call, learned, drops>>
         /\ phase[r] = "write"
         /\ \E s \in {"write", "ok", "opaque", "failed"} :
              phase' = [phase EXCEPT ![r] = s]
         /\ \/ /\ Accepted(r) /\ items' = After(r)
               /\ removals' = removals + IF call[r].op = "delete" THEN 1 ELSE 0
            \/ UNCHANGED <<items, removals>> /\ phase'[r] # "ok"
<1>1. PICK s \in {"write", "ok", "opaque", "failed"} :
        phase' = [phase EXCEPT ![r] = s]
  BY SendFacts
<1>2. Arrive(r) =>
        \/ /\ Accepted(r) /\ items' = After(r)
           /\ removals' = removals + IF call[r].op = "delete" THEN 1 ELSE 0
        \/ ~Accepted(r) /\ UNCHANGED <<items, removals>>
  BY DEF Arrive
<1>3. Outcome(r) = "ok" => Accepted(r)
  BY DEF Outcome, Accepted
<1>4. CASE Arrive(r) /\ Goes(r, Outcome(r))
  <2>1. phase'[r] = Outcome(r)
    BY <1>4 DEF Goes, Typed
  <2> QED
    BY <1>1, <1>2, <1>3, <1>4, <2>1 DEF Send
<1>5. CASE /\ Arrive(r) \/ UNCHANGED <<items, applied, removals>>
           /\ \E t \in {"write", "failed"} : Goes(r, t)
  <2>1. phase'[r] # "ok"
    BY <1>5 DEF Goes, Typed
  <2> QED
    BY <1>1, <1>2, <1>5, <2>1 DEF Send
<1> QED
  BY <1>4, <1>5 DEF Send

LEMMA OnceInit == Init => Once
<1> SUFFICES ASSUME Init PROVE Once
  OBVIOUS
<1>1. schema # NoTable
  BY SchemaAssumption DEF Init, NoTable
<1>2. \A item : Inserted(item) = {}
  BY DEF Init, Inserted
<1>3. \A item : Place(item) \in {0, 1}
  BY DEF Place
<1>4. Counted
  BY <1>2, <1>3, FS_EmptySet DEF Init, Counted
<1> QED
  BY <1>1, <1>4 DEF Init, Once, Steady

\* What is decided before the write counts for nothing yet.
LEMMA PrepareOnce ==
  ASSUME IInv, Once, drops = 0, NEW r \in Requests, Prepare(r)
  PROVE  Steady' /\ Counted'
<1>1. /\ phase[r] = "start"
      /\ UNCHANGED <<schema, items, call, attempts, applied, drops, removals>>
      /\ \A q \in Requests : q # r => learned'[q] = learned[q]
  BY PrepareFacts DEF IInv
<1>2. PICK s \in {"write", "invalid", "failed"} : phase' = [phase EXCEPT ![r] = s]
  BY PrepareFacts DEF IInv
<1>3. /\ phase'[r] = s
      /\ \A q \in Requests : q # r => phase'[q] = phase[q]
  BY <1>2 DEF IInv, Typed
<1>4. \A q \in Requests : IdempotentInsert(q)' = IdempotentInsert(q)
  BY <1>1 DEF IdempotentInsert, Defaulted
<1>5. IdempotentInsert(r) /\ phase'[r] = "write" => learned'[r] = schema
  <2> SUFFICES ASSUME IdempotentInsert(r), phase'[r] = "write"
               PROVE  learned'[r] = schema
    OBVIOUS
  <2>1. PrepareInsert(r)
    BY DEF Prepare, PrepareKeyed, IdempotentInsert
  <2>2. Learn(r)
    BY <2>1 DEF PrepareInsert, IdempotentInsert, Goes, IInv, Typed
  <2> QED
    BY <2>2 DEF Learn, IInv, Typed
<1>6. Steady'
  BY <1>1, <1>3, <1>4, <1>5 DEF Steady, Once
<1>7. \A item : Inserted(item)' = Inserted(item)
  BY <1>1, <1>3, <1>4 DEF Inserted
<1>8. \A item : Place(item)' = Place(item)
  BY <1>1 DEF Place, At, KeyOf
<1> QED
  BY <1>1, <1>6, <1>7, <1>8 DEF Counted, Once

\* A success fills a place that was free, and a deletion frees one.
LEMMA SendOnce ==
  ASSUME IInv, Once, drops = 0, NEW r \in Requests, Send(r)
  PROVE  Steady' /\ Counted'
<1>1. /\ UNCHANGED <<schema, call, learned, drops>>
      /\ phase[r] = "write"
      /\ schema # NoTable /\ schema \in Schemas
  BY SendPlaces DEF IInv, Once, Steady, Typed
<1>2. PICK s \in {"write", "ok", "opaque", "failed"} : phase' = [phase EXCEPT ![r] = s]
  BY SendPlaces DEF IInv, Once
<1>3. /\ phase'[r] = s
      /\ \A q \in Requests : q # r => phase'[q] = phase[q]
  BY <1>2 DEF IInv, Typed
<1>4. \A q \in Requests : IdempotentInsert(q)' = IdempotentInsert(q)
  BY <1>1 DEF IdempotentInsert, Defaulted
<1>5. Steady'
  BY <1>1, <1>3, <1>4 DEF Steady, Once
<1>6. ASSUME NEW item PROVE Cardinality(Inserted(item)') <= removals' + Place(item)'
  <2>1. /\ Cardinality(Inserted(item)) <= removals + Place(item)
        /\ Place(item) \in {0, 1} /\ Place(item)' \in {0, 1}
        /\ Place(item) = IF At(KeyOf(item)) = {} THEN 0 ELSE 1
        /\ Place(item)' = IF At(KeyOf(item))' = {} THEN 0 ELSE 1
    BY DEF Once, Counted, Place
  <2>2. /\ removals \in Nat /\ Cardinality(Inserted(item)) \in Nat
        /\ IsFiniteSet(Inserted(item))
    BY InsertedFinite DEF Once
  <2>3. Inserted(item)' \subseteq Inserted(item) \union {r}
    BY <1>1, <1>3, <1>4 DEF Inserted
  <2>4. r \in Inserted(item)' => /\ IdempotentInsert(r) /\ call[r].item = item
                                 /\ phase'[r] = "ok"
    BY <1>1, <1>4 DEF Inserted
  <2>5. Inserted(item)' \subseteq Inserted(item)
          => Cardinality(Inserted(item)') <= Cardinality(Inserted(item))
    BY <2>2, FS_Subset
  <2>6. Cardinality(Inserted(item)') \in Nat
    BY <2>2, <2>3, FS_AddElement, FS_Subset, FS_CardinalityType
  <2>7. CASE /\ Accepted(r) /\ items' = After(r) /\ call[r].op = "delete"
             /\ removals' = removals + 1
    <3>1. Inserted(item)' \subseteq Inserted(item)
      BY <2>3, <2>4, <2>7 DEF IdempotentInsert
    <3> QED
      BY <2>1, <2>2, <2>5, <2>6, <2>7, <3>1
  <2>8. CASE /\ Accepted(r) /\ items' = After(r) /\ call[r].op # "delete"
             /\ removals' = removals
    <3>1. Place(item) = 1 => Place(item)' = 1
      <4>1. At(KeyOf(item)) # {} => At(KeyOf(item))' # {}
        <5> DEFINE k == KeyOf(item)
        <5>1. KeyOf(item)' = k
          BY <1>1 DEF KeyOf
        <5>2. At(k) # {} => {i \in items' : KeyOf(i)' = k} # {}
          BY <1>1, <2>8, PlacesStayTaken DEF At
        <5> QED
          BY <5>1, <5>2 DEF At
      <4> QED
        BY <2>1, <4>1
    <3>2. CASE r \notin Inserted(item)'
      <4>1. Inserted(item)' \subseteq Inserted(item)
        BY <2>3, <3>2
      <4> QED
        BY <2>1, <2>2, <2>5, <2>6, <2>8, <3>1, <4>1
    <3>3. CASE r \in Inserted(item)'
      <4>1. /\ call[r].op = "insert" /\ call[r].item = item
            /\ resolve_insert_condition(r) = {schema.pk}
        BY <1>1, <2>4, <3>3 DEF Once, Steady, IdempotentInsert, resolve_insert_condition
      <4>2. \A i \in items : schema.pk \in DOMAIN i
        BY <1>1, SchemaAssumption DEF IInv, Keyed
      <4>3. At(KeyOf(item)) = {}
        BY <2>8, <4>1, <4>2 DEF Accepted, ConditionHolds, At
      <4>4. At(KeyOf(item))' # {}
        <5>1. KeyOf(With(item, r)) = KeyOf(item)
          BY <1>1, <2>8, <4>1, KeyOfWith DEF Accepted, Fits
        <5>2. With(item, r) \in items'
          BY <2>8, <4>1 DEF After
        <5>3. \A j : KeyOf(j)' = KeyOf(j)
          BY <1>1 DEF KeyOf
        <5> QED
          BY <5>1, <5>2, <5>3 DEF At
      <4>5. Cardinality(Inserted(item) \union {r}) <= Cardinality(Inserted(item)) + 1
        BY <2>2, FS_AddElement
      <4>6. /\ IsFiniteSet(Inserted(item) \union {r})
            /\ Cardinality(Inserted(item) \union {r}) \in Nat
        BY <2>2, FS_AddElement, FS_CardinalityType
      <4>7. Cardinality(Inserted(item)') <= Cardinality(Inserted(item) \union {r})
        BY <2>3, <4>6, FS_Subset
      <4> QED
        BY <2>1, <2>2, <2>6, <2>8, <4>3, <4>4, <4>5, <4>6, <4>7
    <3> QED
      BY <3>2, <3>3
  <2>9. CASE UNCHANGED <<items, removals>> /\ phase'[r] # "ok"
    <3>1. Inserted(item)' \subseteq Inserted(item)
      BY <2>3, <2>4, <2>9
    <3>2. Place(item)' = Place(item)
      BY <1>1, <2>9 DEF Place, At, KeyOf
    <3> QED
      BY <2>1, <2>2, <2>5, <2>6, <2>9, <3>1, <3>2
  <2> QED
    BY <2>2, <2>7, <2>8, <2>9, SendPlaces DEF IInv, Once
<1> QED
  BY <1>5, <1>6 DEF Counted

LEMMA OnceStep == IInv /\ Once /\ [Next]_vars => Once'
<1> SUFFICES ASSUME IInv, Once, [Next]_vars PROVE Once'
  OBVIOUS
<1>1. CASE DropTable
  BY <1>1 DEF DropTable, Once
<1>2. CASE CreateTable
  BY <1>2 DEF CreateTable, Once, Steady
<1>3. ASSUME NEW r \in Requests, Prepare(r) PROVE Once'
  BY <1>3, PrepareOnce DEF Prepare, Once
<1>4. ASSUME NEW r \in Requests, Send(r) PROVE Once'
  <2>1. drops' = drops /\ removals' \in Nat
    BY <1>4, SendPlaces DEF IInv, Once
  <2> QED
    BY <1>4, <2>1, SendOnce DEF Once
<1>5. CASE UNCHANGED vars
  <2>1. \A item : Inserted(item)' = Inserted(item) /\ Place(item)' = Place(item)
    BY <1>5 DEF vars, Inserted, IdempotentInsert, Defaulted, Place, At, KeyOf
  <2>2. Steady => Steady'
    BY <1>5 DEF vars, Steady, IdempotentInsert, Defaulted
  <2>3. Counted => Counted'
    BY <1>5, <2>1 DEF vars, Counted
  <2> QED
    BY <1>5, <2>2, <2>3 DEF vars, Once
<1> QED
  BY <1>1, <1>2, <1>3, <1>4, <1>5 DEF Next

\* Idempotent inserts of one item do not both succeed, unless it was deleted in
\* between, as long as the table is not dropped.
THEOREM InsertsSucceedOnce == Spec => []InsertedOnce
<1>1. Once => InsertedOnce
  <2> SUFFICES ASSUME Once, drops = 0, NEW r \in Requests
               PROVE  Cardinality(Inserted(call[r].item)) <= 1 + removals
    BY DEF InsertedOnce
  <2>1. Place(call[r].item) \in {0, 1}
    BY DEF Place
  <2> QED
    BY <2>1, InsertedFinite DEF Once, Counted
<1> QED
  BY <1>1, InvInit, InvStep, OnceInit, OnceStep, PTL DEF Spec
=============================================================================
