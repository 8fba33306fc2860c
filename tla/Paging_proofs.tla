---------------------------- MODULE Paging_proofs ----------------------------
(***************************************************************************)
(* Proofs about Paging, for every table, key type and bound.               *)
(*                                                                         *)
(* What is inductive relates the token to the rows received: the token of  *)
(* a reading that goes on names a position, every row received lies at or  *)
(* before it, and every steady item that was not received lies behind it.  *)
(* A token whose key type is lost names no position any more; it is never  *)
(* accepted, so nothing is read with it.  Of a SELECT whose pages are cut  *)
(* by a limit only the first two hold.                                     *)
(***************************************************************************)
EXTENDS Paging, FiniteSetTheorems, TLAPS

\* The token of an answer that ended at position l.
Token(l) ==
  IF mode = "partiql" THEN KeyAt(l) ELSE encode_last_key(KeyAt(l))

Types ==
  /\ table \in SUBSET Positions
  /\ steady \in SUBSET table
  /\ mode \in {"scan", "query", "partiql"}
  /\ <<mode, limit>> \in Requests
  /\ phase \in {"paging", "done", "stuck", "failed"}
  /\ received \in [Positions -> Nat]

Tokens == token = None \/ \E l \in Positions : token = Token(l)

\* The rows received lie at or before the position of the token.
Behind ==
  phase = "paging" =>
    \A p \in Positions : received[p] > 0 =>
      \E l \in Positions : token = Token(l) /\ p <= l

\* A steady item that was asked for and not received lies behind the position
\* of the token.
Ahead ==
  phase = "paging" =>
    \A p \in steady \intersect Wanted : received[p] = 0 /\ token # None =>
      \E l \in Positions : token = Token(l) /\ p > l

\* What holds whatever the host sends, and what holds of it when no request
\* cuts its pages.
PInv == Types /\ Tokens /\ NothingTwice /\ Behind
CInv == PInv /\ Ahead /\ NothingSkipped /\ HasMoreIsHonest

\* No SELECT is sent with a limit to cut its pages.
NoCap ==
  \A r \in Requests :
    r[1] = "partiql" => r[2] = NoLimit \/ (r[2] \in Int /\ r[2] < 0)

-----------------------------------------------------------------------------
(***************************************************************************)
(* Keys and tokens                                                         *)
(***************************************************************************)

\* A token is not empty, and keeps its position unless its type is lost.
LEMMA TokenFacts ==
  ASSUME NEW l \in Positions
  PROVE  /\ Token(l) # None
         /\ mode = "partiql" => StartOf(Token(l)) = l
         /\ mode # "partiql" /\ Valid(decode_pagination_token(Token(l)))
              => KeyType = "S"
         /\ mode # "partiql" /\ KeyType = "S"
              => StartOf(decode_pagination_token(Token(l))) = l
<1> l # 0 /\ l \in Nat
  BY PositionsAssumption
<1> DEFINE av == [type |-> KeyType, of |-> l]
<1>1. KeyAt(l) = {av}
  BY DEF KeyAt
<1>2. encode_last_key({av}) = {attribute_value_to_json(av)}
  BY DEF encode_last_key
<1>3. \A v : decode_pagination_token({v}) = {json_to_attribute_value(v)}
  BY DEF decode_pagination_token
<1>4. \A v : {v} # None /\ StartOf({v}) = v.of
  BY DEF StartOf, None
<1>5. CASE mode = "partiql"
  BY <1>1, <1>4, <1>5 DEF Token
<1>6. CASE mode # "partiql"
  <2> DEFINE v == attribute_value_to_json(av)
             w == json_to_attribute_value(v)
  <2>1. Token(l) = {v}
    BY <1>1, <1>2, <1>6 DEF Token
  <2>2. decode_pagination_token(Token(l)) = {w}
    BY <2>1, <1>3
  <2>3. w.type = "S" /\ (KeyType = "S" => w.of = l)
    BY DEF attribute_value_to_json, json_to_attribute_value
  <2>4. Valid({w}) => KeyType = "S"
    BY <2>3 DEF Valid
  <2> HIDE DEF v, w
  <2> QED
    BY <2>1, <2>2, <2>3, <2>4, <1>4, <1>6
<1> QED
  BY <1>5, <1>6

\* What an answer of DynamoDB tells: its items are the ones between the start
\* and the last, all of them when there is no last.
LEMMA AnswerFacts ==
  ASSUME NEW T \in SUBSET Positions, NEW start \in Nat, NEW bound,
         NEW items \in SUBSET T, NEW last \in T \union {0},
         Evaluates(T, start, bound, items, last)
  PROVE  /\ \A p \in items : p > start
         /\ last # 0 => /\ last \in Positions /\ last > start
                        /\ \A p \in items : p <= last
         /\ \A p \in T : p > start /\ p \notin items => last # 0 /\ p > last
<1> \A p \in T : p \in Nat \ {0}
  BY PositionsAssumption
<1> DEFINE rest == {p \in T : p > start}
<1>1. /\ items \subseteq rest
      /\ \A p \in items, q \in rest \ items : p < q
      /\ rest # items => last # 0
      /\ last # 0 => last \in items /\ \A p \in items : p <= last
  BY DEF Evaluates
<1>2. ASSUME NEW p \in T, p > start, p \notin items
      PROVE  last # 0 /\ p > last
  <2>1. p \in rest \ items
    BY <1>2
  <2>2. last # 0 /\ last \in items
    BY <2>1, <1>1
  <2> QED
    BY <2>1, <2>2, <1>1
<1> QED
  BY <1>1, <1>2

-----------------------------------------------------------------------------
(***************************************************************************)
(* One request                                                             *)
(***************************************************************************)

\* What a response that is not an error does.
LEMMA ReplyFacts ==
  ASSUME NEW items \in SUBSET Positions, NEW next, NEW cap,
         Reply(items, next, cap)
  PROVE  \E rows \in SUBSET items, capped \in BOOLEAN :
           /\ received' = [p \in Positions |->
                IF p \in rows THEN received[p] + 1 ELSE received[p]]
           /\ token' = next
           /\ phase' = IF next = None /\ ~capped THEN "done"
                       ELSE IF next = None THEN "stuck" ELSE "paging"
           /\ ~capped => rows = items
           /\ capped => cap # NoLimit /\ Cardinality(items) > cap
           /\ page' = page + 1
           /\ UNCHANGED <<table, mode, limit, steady>>
<1> DEFINE capped == cap # NoLimit /\ Cardinality(items) > cap
           rows == IF capped THEN Smallest(items, cap) ELSE items
<1>1. rows \in SUBSET items /\ capped \in BOOLEAN
  BY DEF Smallest
<1>2. \E size :
        Show(rows, next # None \/ capped, capped, size, next)
  BY DEF Reply
<1> HIDE DEF rows
<1>3. /\ received' = [p \in Positions |->
           IF p \in rows THEN received[p] + 1 ELSE received[p]]
      /\ token' = next
      /\ phase' = IF next = None /\ ~capped THEN "done"
                  ELSE IF next = None THEN "stuck" ELSE "paging"
      /\ page' = page + 1
      /\ UNCHANGED <<table, mode, limit, steady>>
  BY <1>2 DEF Show
<1>4. ~capped => rows = items
  BY DEF rows
<1> QED
  BY <1>1, <1>3, <1>4

\* A page read from start up to last: what a request does that is answered.
PageRead(start, items, last, rows, capped) ==
  /\ phase = "paging"
  /\ \A p \in items : p > start
  /\ last # 0 => /\ last \in Positions /\ last > start
                 /\ \A p \in items : p <= last
  /\ \A p \in table : p > start /\ p \notin items => last # 0 /\ p > last
  /\ token = None => start = 0
  /\ \A l \in Positions : token = Token(l) => start = l
  /\ received' = [p \in Positions |->
       IF p \in rows THEN received[p] + 1 ELSE received[p]]
  /\ token' = IF last = 0 THEN None ELSE Token(last)
  /\ phase' = IF last = 0 /\ ~capped THEN "done"
              ELSE IF last = 0 THEN "stuck" ELSE "paging"
  /\ ~capped => items \intersect Wanted \subseteq rows
  /\ NoCap => ~capped
  /\ page' = page + 1
  /\ UNCHANGED <<table, mode, limit, steady>>

\* A native request is answered from the position of its token or rejected.
LEMMA NativeFacts ==
  ASSUME Types, Tokens, ReadNative, phase' # "failed"
  PROVE  \E start \in Nat, items \in SUBSET table, last \in table \union {0},
            rows \in SUBSET Positions, capped \in BOOLEAN :
           rows \subseteq items /\ PageRead(start, items, last, rows, capped)
<1> DEFINE key == decode_pagination_token(token)
<1>1. phase = "paging" /\ mode # "partiql"
  BY DEF ReadNative, ReadFrom
<1>2. PICK items \in SUBSET table, last \in table \union {0} :
        /\ Valid(key)
        /\ Evaluates(table, StartOf(key), NativeLimit, items, last)
        /\ Reply(items, Encoded(items, last), NoLimit)
  BY DEF ReadNative, ReadFrom, Fail, Accepts
<1>3. /\ token = None => StartOf(key) = 0
      /\ \A l \in Positions : token = Token(l) => StartOf(key) = l
  <2>1. ASSUME token = None PROVE StartOf(key) = 0
    BY <2>1 DEF decode_pagination_token, StartOf, None
  <2>2. ASSUME NEW l \in Positions, token = Token(l) PROVE StartOf(key) = l
    BY <2>2, <1>1, <1>2, TokenFacts
  <2> QED
    BY <2>1, <2>2
<1>4. StartOf(key) \in Nat
  BY <1>3, PositionsAssumption DEF Tokens
<1>5. table \in SUBSET Positions
  BY DEF Types
<1>6. Encoded(items, last) = IF last = 0 THEN None ELSE Token(last)
  BY <1>1 DEF Encoded, Token, KeyAt, encode_last_key, None
<1>7. last # 0 => Token(last) # None
  BY <1>5, TokenFacts
<1>8. PICK rows \in SUBSET items, capped \in BOOLEAN :
        /\ received' = [p \in Positions |->
             IF p \in rows THEN received[p] + 1 ELSE received[p]]
        /\ token' = Encoded(items, last)
        /\ phase' = IF Encoded(items, last) = None /\ ~capped THEN "done"
                    ELSE IF Encoded(items, last) = None THEN "stuck"
                    ELSE "paging"
        /\ ~capped => rows = items
        /\ capped => NoLimit # NoLimit
        /\ page' = page + 1
        /\ UNCHANGED <<table, mode, limit, steady>>
  BY <1>2, <1>5, ReplyFacts
<1> HIDE DEF key
<1>9. /\ \A p \in items : p > StartOf(key)
      /\ last # 0 => /\ last \in Positions /\ last > StartOf(key)
                     /\ \A p \in items : p <= last
      /\ \A p \in table : p > StartOf(key) /\ p \notin items
           => last # 0 /\ p > last
  BY <1>2, <1>4, <1>5, AnswerFacts
<1>10. PageRead(StartOf(key), items, last, rows, capped)
  BY <1>1, <1>3, <1>6, <1>7, <1>8, <1>9 DEF PageRead
<1>11. rows \in SUBSET Positions /\ rows \subseteq items
  BY <1>5, <1>8
<1> QED
  BY <1>4, <1>10, <1>11

\* A SELECT is answered from the position of its token; no page is longer than
\* a negative limit.
LEMMA PartiqlFacts ==
  ASSUME Types, Tokens, ReadPartiql
  PROVE  \E start \in Nat, items \in SUBSET table, last \in table \union {0},
            rows \in SUBSET Positions, capped \in BOOLEAN :
           rows \subseteq items /\ PageRead(start, items, last, rows, capped)
<1>1. phase = "paging" /\ mode = "partiql"
  BY DEF ReadPartiql, Select
<1>2. PICK items \in SUBSET table, last \in table \union {0} :
        /\ Evaluates(table, StartOf(token), Unbounded, items, last)
        /\ Reply(items \intersect Matching, KeyAt(last), EffectiveLimit)
  BY DEF ReadPartiql, Select
<1>3. /\ token = None => StartOf(token) = 0
      /\ \A l \in Positions : token = Token(l) => StartOf(token) = l
  BY <1>1, TokenFacts DEF StartOf
<1>4. StartOf(token) \in Nat
  BY <1>3, PositionsAssumption DEF Tokens
<1>5. table \in SUBSET Positions
  BY DEF Types
<1>6. KeyAt(last) = IF last = 0 THEN None ELSE Token(last)
  BY <1>1 DEF Token, KeyAt
<1>7. last # 0 => Token(last) # None
  BY <1>5, TokenFacts
<1> DEFINE start == StartOf(token)
<1>8. /\ \A p \in items : p > start
      /\ last # 0 => /\ last \in Positions /\ last > start
                     /\ \A p \in items : p <= last
      /\ \A p \in table : p > start /\ p \notin items => last # 0 /\ p > last
  <2>1. start \in Nat /\ Evaluates(table, start, Unbounded, items, last)
    BY <1>2, <1>4
  <2> HIDE DEF start
  <2> QED
    BY <2>1, <1>5, AnswerFacts
<1> DEFINE shown == items \intersect Matching
<1>9. shown \in SUBSET Positions
  BY <1>5
<1>10. PICK rows \in SUBSET shown, capped \in BOOLEAN :
        /\ received' = [p \in Positions |->
             IF p \in rows THEN received[p] + 1 ELSE received[p]]
        /\ token' = KeyAt(last)
        /\ phase' = IF KeyAt(last) = None /\ ~capped THEN "done"
                    ELSE IF KeyAt(last) = None THEN "stuck" ELSE "paging"
        /\ ~capped => rows = shown
        /\ capped => /\ EffectiveLimit # NoLimit
                     /\ Cardinality(shown) > EffectiveLimit
        /\ page' = page + 1
        /\ UNCHANGED <<table, mode, limit, steady>>
  BY <1>2, <1>9, ReplyFacts
<1>11. NoCap => ~capped
  <2>1. SUFFICES ASSUME NoCap, capped PROVE FALSE
    OBVIOUS
  <2>2. limit = NoLimit \/ (limit \in Int /\ limit < 0)
    BY <1>1, <2>1 DEF NoCap, Types
  <2>3. limit # NoLimit
    BY <1>10, <2>1 DEF EffectiveLimit
  <2>4. EffectiveLimit = Cardinality(Positions)
    BY <2>2, <2>3 DEF EffectiveLimit, Unbounded
  <2>5. /\ Cardinality(shown) <= Cardinality(Positions)
        /\ Cardinality(shown) \in Nat /\ Cardinality(Positions) \in Nat
    BY <1>9, PositionsAssumption, FS_Subset, FS_CardinalityType
  <2> QED
    BY <1>10, <2>1, <2>4, <2>5
<1>12. Wanted = Matching
  BY <1>1 DEF Wanted
<1>13. PageRead(StartOf(token), items, last, rows, capped)
  BY <1>1, <1>3, <1>6, <1>7, <1>8, <1>10, <1>11, <1>12 DEF PageRead
<1>14. rows \in SUBSET Positions /\ rows \subseteq items
  BY <1>9, <1>10
<1> QED
  BY <1>4, <1>13, <1>14

-----------------------------------------------------------------------------
(***************************************************************************)
(* The invariants                                                          *)
(***************************************************************************)

LEMMA InvInit == Init => CInv
<1> SUFFICES ASSUME Init PROVE CInv
  OBVIOUS
<1>1. Types
  BY RequestAssumption DEF Init, Types
<1>2. Tokens /\ NothingTwice /\ Behind
  BY DEF Init, Tokens, NothingTwice, Behind
<1>3. Ahead /\ NothingSkipped /\ HasMoreIsHonest
  BY DEF Init, Ahead, NothingSkipped, HasMoreIsHonest
<1> QED
  BY <1>1, <1>2, <1>3 DEF CInv, PInv

\* A page preserves what relates the token to the rows.
LEMMA PageInv ==
  ASSUME PInv,
         NEW start \in Nat, NEW items \in SUBSET table,
         NEW last \in table \union {0}, NEW rows \in SUBSET Positions,
         NEW capped \in BOOLEAN, rows \subseteq items,
         PageRead(start, items, last, rows, capped)
  PROVE  PInv'
<1> USE DEF PInv
<1>1. Types'
  BY DEF Types, PageRead
<1>2. \A l : Token(l)' = Token(l)
  BY DEF PageRead, Token
<1>3. Tokens'
  BY <1>2 DEF PageRead, Tokens
<1>4. \A p \in Positions : received[p] \in Nat /\ p \in Nat \ {0}
  BY PositionsAssumption DEF Types
<1>5. \A p \in Positions : received[p] > 0 => p <= start
  <2> SUFFICES ASSUME NEW p \in Positions, received[p] > 0 PROVE p <= start
    OBVIOUS
  <2>1. PICK l \in Positions : token = Token(l) /\ p <= l
    BY DEF Behind, PageRead
  <2> QED
    BY <2>1 DEF PageRead
<1>6. \A p \in Positions :
        received'[p] = IF p \in rows THEN received[p] + 1 ELSE received[p]
  BY DEF PageRead
<1>7. \A p \in rows : p > start
  BY DEF PageRead
<1>8. NothingTwice'
  <2> SUFFICES ASSUME NEW p \in Positions PROVE received'[p] <= 1
    BY DEF NothingTwice
  <2>1. CASE p \in rows
    <3>1. ~(received[p] > 0)
      BY <1>4, <1>5, <1>7, <2>1
    <3> QED
      BY <1>4, <1>6, <2>1, <3>1
  <2>2. CASE p \notin rows
    BY <1>6, <2>2 DEF NothingTwice
  <2> QED
    BY <2>1, <2>2
<1>9. Behind'
  <2> SUFFICES ASSUME phase' = "paging", NEW p \in Positions, received'[p] > 0
               PROVE  \E l \in Positions : token' = Token(l)' /\ p <= l
    BY DEF Behind
  <2>1. last # 0
    BY DEF PageRead
  <2>2. last \in Positions /\ token' = Token(last) /\ last > start
    BY <2>1 DEF PageRead
  <2>3. p <= last
    <3>1. CASE p \in rows
      BY <2>1, <3>1 DEF PageRead
    <3>2. CASE p \notin rows
      <4>1. received[p] > 0
        BY <1>6, <3>2
      <4>2. p <= start /\ p \in Nat /\ last \in Nat
        BY <1>4, <1>5, <2>2, <4>1
      <4> QED
        BY <2>2, <4>2
    <3> QED
      BY <3>1, <3>2
  <2> QED
    BY <1>2, <2>2, <2>3
<1> QED
  BY <1>1, <1>3, <1>8, <1>9

\* A page that is not cut leaves out no row behind its start.
LEMMA PageComplete ==
  ASSUME CInv, NoCap,
         NEW start \in Nat, NEW items \in SUBSET table,
         NEW last \in table \union {0}, NEW rows \in SUBSET Positions,
         NEW capped \in BOOLEAN, rows \subseteq items,
         PageRead(start, items, last, rows, capped)
  PROVE  Ahead' /\ NothingSkipped' /\ HasMoreIsHonest'
<1> USE DEF CInv, PInv
<1>1. ~capped
  BY DEF PageRead
<1>2. /\ \A l : Token(l)' = Token(l)
      /\ Wanted' = Wanted /\ steady' = steady
  BY DEF PageRead, Token, Wanted
<1>3. steady \subseteq table /\ table \subseteq Positions
  BY DEF Types
<1>4. \A p \in Positions :
        /\ received[p] \in Nat
        /\ received'[p] = IF p \in rows THEN received[p] + 1 ELSE received[p]
  BY DEF PageRead, Types
\* A steady item without its row lies behind the last item of the page.
<1>5. ASSUME NEW p \in steady \intersect Wanted, received'[p] = 0
      PROVE  last # 0 /\ p > last
  <2>1. p \in table /\ p \in Positions /\ p \in Nat \ {0}
    BY <1>3, PositionsAssumption
  <2>2. p \notin rows /\ received[p] = 0
    BY <1>4, <1>5, <2>1
  <2>3. p \notin items
    BY <1>1, <2>2 DEF PageRead
  <2>4. p > start
    <3>1. CASE token = None
      BY <2>1, <3>1 DEF PageRead
    <3>2. CASE token # None
      BY <2>2, <3>2 DEF PageRead, Ahead
    <3> QED
      BY <3>1, <3>2
  <2> QED
    BY <2>1, <2>3, <2>4 DEF PageRead
<1>6. Ahead'
  BY <1>2, <1>5 DEF Ahead, PageRead
<1>7. NothingSkipped'
  <2> SUFFICES ASSUME phase' = "done", NEW p \in steady \intersect Wanted
               PROVE  received'[p] > 0
    BY <1>2 DEF NothingSkipped
  <2>1. last = 0
    BY DEF PageRead
  <2>2. received'[p] # 0
    BY <1>5, <2>1
  <2>3. received'[p] \in Nat
    BY <1>3, <1>4
  <2> QED
    BY <2>2, <2>3
<1>8. HasMoreIsHonest'
  BY <1>1 DEF PageRead, HasMoreIsHonest
<1> QED
  BY <1>6, <1>7, <1>8

\* What other clients do, and a failure, leave the reading where it is.
LEMMA OtherSteps ==
  ASSUME Types,
         \/ Others
         \/ CallFails
         \/ ReadNative /\ phase' = "failed"
         \/ UNCHANGED vars
  PROVE  /\ Types'
         /\ UNCHANGED <<mode, received, token, page>>
         /\ steady' \subseteq steady
         /\ phase' = phase \/ phase' = "failed"
<1>1. ASSUME NEW p \in Positions, InsertItem(p) \/ DeleteItem(p)
      PROVE  /\ Types'
             /\ UNCHANGED <<mode, received, token, page, phase>>
             /\ steady' \subseteq steady
  BY <1>1 DEF InsertItem, DeleteItem, Types
<1>2. CASE CallFails
  BY <1>2 DEF CallFails, Fail, Types
<1>3. CASE ReadNative /\ phase' = "failed"
  <2>1. Fail
    BY <1>3 DEF ReadNative, ReadFrom, Reply, Show
  <2> QED
    BY <2>1 DEF Fail, Types
<1>4. CASE UNCHANGED vars
  BY <1>4 DEF vars, Types
<1> QED
  BY <1>1, <1>2, <1>3, <1>4 DEF Others

LEMMA OtherInv ==
  ASSUME PInv, Types', UNCHANGED <<mode, received, token>>,
         steady' \subseteq steady, phase' = phase \/ phase' = "failed"
  PROVE  PInv' /\ (CInv => CInv')
<1>1. /\ \A l : Token(l)' = Token(l)
      /\ Wanted' = Wanted
  BY DEF Token, Wanted
<1>2. Tokens' /\ NothingTwice' /\ Behind'
  BY <1>1 DEF PInv, Tokens, NothingTwice, Behind
<1>3. CInv => Ahead' /\ NothingSkipped' /\ HasMoreIsHonest'
  BY <1>1 DEF CInv, Ahead, NothingSkipped, HasMoreIsHonest
<1> QED
  BY <1>2, <1>3 DEF PInv, CInv

\* Every step is a page or leaves the reading where it is.
LEMMA InvStep ==
  ASSUME PInv, [Next]_vars
  PROVE  PInv' /\ (NoCap /\ CInv => CInv')
<1>1. CASE /\ ReadPartiql \/ ReadNative
           /\ ReadPartiql \/ phase' # "failed"
  <2>1. PICK start \in Nat, items \in SUBSET table, last \in table \union {0},
             rows \in SUBSET Positions, capped \in BOOLEAN :
          rows \subseteq items /\ PageRead(start, items, last, rows, capped)
    BY <1>1, PartiqlFacts, NativeFacts DEF PInv
  <2>2. PInv'
    BY <2>1, PageInv
  <2>3. NoCap /\ CInv => Ahead' /\ NothingSkipped' /\ HasMoreIsHonest'
    BY <2>1, PageComplete
  <2> QED
    BY <2>2, <2>3 DEF CInv
<1>2. CASE \/ Others \/ CallFails
           \/ ReadNative /\ phase' = "failed"
           \/ UNCHANGED vars
  BY <1>2, OtherSteps, OtherInv DEF PInv
<1> QED
  BY <1>1, <1>2 DEF Next, Read

-----------------------------------------------------------------------------
(***************************************************************************)
(* Sizes of pages and tokens                                               *)
(***************************************************************************)

\* What TypeOK says beyond Types and Tokens.
Sizes ==
  /\ changes \in 0..MaxChanges
  /\ page \in Nat \ {0}
  /\ response.rows \in SUBSET Positions
  /\ Cardinality(response.rows) <= response.page_size

\* A set cut to its n smallest members has at most n.
LEMMA SmallestFacts ==
  ASSUME NEW S \in SUBSET Positions, NEW n \in Nat
  PROVE  Smallest(S, n) \subseteq S /\ Cardinality(Smallest(S, n)) <= n
<1> DEFINE T == Smallest(S, n)
           Below(p) == {q \in S : q < p}
           place == [p \in T |-> Cardinality(Below(p))]
<1>1. T \subseteq S /\ S \subseteq Nat /\ IsFiniteSet(S) /\ IsFiniteSet(T)
  <2>1. T \subseteq S
    BY DEF Smallest
  <2>2. IsFiniteSet(S)
    BY PositionsAssumption, FS_Subset
  <2> HIDE DEF T
  <2> QED
    BY <2>1, <2>2, PositionsAssumption, FS_Subset
<1>2. ASSUME NEW p \in S
      PROVE  /\ Below(p) \subseteq S /\ IsFiniteSet(Below(p))
             /\ Cardinality(Below(p)) \in Nat
  <2>1. Below(p) \subseteq S
    OBVIOUS
  <2> HIDE DEF Below
  <2> QED
    BY <2>1, <1>1, FS_Subset, FS_CardinalityType
<1>3. \A p \in T : Cardinality(Below(p)) < n
  BY DEF Smallest
<1>4. ASSUME NEW p \in S, NEW q \in S, p < q
      PROVE  Cardinality(Below(p)) # Cardinality(Below(q))
  <2>1. Below(p) \subseteq Below(q) /\ p \in Below(q) /\ p \notin Below(p)
    <3>1. p \in Int /\ q \in Int /\ \A r \in S : r \in Int
      BY <1>1
    <3>2. ~(p < p)
      BY <3>1
    <3>3. \A r \in S : r < p => r < q
      BY <3>1, <1>4
    <3> QED
      BY <3>2, <3>3, <1>4
  <2>2. IsFiniteSet(Below(q))
    BY <1>2
  <2> HIDE DEF Below
  <2> QED
    BY <2>1, <2>2, FS_Subset
<1> HIDE DEF T, Below
<1>5. IsFiniteSet(0..(n - 1)) /\ Cardinality(0..(n - 1)) = n
  BY FS_Interval
<1>6. place \in [T -> 0..(n - 1)]
  <2>1. \A p \in T : Cardinality(Below(p)) \in 0..(n - 1)
    BY <1>1, <1>2, <1>3
  <2> QED
    BY <2>1
<1>7. \A p, q \in T : place[p] = place[q] => p = q
  <2> SUFFICES ASSUME NEW p \in T, NEW q \in T, p # q
               PROVE  Cardinality(Below(p)) # Cardinality(Below(q))
    OBVIOUS
  <2>1. p < q \/ q < p
    BY <1>1
  <2> QED
    BY <2>1, <1>1, <1>4
<1> HIDE DEF place
<1>8. ~(Cardinality(0..(n - 1)) < Cardinality(T))
  <2> DEFINE U == 0..(n - 1)
  <2>1. IsFiniteSet(U) /\ place \in [T -> U]
    BY <1>5, <1>6
  <2> HIDE DEF U
  <2> SUFFICES ASSUME Cardinality(U) < Cardinality(T) PROVE FALSE
    BY DEF U
  <2>2. \E x, y \in T : x # y /\ place[x] = place[y]
    BY <2>1, <1>1, FS_PigeonHole
  <2> QED
    BY <2>2, <1>7
<1>9. Cardinality(T) \in Nat
  BY <1>1, FS_CardinalityType
<1> QED
  BY <1>1, <1>5, <1>8, <1>9 DEF T

\* A response has no more rows than its page_size, with a cap or without.
LEMMA ReplySizes ==
  ASSUME Sizes, NEW items \in SUBSET Positions, NEW next,
         NEW cap, cap # NoLimit => cap \in Nat,
         Reply(items, next, cap)
  PROVE  Sizes'
<1> DEFINE capped == cap # NoLimit /\ Cardinality(items) > cap
           rows == IF capped THEN Smallest(items, cap) ELSE items
           size == IF cap = NoLimit THEN Cardinality(rows) ELSE cap
<1>1. Cardinality(items) \in Nat
  BY PositionsAssumption, FS_Subset, FS_CardinalityType
<1>2. rows \subseteq Positions
  BY SmallestFacts
<1>3. Cardinality(rows) \in Nat
  <2> HIDE DEF rows
  <2> QED
    BY <1>2, PositionsAssumption, FS_Subset, FS_CardinalityType
<1>4. Cardinality(rows) <= size
  <2>1. CASE capped
    <3>1. Cardinality(Smallest(items, cap)) <= cap
      BY <2>1, SmallestFacts
    <3>2. rows = Smallest(items, cap) /\ size = cap
      BY <2>1
    <3> HIDE DEF rows, size
    <3> QED
      BY <3>1, <3>2
  <2>2. CASE cap = NoLimit
    <3>1. size = Cardinality(rows)
      BY <2>2
    <3> HIDE DEF rows, size
    <3> QED
      BY <3>1, <1>3
  <2>3. CASE cap # NoLimit /\ ~capped
    BY <1>1, <2>3
  <2> QED
    BY <2>1, <2>2, <2>3
<1>5. Show(rows, next # None \/ capped, capped, size, next)
  BY DEF Reply
<1> HIDE DEF rows, size, capped
<1>6. /\ response'.rows = rows /\ response'.page_size = size
      /\ page' = page + 1 /\ changes' = changes
  BY <1>5 DEF Show
<1> QED
  BY <1>2, <1>4, <1>6 DEF Sizes

LEMMA SizesInit == Init => Sizes
<1>1. Cardinality({}) = 0
  BY FS_EmptySet
<1>2. /\ EmptyResponse.rows = {} /\ EmptyResponse.page_size = 0
  BY DEF EmptyResponse
<1>3. Cardinality(EmptyResponse.rows) <= EmptyResponse.page_size
  <2>1. Cardinality(EmptyResponse.rows) = 0
    BY <1>1, <1>2, Zenon
  <2> QED
    BY <2>1, <1>2
<1>4. EmptyResponse.rows \in SUBSET Positions
  BY <1>2
<1> HIDE DEF EmptyResponse
<1> QED
  BY <1>3, <1>4, RequestAssumption DEF Init, Sizes

\* The client-side cap of a SELECT, when there is one, is a number.
LEMMA CapIsANumber ==
  ASSUME Types PROVE EffectiveLimit # NoLimit => EffectiveLimit \in Nat
<1>1. limit \in Int \union {NoLimit}
  BY RequestAssumption DEF Types
<1>2. Unbounded \in Nat
  BY PositionsAssumption, FS_CardinalityType DEF Unbounded
<1> QED
  BY <1>1, <1>2 DEF EffectiveLimit

LEMMA SizesStep ==
  ASSUME PInv, Sizes, [Next]_vars
  PROVE  Sizes'
<1>1. ASSUME NEW p \in Positions, InsertItem(p) \/ DeleteItem(p)
      PROVE  Sizes'
  <2>1. /\ changes < MaxChanges /\ changes' = changes + 1
        /\ UNCHANGED <<page, response>>
    BY <1>1 DEF InsertItem, DeleteItem
  <2> QED
    BY <2>1, RequestAssumption DEF Sizes
<1>2. CASE Fail \/ UNCHANGED vars
  BY <1>2 DEF Fail, vars, Sizes
<1>3. table \in SUBSET Positions
  BY DEF PInv, Types
<1>4. CASE ReadNative
  <2>1. CASE \E items \in SUBSET table : \E next : Reply(items, next, NoLimit)
    BY <2>1, <1>3, ReplySizes
  <2>2. CASE Fail
    BY <2>2, <1>2
  <2> QED
    BY <1>4, <2>1, <2>2 DEF ReadNative, ReadFrom
<1>5. CASE ReadPartiql
  <2>1. PICK items \in SUBSET table : \E next :
          Reply(items \intersect Matching, next, EffectiveLimit)
    BY <1>5 DEF ReadPartiql, Select
  <2>2. items \intersect Matching \in SUBSET Positions
    BY <1>3
  <2>3. EffectiveLimit # NoLimit => EffectiveLimit \in Nat
    BY CapIsANumber DEF PInv
  <2> QED
    BY <2>1, <2>2, <2>3, ReplySizes
<1> QED
  BY <1>1, <1>2, <1>4, <1>5 DEF Next, Others, Read, CallFails

\* A token holds the one attribute of the key, or nothing.
LEMMA TokenSize == Tokens => Cardinality(token) <= 1
<1> SUFFICES ASSUME Tokens PROVE Cardinality(token) <= 1
  OBVIOUS
<1>1. Cardinality({}) = 0 /\ \A v : Cardinality({v}) = 1
  BY FS_EmptySet, FS_Singleton
<1>2. token = {} \/ \E v : token = {v}
  <2> SUFFICES ASSUME NEW l \in Positions PROVE \E v : Token(l) = {v}
    BY DEF Tokens, None
  <2> DEFINE av == [type |-> KeyType, of |-> l]
  <2>1. KeyAt(l) = {av}
    BY PositionsAssumption DEF KeyAt
  <2>2. encode_last_key({av}) = {attribute_value_to_json(av)}
    BY DEF encode_last_key
  <2> QED
    BY <2>1, <2>2 DEF Token
<1>3. Cardinality(token) = 0 \/ Cardinality(token) = 1
  BY <1>1, <1>2, Zenon
<1> QED
  BY <1>3

\* A string key comes back from its token with its type, and a decoded token
\* that DynamoDB takes had one.
LEMMA DecodedTokens ==
  ASSUME Tokens, mode # "partiql"
  PROVE  /\ KeyType = "S" => Valid(decode_pagination_token(token))
         /\ KeyType # "S" /\ token # None
              => ~Valid(decode_pagination_token(token))
<1>1. CASE token = None
  BY <1>1 DEF None, decode_pagination_token, Valid
<1>2. CASE token # None
  <2>1. PICK l \in Positions : token = Token(l)
    BY <1>2 DEF Tokens
  <2>2. Valid(decode_pagination_token(token)) => KeyType = "S"
    BY <2>1, TokenFacts
  <2>3. \A w \in decode_pagination_token(token) : w.type = "S"
    BY DEF decode_pagination_token, json_to_attribute_value
  <2> QED
    BY <2>2, <2>3 DEF Valid
<1> QED
  BY <1>1, <1>2

-----------------------------------------------------------------------------
(***************************************************************************)
(* How long a reading can be                                               *)
(***************************************************************************)
Reached(l) == {p \in Positions : p <= l}

\* The pages read are at most as many as the positions up to the token's.
\* The last response needs none for itself: it may be an empty page.
Moving ==
  /\ page \in Nat \ {0}
  /\ phase = "paging" /\ page # 1 =>
       \E l \in Positions : token = Token(l) /\ page <= Cardinality(Reached(l)) + 1

\* A reading has been answered at most once for each position and once more.
FewPages == page <= Cardinality(Positions) + 2

LEMMA ReachedFacts ==
  ASSUME NEW l \in Positions
  PROVE  /\ Cardinality(Reached(l)) \in Nat /\ Cardinality(Positions) \in Nat
         /\ 1 <= Cardinality(Reached(l))
         /\ Cardinality(Reached(l)) <= Cardinality(Positions)
         /\ \A k \in Positions :
              k < l => Cardinality(Reached(k)) < Cardinality(Reached(l))
<1>1. \A k : Reached(k) \subseteq Positions
  BY DEF Reached
<1>2. \A k \in Positions : k \in Nat \ {0}
  BY PositionsAssumption
<1>3. /\ IsFiniteSet(Positions) /\ \A k : IsFiniteSet(Reached(k))
      /\ Cardinality(Positions) \in Nat
      /\ \A k : Cardinality(Reached(k)) \in Nat
  BY <1>1, PositionsAssumption, FS_Subset, FS_CardinalityType
<1>4. Cardinality(Reached(l)) <= Cardinality(Positions)
  BY <1>1, <1>3, FS_Subset
<1>5. l \in Reached(l)
  BY <1>2 DEF Reached
<1>6. Cardinality(Reached(l)) # 0
  BY <1>3, <1>5, FS_EmptySet
<1>7. ASSUME NEW k \in Positions, k < l
      PROVE  Cardinality(Reached(k)) < Cardinality(Reached(l))
  <2>1. Reached(k) \subseteq Reached(l) /\ l \notin Reached(k)
    BY <1>2, <1>7 DEF Reached
  <2>2. Reached(k) # Reached(l)
    BY <1>5, <2>1
  <2> QED
    BY <1>3, <2>1, <2>2, FS_Subset
<1> QED
  BY <1>3, <1>4, <1>6, <1>7

\* A page that offers another one has moved its token forward.
LEMMA PageMoves ==
  ASSUME Moving, FewPages, Tokens,
         NEW start \in Nat, NEW items \in SUBSET table,
         NEW last \in table \union {0}, NEW rows \in SUBSET Positions,
         NEW capped \in BOOLEAN,
         PageRead(start, items, last, rows, capped)
  PROVE  Moving' /\ FewPages'
<1>1. \A l : Token(l)' = Token(l)
  BY DEF PageRead, Token
<1>2. phase = "paging" /\ page \in Nat \ {0} /\ page' = page + 1
  BY DEF PageRead, Moving
<1>3. Cardinality(Positions) \in Nat
  BY PositionsAssumption, FS_CardinalityType
<1>4. CASE page = 1
  <2>1. FewPages'
    BY <1>2, <1>3, <1>4 DEF FewPages
  <2>2. ASSUME phase' = "paging"
        PROVE  \E l \in Positions :
                 token' = Token(l) /\ page' <= Cardinality(Reached(l)) + 1
    <3>1. last \in Positions /\ token' = Token(last)
      BY <2>2 DEF PageRead
    <3> QED
      BY <1>2, <1>4, <3>1, ReachedFacts
  <2> QED
    BY <1>1, <1>2, <2>1, <2>2 DEF Moving, Reached
<1>5. CASE page # 1
  <2>1. PICK l \in Positions :
               token = Token(l) /\ page <= Cardinality(Reached(l)) + 1
    BY <1>2, <1>5 DEF Moving
  <2>2. start = l
    BY <2>1 DEF PageRead
  <2>3. /\ Cardinality(Reached(l)) \in Nat
        /\ Cardinality(Reached(l)) <= Cardinality(Positions)
    BY ReachedFacts
  <2>4. FewPages'
    BY <1>2, <1>3, <2>1, <2>3 DEF FewPages
  <2>5. ASSUME phase' = "paging"
        PROVE  \E k \in Positions :
                 token' = Token(k) /\ page' <= Cardinality(Reached(k)) + 1
    <3>1. last \in Positions /\ token' = Token(last) /\ l < last
      BY <2>2, <2>5 DEF PageRead
    <3>2. /\ Cardinality(Reached(last)) \in Nat
          /\ Cardinality(Reached(l)) < Cardinality(Reached(last))
      BY <3>1, ReachedFacts
    <3> QED
      BY <1>2, <2>1, <2>3, <3>1, <3>2
  <2> QED
    BY <1>1, <1>2, <2>4, <2>5 DEF Moving, Reached
<1> QED
  BY <1>4, <1>5

LEMMA MovingStep ==
  ASSUME PInv, Moving, FewPages, [Next]_vars
  PROVE  Moving' /\ FewPages'
<1>1. CASE /\ ReadPartiql \/ ReadNative
           /\ ReadPartiql \/ phase' # "failed"
  <2>1. PICK start \in Nat, items \in SUBSET table, last \in table \union {0},
             rows \in SUBSET Positions, capped \in BOOLEAN :
          rows \subseteq items /\ PageRead(start, items, last, rows, capped)
    BY <1>1, PartiqlFacts, NativeFacts DEF PInv
  <2> QED
    BY <2>1, PageMoves DEF PInv
<1>2. CASE \/ Others \/ CallFails
           \/ ReadNative /\ phase' = "failed"
           \/ UNCHANGED vars
  <2>1. /\ UNCHANGED <<mode, token, page>>
        /\ phase' = phase \/ phase' = "failed"
    BY <1>2, OtherSteps DEF PInv
  <2>2. \A l : Token(l)' = Token(l) /\ Reached(l)' = Reached(l)
    BY <2>1 DEF Token, Reached
  <2> QED
    BY <2>1, <2>2 DEF Moving, FewPages
<1> QED
  BY <1>1, <1>2 DEF Next, Read

-----------------------------------------------------------------------------
(***************************************************************************)
(* The theorems                                                            *)
(***************************************************************************)

\* No row comes twice, in any mode, with any limit, for any key type and
\* whatever other clients do.
THEOREM RowsComeOnce == Spec => []NothingTwice
<1>1. Init => PInv
  BY InvInit DEF CInv
<1>2. PInv /\ [Next]_vars => PInv'
  BY InvStep
<1>3. PInv => NothingTwice
  BY DEF PInv
<1> QED
  BY <1>1, <1>2, <1>3, PTL DEF Spec

\* If no SELECT is sent with a limit, a reading that is over has every steady
\* row, and has_more never stands without a token.
THEOREM ReadingIsComplete ==
  ASSUME NoCap PROVE Spec => [](NothingSkipped /\ HasMoreIsHonest)
<1>1. Init => CInv
  BY InvInit
<1>2. CInv /\ [Next]_vars => CInv'
  BY NoCap, InvStep DEF CInv
<1>3. CInv => NothingSkipped /\ HasMoreIsHonest
  BY DEF CInv
<1> QED
  BY <1>1, <1>2, <1>3, PTL DEF Spec

\* The variables have their types, a token is one key, and no page has more
\* rows than its page_size says, whatever the limit (query.rs:77-93, 646-681).
THEOREM TypeCorrect == Spec => []TypeOK
<1>1. Init => PInv /\ Sizes
  BY InvInit, SizesInit DEF CInv
<1>2. PInv /\ Sizes /\ [Next]_vars => (PInv /\ Sizes)'
  BY InvStep, SizesStep
<1>3. PInv /\ Sizes => TypeOK
  BY TokenSize DEF PInv, Types, Sizes, TypeOK
<1> QED
  BY <1>1, <1>2, <1>3, PTL DEF Spec

\* Of a table whose key is a string every token is accepted with the next
\* request, whatever other clients do (dynamodb/models.rs:162-240).
THEOREM StringTokensResume ==
  ASSUME KeyType = "S" PROVE Spec => []TokensResume
<1>1. Init => PInv
  BY InvInit DEF CInv
<1>2. PInv /\ [Next]_vars => PInv'
  BY InvStep
<1>3. PInv => TokensResume
  BY KeyType = "S", DecodedTokens DEF PInv, TokensResume, Accepts
<1> QED
  BY <1>1, <1>2, <1>3, PTL DEF Spec

\* Of any other table no token of a native read is ever accepted: such a
\* reading has at most one page (dynamodb/models.rs:162-240).
NoSecondPage ==
  mode # "partiql" /\ token # None => ~Accepts(decode_pagination_token(token))

THEOREM OtherTokensNeverResume ==
  ASSUME KeyType # "S" PROVE Spec => []NoSecondPage
<1>1. Init => PInv
  BY InvInit DEF CInv
<1>2. PInv /\ [Next]_vars => PInv'
  BY InvStep
<1>3. PInv => NoSecondPage
  BY KeyType # "S", DecodedTokens DEF PInv, NoSecondPage, Accepts
<1> QED
  BY <1>1, <1>2, <1>3, PTL DEF Spec

\* A host that follows the tokens has at most one answer for each position
\* items can be at and one more, in every mode, with any limit and type of key
\* and whatever others insert behind the page: a reading cannot go on for ever
\* (query.rs:647-681).
THEOREM ReadingsAreBounded == Spec => []FewPages
<1>1. Init => PInv /\ Moving /\ FewPages
  <2>1. Cardinality(Positions) \in Nat
    BY PositionsAssumption, FS_CardinalityType
  <2> QED
    BY <2>1, InvInit DEF CInv, Init, Moving, FewPages
<1>2. PInv /\ Moving /\ FewPages /\ [Next]_vars => (PInv /\ Moving /\ FewPages)'
  BY InvStep, MovingStep
<1> QED
  BY <1>1, <1>2, PTL DEF Spec
=============================================================================
