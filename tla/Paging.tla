------------------------------- MODULE Paging -------------------------------
(***************************************************************************)
(* A host that reads a table page by page with execute_query               *)
(* (handlers/query.rs): #!scan, #!query, or a PartiQL SELECT.  Each request *)
(* is one DynamoDB call; between the requests other clients insert and      *)
(* delete items.  What carries the reading from one request to the next is  *)
(* the token of the last response: DynamoDB's own for PartiQL, the          *)
(* LastEvaluatedKey in another form for the native calls.  A row is the     *)
(* item it shows.                                                          *)
(***************************************************************************)
EXTENDS TableReads

CONSTANTS
  Positions,    \* where items can be
  Matching,     \* items the WHERE clause of the SELECT selects
  MaxScanItems, \* Client::MAX_SCAN_ITEMS
  Requests,     \* the modes the host reads in, each with the limit it sends
  NoLimit,
  MaxChanges    \* bound: inserts and deletes during the reading

ASSUME PositionsAssumption ==
  /\ Positions \subseteq Nat \ {0}
  /\ IsFiniteSet(Positions)
  /\ Matching \subseteq Positions

ASSUME RequestAssumption ==
  /\ Requests \subseteq {"scan", "query", "partiql"}
                   \X (Int \union {NoLimit})
  /\ MaxScanItems \in Nat \ {0}
  /\ MaxChanges \in Nat

VARIABLES
  table,      \* the items there are
  changes,    \* how often it has changed
  mode,       \* the mode the host reads in
  limit,      \* the limit it sends
  phase,      \* "paging", "done": has_more is false, "stuck": there is more
              \* but no token to ask with, "failed"
  page,       \* the page it asks for
  token,      \* the token it sends: the last response's, or the empty set
  received,   \* how often it received the row of each item
  response,   \* the last response
  steady      \* history: the items that were there all along

vars == <<table, changes, mode, limit, phase, page, token, received, response,
          steady>>

Wanted == IF mode = "partiql" THEN Matching ELSE Positions

EmptyResponse ==
  [rows |-> {}, has_more |-> FALSE, truncated |-> FALSE, page_size |-> 0,
   page |-> 0]

Init ==
  /\ table \in SUBSET Positions
  /\ changes = 0
  /\ \E r \in Requests : mode = r[1] /\ limit = r[2]
  /\ phase = "paging"
  /\ page = 1
  /\ token = None
  /\ received = [p \in Positions |-> 0]
  /\ response = EmptyResponse
  /\ steady = table

(***************************************************************************)
(* Other clients of the table                                              *)
(***************************************************************************)
InsertItem(p) ==
  /\ changes < MaxChanges
  /\ p \notin table
  /\ table' = table \union {p}
  /\ changes' = changes + 1
  /\ UNCHANGED <<mode, limit, phase, page, token, received, response, steady>>

DeleteItem(p) ==
  /\ changes < MaxChanges
  /\ p \in table
  /\ table' = table \ {p}
  /\ steady' = steady \ {p}
  /\ changes' = changes + 1
  /\ UNCHANGED <<mode, limit, phase, page, token, received, response>>

(***************************************************************************)
(* execute_query                                                           *)
(***************************************************************************)
Smallest(S, n) == {p \in S : Cardinality({q \in S : q < p}) < n}

\* The response shows rows of a page, as page_size of them, and offers
\* next_token to go on with.
Show(rows, has_more, truncated, page_size, next_token) ==
  /\ response' = [rows |-> rows, has_more |-> has_more,
                  truncated |-> truncated, page |-> page,
                  page_size |-> page_size]
  /\ received' = [p \in Positions |->
                    IF p \in rows THEN received[p] + 1 ELSE received[p]]
  /\ token' = next_token
  /\ phase' = IF ~has_more THEN "done"
              ELSE IF next_token = None THEN "stuck" ELSE "paging"
  /\ page' = page + 1
  /\ UNCHANGED <<table, changes, mode, limit, steady>>

\* Faulty variant: the page size is the cap or nothing.
ReplySizeless(items, next_token, cap) ==
  Show(items, next_token # None, FALSE, IF cap = NoLimit THEN 0 ELSE cap,
       next_token)

\* items_to_response: cap is the client-side LIMIT, NoLimit for none.
Reply(items, next_token, cap) ==
  LET capped == cap # NoLimit /\ Cardinality(items) > cap
      rows == IF capped THEN Smallest(items, cap) ELSE items
  IN Show(rows, next_token # None \/ capped, capped,
          IF cap = NoLimit THEN Cardinality(rows) ELSE cap, next_token)

\* An error response: DynamoDB rejects the request, or fails.
Fail ==
  /\ phase' = "failed"
  /\ UNCHANGED <<table, changes, mode, limit, page, token, received, response,
                 steady>>

\* Larger than any page.
Unbounded == Cardinality(Positions)

\* The Limit of the native calls: scan bounds it, query does not.
NativeLimit ==
  IF mode = "scan"
    THEN IF limit = NoLimit \/ limit > MaxScanItems THEN MaxScanItems ELSE limit
    ELSE IF limit = NoLimit THEN Unbounded ELSE limit

Accepts(key) == NativeLimit > 0 /\ Valid(key)

\* One Scan or Query from key; WithToken makes the token of its answer.
ReadFrom(key, WithToken(_, _)) ==
  /\ phase = "paging" /\ mode # "partiql"
  /\ \/ /\ Accepts(key)
        /\ \E items \in SUBSET table, last \in table \union {0} :
             /\ Evaluates(table, StartOf(key), NativeLimit, items, last)
             /\ Reply(items, WithToken(items, last), NoLimit)
     \/ ~Accepts(key) /\ Fail

Encoded(items, last) == encode_last_key(KeyAt(last))

\* Faulty variants: the token of the request is not used; a page shorter than
\* its limit is taken for the last.
ReadAgain == ReadFrom(None, Encoded)
ReadFullPages ==
  ReadFrom(decode_pagination_token(token),
           LAMBDA items, last : IF Cardinality(items) < NativeLimit
                                  THEN None ELSE Encoded(items, last))

\* #!scan and #!query.
ReadNative == ReadFrom(decode_pagination_token(token), Encoded)

\* The cap of a PartiQL SELECT: `l as usize` makes a negative limit huge.
EffectiveLimit ==
  IF limit # NoLimit /\ limit < 0 THEN Unbounded ELSE limit

Select(some) ==
  /\ phase = "paging" /\ mode = "partiql"
  /\ \E items \in SUBSET table, last \in table \union {0} :
       /\ Evaluates(table, StartOf(token), Unbounded, items, last)
       /\ some => items \intersect Matching # {}
       /\ Reply(items \intersect Matching, KeyAt(last), EffectiveLimit)

\* Faulty variant: an empty page is asked for again.
ReadNonEmpty == Select(TRUE)

\* A PartiQL SELECT: DynamoDB filters the items it has evaluated, so a page
\* may be empty, and its token is passed on as it is.
ReadPartiql == Select(FALSE)

(***************************************************************************)
(* The specification                                                       *)
(***************************************************************************)
Others == \E p \in Positions : InsertItem(p) \/ DeleteItem(p)
Read == ReadNative \/ ReadPartiql
CallFails == phase = "paging" /\ Fail

Next == Others \/ Read \/ CallFails

Spec == Init /\ [][Next]_vars

\* A host that goes on reading while there is more.
FairSpec == Spec /\ WF_vars(Read)

(***************************************************************************)
(* Properties                                                              *)
(***************************************************************************)

\* Types of the variables; a page has no more rows than its page_size says.
TypeOK ==
  /\ table \in SUBSET Positions /\ steady \in SUBSET table
  /\ changes \in 0..MaxChanges
  /\ <<mode, limit>> \in Requests
  /\ phase \in {"paging", "done", "stuck", "failed"}
  /\ page \in Nat \ {0}
  /\ Cardinality(token) <= 1
  /\ received \in [Positions -> Nat]
  /\ response.rows \in SUBSET Positions
  /\ Cardinality(response.rows) <= response.page_size

\* A host that has followed the tokens until there was no more has the row of
\* every item it asked for that was there throughout, whatever was inserted
\* or deleted around it and wherever the pages were cut (query.rs:647-681).
NothingSkipped ==
  phase = "done" => \A p \in steady \intersect Wanted : received[p] > 0

\* No row comes on two pages, not even that of an item that was deleted and
\* inserted again behind the page that had shown it.
NothingTwice == \A p \in Positions : received[p] <= 1

\* has_more is true exactly while there is something to ask for again with:
\* a host never stops too early, nor goes on to read page 1 as page 2.
HasMoreIsHonest == phase # "stuck"

\* The token of a response is accepted with the next request: the test
\* tests/test_group_b.py:73, for every type of key.
TokensResume ==
  phase = "paging" /\ mode # "partiql" /\ NativeLimit > 0
    => Accepts(decode_pagination_token(token))

\* The reading comes to an end.
EveryReadingEnds == <>(phase # "paging")
=============================================================================
