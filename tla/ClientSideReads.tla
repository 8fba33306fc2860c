--------------------------- MODULE ClientSideReads ---------------------------
(***************************************************************************)
(* The two reads of execute_query (handlers/query.rs) that DynamoDB cannot *)
(* answer in one call and the plugin computes itself: a SELECT of one      *)
(* aggregate, by scanning the table, and a SELECT with ORDER BY, by paging *)
(* through the statement and sorting.  Both collect page after page in one *)
(* request while other clients insert and delete items.                    *)
(***************************************************************************)
EXTENDS TableReads, Arrangements, Sequences, SequencesExt

CONSTANTS
  Positions,    \* where items can be
  Matching,     \* items the WHERE clause of the ordered SELECT selects
  ValueOf,      \* the value each item has in the column, see below
  Selects,      \* the SELECTs the host sends
  NoLimit,
  MaxScanItems, \* Client::MAX_SCAN_ITEMS
  MaxOrderByRows, \* MAX_ORDER_BY_ROWS
  MaxPages,     \* the 10_000 calls after which the loops end
  MaxChanges    \* bound: inserts and deletes during the reading

\* SortKey: a value is its class and its rank in it, and the classes come in
\* this order.  A number is what parses as one, be it a string in the table.
Num == 1
Str == 2
Null == 3

Functions == {"count(*)", "count", "sum", "avg", "min", "max"}

AggregateSelects == [kind : {"aggregate"}, func : Functions]
OrderedSelects ==
  [kind : {"ordered"}, descending : BOOLEAN, limit : Nat \union {NoLimit}]

ASSUME PositionsAssumption ==
  /\ Positions \subseteq Nat \ {0}
  /\ IsFiniteSet(Positions)
  /\ Matching \subseteq Positions
  /\ ValueOf \in [Positions -> {Num, Str, Null} \X Int]

ASSUME SelectAssumption ==
  \A s \in Selects : \/ s \in AggregateSelects
                     \/ s.kind = "ordered" /\ s \in OrderedSelects

ASSUME BoundAssumption ==
  /\ {MaxScanItems, MaxOrderByRows, MaxPages} \subseteq Nat \ {0}
  /\ MaxChanges \in Nat

VARIABLES
  table,      \* the items there are
  changes,    \* how often it has changed
  select,     \* the SELECT being executed
  phase,      \* "reading", "done", "failed"
  pages,      \* calls made
  next_token, \* token of the last answer
  all_items,  \* items collected
  response,   \* the response, once it is made
  steady,     \* history: the items that were there all along
  seen        \* history: the items that were there at some time

vars == <<table, changes, select, phase, pages, next_token, all_items, response,
          steady, seen>>

NoResponse == [rows |-> <<>>, value |-> <<>>, has_more |-> FALSE,
               warning |-> FALSE]

Init ==
  /\ table \in SUBSET Positions
  /\ changes = 0
  /\ select \in Selects
  /\ phase = "reading"
  /\ pages = 0
  /\ next_token = None
  /\ all_items = <<>>
  /\ response = NoResponse
  /\ steady = table
  /\ seen = table

(***************************************************************************)
(* Other clients of the table                                              *)
(***************************************************************************)
InsertItem(p) ==
  /\ changes < MaxChanges
  /\ p \notin table
  /\ table' = table \union {p}
  /\ seen' = seen \union {p}
  /\ changes' = changes + 1
  /\ UNCHANGED <<select, phase, pages, next_token, all_items, response, steady>>

DeleteItem(p) ==
  /\ changes < MaxChanges
  /\ p \in table
  /\ table' = table \ {p}
  /\ steady' = steady \ {p}
  /\ changes' = changes + 1
  /\ UNCHANGED <<select, phase, pages, next_token, all_items, response, seen>>

(***************************************************************************)
(* Aggregates.  A result is a sequence of at most one number, or two for   *)
(* an average: the sum and by what it is divided.                          *)
(***************************************************************************)
IsNum(p) == ValueOf[p][1] = Num
Rank(p) == ValueOf[p][2]
SumOf(items) == FoldSeq(LAMBDA p, sum : Rank(p) + sum, 0, items)
Ranks(items) == {Rank(items[i]) : i \in DOMAIN items}

Reduce(func, items) ==
  LET nums == SelectSeq(items, IsNum)
      present == SelectSeq(items, LAMBDA p : ValueOf[p][1] # Null)
      Empty == nums = <<>>
  IN CASE func = "count(*)" -> <<Len(items)>>
       [] func = "count"    -> <<Len(present)>>
       [] func = "sum"      -> <<SumOf(nums)>>
       [] func = "avg"      -> IF Empty THEN <<>> ELSE <<SumOf(nums), Len(nums)>>
       [] func = "min"      -> IF Empty THEN <<>> ELSE <<Min(Ranks(nums))>>
       [] func = "max"      -> IF Empty THEN <<>> ELSE <<Max(Ranks(nums))>>

(***************************************************************************)
(* ORDER BY                                                                *)
(***************************************************************************)
Less(v, w) == v[1] < w[1] \/ (v[1] = w[1] /\ v[2] < w[2])

\* The item at place i goes before the one at place j; descending reverses the
\* comparison, not the ties: the sort is stable.
Before(items, i, j) ==
  LET v == ValueOf[items[i]]
      w == ValueOf[items[j]]
  IN IF v = w THEN i < j
     ELSE IF select.descending THEN Less(w, v) ELSE Less(v, w)

Order(items) ==
  LET places == DOMAIN items
  IN Arranged(places, {e \in places \X places : Before(items, e[1], e[2])})

Sorted(items) ==
  LET order == Order(items) IN [i \in DOMAIN items |-> items[order[i]]]

Cut(rows, n) == IF n = NoLimit THEN rows ELSE SubSeq(rows, 1, Min({n, Len(rows)}))

\* Faulty variant: the limit is applied before the sort.
OrderedCutFirst(items, capped) ==
  LET rows == Sorted(Cut(items, select.limit))
      more == capped \/ Len(rows) < Len(items)
  IN [rows |-> rows, value |-> <<>>, has_more |-> more, warning |-> capped]

\* Faulty variant: only the limit counts as a reason for more.
OrderedSilent(items, capped) ==
  LET rows == Cut(Sorted(items), select.limit)
  IN [rows |-> rows, value |-> <<>>, has_more |-> Len(rows) < Len(items),
      warning |-> FALSE]

\* The response of execute_ordered_select; it offers no token to go on.
Ordered(items, capped) ==
  LET rows == Cut(Sorted(items), select.limit)
      more == capped \/ Len(rows) < Len(items)
  IN [rows |-> rows, value |-> <<>>, has_more |-> more, warning |-> capped]

(***************************************************************************)
(* The loops                                                               *)
(***************************************************************************)
\* The items of a page in the order of the table.
InOrder(items) == Ascending(items)

GoOn(items, token) ==
  /\ all_items' = items
  /\ next_token' = token
  /\ UNCHANGED <<phase, response>>

Respond(items, answer) ==
  /\ all_items' = items
  /\ response' = answer
  /\ phase' = "done"
  /\ UNCHANGED next_token

Fail ==
  /\ phase' = "failed"
  /\ UNCHANGED <<next_token, all_items, response>>

\* The 10_000th call ends the loop even when there is a token for another.
LastCall == pages + 1 = MaxPages

\* One round of execute_aggregate, from the key.
ScanFrom(key) ==
  \/ /\ Valid(key)
     /\ \E items \in SUBSET table, last \in table \union {0} :
          LET collected == all_items \o InOrder(items)
              token == encode_last_key(KeyAt(last))
          IN
          /\ Evaluates(table, StartOf(key), MaxScanItems, items, last)
          /\ IF token # None /\ ~LastCall
               THEN GoOn(collected, token)
               ELSE Respond(collected,
                            [NoResponse EXCEPT
                               !.value = Reduce(select.func, collected)])
  \/ ~Valid(key) /\ Fail

\* Faulty variant: the token of the last page is not used.
ScanAgain == ScanFrom(None)

ScanNext == ScanFrom(decode_pagination_token(next_token))

\* Faulty variant: an empty page is taken for the end.
StatementNextWhileRows ==
  \E items \in SUBSET table, last \in table \union {0} :
    LET rows == InOrder(items \intersect Matching)
        collected == all_items \o rows
    IN
    /\ Evaluates(table, StartOf(next_token), Cardinality(Positions), items, last)
    /\ IF rows # <<>> /\ last # 0 /\ ~LastCall
         THEN GoOn(collected, KeyAt(last))
         ELSE Respond(collected, Ordered(collected, FALSE))

\* One round of execute_ordered_select: it stops at MAX_ORDER_BY_ROWS items.
StatementNext ==
  \E items \in SUBSET table, last \in table \union {0} :
    LET collected == all_items \o InOrder(items \intersect Matching)
        full == Len(collected) >= MaxOrderByRows
    IN
    /\ Evaluates(table, StartOf(next_token), Cardinality(Positions), items, last)
    /\ IF ~full /\ last # 0 /\ ~LastCall
         THEN GoOn(collected, KeyAt(last))
         ELSE LET kept == Cut(collected, MaxOrderByRows)
              IN Respond(kept, Ordered(kept, full))

\* The next call of the request, or its failure.
Call ==
  /\ phase = "reading"
  /\ \/ select.kind = "aggregate" /\ ScanNext
     \/ select.kind = "ordered" /\ StatementNext
     \/ Fail
  /\ pages' = pages + 1
  /\ UNCHANGED <<table, changes, select, steady, seen>>

(***************************************************************************)
(* The specification                                                       *)
(***************************************************************************)
Next ==
  \/ \E p \in Positions : InsertItem(p) \/ DeleteItem(p)
  \/ Call

Spec == Init /\ [][Next]_vars

(***************************************************************************)
(* Properties                                                              *)
(***************************************************************************)

\* What the request could have seen: everything that was there throughout,
\* and some of what came or went.
Snapshots == {S \in SUBSET seen : steady \subseteq S}

\* An aggregate is the aggregate of items the table held, each taken once,
\* with none left out that was there throughout ("by scanning all items",
\* query.rs:485), although the items come and go between the pages.
AggregatesTheTable ==
  phase = "done" /\ select.kind = "aggregate" =>
    \E S \in Snapshots : response.value = Reduce(select.func, InOrder(S))

\* Unless it carries the warning, the response to an ordered SELECT holds the
\* top of the table: what stays out does not belong before what is in.
Shown == Range(response.rows)
TopOfTheTable ==
  phase = "done" /\ select.kind = "ordered" /\ ~response.warning =>
    \A p \in (steady \intersect Matching) \ Shown, i \in DOMAIN response.rows :
      LET v == ValueOf[response.rows[i]]
      IN IF select.descending THEN ~Less(v, ValueOf[p]) ELSE ~Less(ValueOf[p], v)

\* A response to an ordered SELECT that lacks rows says so: the GUI cannot go
\* on from it (query.rs:930-935) and takes it for the whole result otherwise.
MissingRowsAreAnnounced ==
  phase = "done" /\ select.kind = "ordered" =>
    response.has_more \/ steady \intersect Matching \subseteq Shown
=============================================================================
