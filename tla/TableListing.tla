---------------------------- MODULE TableListing ----------------------------
(***************************************************************************)
(* get_tables (handlers/metadata.rs): the names come from ListTables page   *)
(* by page, each is described with up to Concurrency calls in flight, in    *)
(* whatever order they complete, and the rows are sorted by name.           *)
(* Meanwhile other clients of the account create and drop tables.           *)
(*                                                                         *)
(* A table name is a number: the order of the numbers is that of the names, *)
(* which is the order in which ListTables goes through them.                *)
(***************************************************************************)
EXTENDS Integers, Sequences, FiniteSets, Functions

CONSTANTS
  Names,        \* names of tables
  PageLimit,    \* the most names ListTables returns in a page
  Concurrency,  \* DESCRIBE_TABLE_CONCURRENCY
  MaxChanges    \* bound: tables created and dropped during the request

ASSUME NamesAssumption == Names \subseteq Nat \ {0} /\ IsFiniteSet(Names)

ASSUME LimitsAssumption ==
  /\ PageLimit \in Nat \ {0}
  /\ Concurrency \in Nat \ {0}
  /\ MaxChanges \in Nat

Statuses == {"known", "UNKNOWN"}
Row == [name : Names, table_status : Statuses]

VARIABLES
  tables,     \* the tables of the account
  changes,    \* how often they have changed
  phase,      \* "listing", "describing", "done", "failed"
  last,       \* last_evaluated_table_name, 0 for none
  listed,     \* table_names
  started,    \* how many of them the stream has started to describe
  inflight,   \* the tables being described
  results,    \* rows in the order the calls completed
  response,   \* rows of the response
  steady      \* history: tables that existed all along

vars == <<tables, changes, phase, last, listed, started, inflight, results,
          response, steady>>

Init ==
  /\ tables \in SUBSET Names
  /\ changes = 0
  /\ phase = "listing"
  /\ last = 0 /\ listed = <<>>
  /\ started = 0 /\ inflight = {}
  /\ results = <<>> /\ response = <<>>
  /\ steady = tables

(***************************************************************************)
(* The account                                                             *)
(***************************************************************************)
CreateTable(n) ==
  /\ changes < MaxChanges
  /\ n \notin tables
  /\ tables' = tables \union {n}
  /\ changes' = changes + 1
  /\ UNCHANGED <<phase, last, listed, started, inflight, results, response,
                 steady>>

DropTable(n) ==
  /\ changes < MaxChanges
  /\ n \in tables
  /\ tables' = tables \ {n}
  /\ steady' = steady \ {n}
  /\ changes' = changes + 1
  /\ UNCHANGED <<phase, last, listed, started, inflight, results, response>>

\* A page of ListTables: the first names after last, in order.  It has a last
\* evaluated name when names are left, and may have one when none is.
Page(seq, more) ==
  LET rest == {n \in tables : n > last}
      page == Range(seq)
  IN /\ page \subseteq rest
     /\ \A i, j \in DOMAIN seq : i < j => seq[i] < seq[j]
     /\ \A m \in page, n \in rest \ page : m < n
     /\ rest # page => more
     /\ more => seq # <<>>

Pages == UNION {[1..k -> Names] : k \in 0..PageLimit}

(***************************************************************************)
(* list_tables                                                             *)
(***************************************************************************)

\* Faulty variant: the next page starts where this one started.
ListPageAgain ==
  /\ phase = "listing"
  /\ \E seq \in Pages, more \in BOOLEAN :
       /\ Page(seq, more)
       /\ listed' = listed \o seq
       /\ phase' = IF more THEN "listing" ELSE "describing"
  /\ UNCHANGED <<tables, changes, last, started, inflight, results, response,
                 steady>>

ListPage ==
  /\ phase = "listing"
  /\ \E seq \in Pages, more \in BOOLEAN :
       /\ Page(seq, more)
       /\ listed' = listed \o seq
       /\ last' = IF more THEN seq[Len(seq)] ELSE 0
       /\ phase' = IF more THEN "listing" ELSE "describing"
  /\ UNCHANGED <<tables, changes, started, inflight, results, response,
                 steady>>

\* A failing ListTables fails the request, whatever pages came before.
ListFails ==
  /\ phase = "listing"
  /\ phase' = "failed"
  /\ UNCHANGED <<tables, changes, last, listed, started, inflight, results,
                 response, steady>>

(***************************************************************************)
(* The stream of describes                                                 *)
(***************************************************************************)
StartWithin(bound) ==
  /\ phase = "describing"
  /\ started < Len(listed)
  /\ Cardinality(inflight) < bound
  /\ started' = started + 1
  /\ inflight' = inflight \union {listed[started + 1]}
  /\ UNCHANGED <<tables, changes, phase, last, listed, results, response,
                 steady>>

\* Faulty variant: every describe at once.
StartAll == StartWithin(Cardinality(Names))

\* buffer_unordered starts the next describe when fewer than its bound are in
\* flight, in the order of the list.
StartDescribe == StartWithin(Concurrency)

Complete(n, row) ==
  /\ n \in inflight
  /\ inflight' = inflight \ {n}
  /\ results' = results \o row
  /\ UNCHANGED <<tables, changes, phase, last, listed, started, response,
                 steady>>

\* Faulty variants: a failed describe takes its row away, or is tried again.
DescribedOrDropped(n) ==
  \/ n \in tables /\ Complete(n, <<[name |-> n, table_status |-> "known"]>>)
  \/ Complete(n, <<>>)
DescribedInTheEnd(n) ==
  n \in tables /\ Complete(n, <<[name |-> n, table_status |-> "known"]>>)

\* A table that is there is described; a call that fails, for a table dropped
\* since it was listed or for any other reason, leaves a row "UNKNOWN".
Described(n) ==
  \/ n \in tables /\ Complete(n, <<[name |-> n, table_status |-> "known"]>>)
  \/ Complete(n, <<[name |-> n, table_status |-> "UNKNOWN"]>>)

Collected == phase = "describing" /\ started = Len(listed) /\ inflight = {}

Finish(rows) ==
  /\ response' = rows
  /\ phase' = "done"
  /\ UNCHANGED <<tables, changes, last, listed, started, inflight, results,
                 steady>>

\* Faulty variant: the rows stay in the order the calls completed.
RespondUnsorted == Collected /\ Finish(results)

\* The rows are sorted by name.
Respond ==
  /\ Collected
  /\ \E p \in [DOMAIN results -> DOMAIN results] :
       LET rows == [i \in DOMAIN results |-> results[p[i]]] IN
       /\ IsInjective(p)
       /\ \A i, j \in DOMAIN rows : i < j => rows[i].name <= rows[j].name
       /\ Finish(rows)

(***************************************************************************)
(* The specification                                                       *)
(***************************************************************************)
Account == \E n \in Names : CreateTable(n) \/ DropTable(n)

Request ==
  \/ ListPage
  \/ ListFails
  \/ StartDescribe
  \/ \E n \in Names : Described(n)
  \/ Respond

Next == Account \/ Request

Spec == Init /\ [][Next]_vars

\* Every call is answered or fails.
FairSpec == Spec /\ WF_vars(Request)

(***************************************************************************)
(* Properties                                                              *)
(***************************************************************************)
NamesOf(rows) == {rows[i].name : i \in DOMAIN rows}

\* Types of the variables, and the bound on the calls in flight.
TypeOK ==
  /\ tables \in SUBSET Names /\ steady \in SUBSET tables
  /\ changes \in 0..MaxChanges
  /\ phase \in {"listing", "describing", "done", "failed"}
  /\ last \in Names \union {0}
  /\ listed \in Seq(Names)
  /\ started \in 0..Len(listed)
  /\ inflight \in SUBSET Names /\ Cardinality(inflight) <= Concurrency
  /\ results \in Seq(Row)
  /\ response \in Seq(Row)

\* A table that exists from the first ListTables to the response is in the
\* response, however the pages fall, whichever tables come and go around it
\* and whether or not it could be described (metadata.rs:26-60).
SteadyTablesListed == phase = "done" => steady \subseteq NamesOf(response)

\* The rows are in strictly increasing order of name: the sort undoes the
\* order in which the describes completed, and no table has two rows although
\* tables are dropped and created again between pages (client.rs:138-156).
OneRowPerTable ==
  \A i, j \in DOMAIN response : i < j => response[i].name < response[j].name

\* A request to list the tables ends.
EveryListingEnds == <>(phase \in {"done", "failed"})
=============================================================================
