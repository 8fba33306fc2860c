---------------------------- MODULE ExecuteQuery ----------------------------
(***************************************************************************)
(* The handlers that make one call to DynamoDB, or a choice of one:        *)
(* execute_query with its branches (handlers/query.rs), drop_table and     *)
(* get_create_table_sql (handlers/ddl.rs), get_columns and get_indexes     *)
(* (handlers/metadata.rs), test_connection; and the calls themselves       *)
(* (dynamodb/client.rs), which the SDK repeats when no answer comes.       *)
(* Other clients create and drop tables, and the host may send a request   *)
(* again while the first one is still handled.                             *)
(*                                                                         *)
(* The reads are one step here; Paging and ClientSideReads have their      *)
(* pages.                                                                  *)
(***************************************************************************)
EXTENDS Connection, Statements, Arrangements

CONSTANTS
  Sends,          \* requests the host sends, side by side
  Cases,          \* what to explore: sets of cases, see Init
  Tables,         \* names of tables
  Schemas,        \* tables other clients create, see Columns
  MaxStatements,  \* of a transaction, 100 in the code
  MaxAttempts,    \* of the SDK, for one call
  MaxChanges      \* how often other clients create or drop a table

ASSUME BoundAssumption ==
  /\ MaxAttempts \in Nat \ {0}
  /\ {MaxStatements, MaxChanges} \subseteq Nat

\* A schema has the attribute definitions, <<name, type>>, the key columns, the
\* partition key first, and the secondary indexes, each a name and its columns.
\* DynamoDB admits no attribute, key column or index twice; an index may have
\* any name.
IsList(s) == s \in Seq(ToSet(s))
Secondary(schema) == schema.gsis \o schema.lsis
IsSchema(schema) ==
  LET attributes == schema.attributes
      keys == schema.keys
      indexes == Secondary(schema)
  IN /\ IsList(attributes) /\ IsList(keys)
     /\ IsList(schema.gsis) /\ IsList(schema.lsis)
     /\ \A j, k \in DOMAIN attributes : attributes[j][1] = attributes[k][1] => j = k
     /\ Len(keys) \in {1, 2} /\ \A j, k \in DOMAIN keys : keys[j] = keys[k] => j = k
     /\ \A j, k \in DOMAIN indexes : indexes[j].name = indexes[k].name => j = k
     /\ \A k \in DOMAIN indexes : IsList(indexes[k].columns)

\* A table is there, with a schema, or absent.
Statuses == {"absent", "creating", "active", "deleting"}
IsTable(t) ==
  /\ DOMAIN t = {"status", "schema"}
  /\ t.status \in Statuses
  /\ t.status # "absent" => IsSchema(t.schema)

ASSUME CaseAssumption ==
  \A cases \in Cases : \A c \in cases :
    /\ c.params \in Inputs /\ c.default_region \in Defaults
    /\ DOMAIN c.request = Sends
    /\ DOMAIN c.table = Tables /\ \A t \in Tables : IsTable(c.table[t])
    /\ c.changes \in 0 .. MaxChanges

ASSUME SchemaAssumption == \A schema \in Schemas : IsSchema(schema)

VARIABLES
  request,     \* what each of Sends asks for, None if it is not sent
  stage,       \* its handler: "received", "calling" or "done"
  client,      \* what build_client made of the connection, None before
  plan,        \* what the handler decided on, None before
  attempts,    \* attempts of its call that had no answer
  reply,       \* None, or a record whose kind says what is reported
  effects,     \* what DynamoDB did for it (history)
  table,       \* [status, schema] of each table of the account
  remembered,  \* <<token, statements>> of the transactions DynamoDB knows
  changes      \* how often other clients created or dropped a table

handlers == <<stage, client, plan, attempts, reply, effects>>
account == <<table, remembered, changes>>
vars == <<params, default_region, request, handlers, account>>

Init ==
  \E cases \in Cases : \E c \in cases :
    /\ params = c.params
    /\ default_region = c.default_region
    /\ request = c.request
    /\ table = c.table
    /\ stage = [s \in Sends |-> IF c.request[s] = None THEN "done" ELSE "received"]
    /\ client = [s \in Sends |-> None]
    /\ plan = [s \in Sends |-> None]
    /\ attempts = [s \in Sends |-> 0]
    /\ reply = [s \in Sends |-> None]
    /\ effects = [s \in Sends |-> {}]
    /\ remembered = {}
    /\ changes = c.changes

(***************************************************************************)
(* The arguments of a request (utils/extractor.rs).  A field that is not   *)
(* there is None, an empty text <<>>.                                      *)
(***************************************************************************)
Else(a, b) == IF a # None THEN a ELSE b
NonEmpty(text) == IF text = <<>> THEN None ELSE text

extract_query(r) == NonEmpty(Else(r.query, r.nested_query))

extract_table(r) ==
  Else(NonEmpty(Else(r.table, r.table_name)),
       NonEmpty(Else(r.nested_table, r.nested_table_name)))

\* The first argument a handler looks at, without which it goes no further.
Argument(r) ==
  CASE r.method = "execute_query" -> extract_query(r)
    [] r.method = "drop_table" -> NonEmpty(Else(r.table, r.table_name))
    [] r.method = "get_create_table_sql" -> NonEmpty(r.table_name)
    [] r.method \in {"get_columns", "get_indexes"} -> extract_table(r)
    [] OTHER -> "nothing"

\* A query is a text.
ASSUME TextAssumption ==
  \A cases \in Cases : \A c \in cases : \A s \in Sends :
    c.request[s] # None /\ Argument(c.request[s]) # None
      /\ c.request[s].method = "execute_query" => IsList(extract_query(c.request[s]))

(***************************************************************************)
(* What a handler decides on                                               *)
(***************************************************************************)
Refuse == [act |-> "refuse"]
Warn == [act |-> "warn"]

\* Faulty variant: only the first statement is looked at.
GuardFirst(r, statements) ==
  ~r.allow_destructive /\ destructive_warning(statements[1])

Guarded(r, statements) ==
  /\ ~r.allow_destructive
  /\ \E k \in DOMAIN statements : destructive_warning(statements[k])

Transaction(r, statements) ==
  IF Len(statements) > MaxStatements THEN Refuse
  ELSE [act |-> "transaction", statements |-> statements,
        token |-> r.client_request_token]

execute_ddl(ddl) ==
  IF ddl.ddl = "drop" THEN [act |-> "drop", table |-> ddl.table]
  ELSE [act |-> "create", table |-> ddl.table,
        keys |-> [k \in DOMAIN ddl.keys |-> <<ddl.keys[k][1], scalar_type(ddl.keys[k][2])>>]]

\* A statement without what is done on the plugin's side.
Single(r, body) ==
  LET limited == strip_partiql_limit(body)
      ordered == strip_partiql_order_by(limited.statement)
      statement == ordered.statement
      cap == Else(limited.limit, r.limit)
  IN IF Guarded(r, <<statement>>) THEN Warn
     ELSE IF parse_ddl(statement) # None THEN execute_ddl(parse_ddl(statement))
     ELSE IF ~r.next_token /\ parse_aggregate(statement) # None
       THEN [act |-> "aggregate", query |-> parse_aggregate(statement)]
     ELSE IF ~r.next_token /\ ordered.order # None
       THEN [act |-> "ordered", statement |-> statement, order |-> ordered.order,
             cap |-> cap]
     ELSE [act |-> "statement", statement |-> statement, cap |-> cap,
           next_token |-> r.next_token]

Partiql(r, text) ==
  LET body == unwrap_derived_table(text)
      statements == split_statements(body)
  IN IF r.next_token \/ Len(statements) <= 1 THEN Single(r, body)
     ELSE IF Guarded(r, statements) THEN Warn
     ELSE Transaction(r, statements)

\* Faulty variant: the limit of the parameters comes first.
ScanCapFirst(r, req) ==
  [act |-> "scan", table |-> req.table_name, limit |-> Else(r.limit, req.limit),
   next_token |-> r.next_token]

Scan(r, req) ==
  [act |-> "scan", table |-> req.table_name, limit |-> Else(req.limit, r.limit),
   next_token |-> r.next_token]

KeyQuery(r, req) ==
  IF req.partition_key = None \/ req.partition_value = None THEN Refuse
  ELSE [act |-> "query", table |-> req.table_name,
        partition |-> <<req.partition_key, req.partition_value>>,
        sort |-> IF req.sort_key_name = None \/ req.sort_key_value = None THEN None
                 ELSE <<req.sort_key_name, req.sort_key_value>>,
        limit |-> Else(req.limit, r.limit), next_token |-> r.next_token]

Get(req) ==
  IF req.key = None \/ req.key = <<>> THEN Refuse
  ELSE [act |-> "get", table |-> req.table_name, key |-> req.key]

execute_query(r) ==
  LET query == Query(extract_query(r))
      req == parse_native_body(r.fields) \* what the body is as YAML
  IN CASE query.mode = "#!partiql" -> Partiql(r, query.body)
       [] query.mode # "#!partiql" /\ req = None -> Refuse
       [] query.mode = "#!scan" /\ req # None -> Scan(r, req)
       [] query.mode = "#!query" /\ req # None -> KeyQuery(r, req)
       [] query.mode = "#!get" /\ req # None -> Get(req)

\* The GUI has asked before it sends one: no guard.
drop_table(r) == [act |-> "drop", table |-> Argument(r)]

test_connection == [act |-> "ping"]

Decision(r) ==
  CASE r.method = "execute_query" -> execute_query(r)
    [] r.method = "drop_table" -> drop_table(r)
    [] r.method \in {"get_columns", "get_indexes"} ->
         [act |-> r.method, table |-> Argument(r)]
    [] OTHER -> test_connection

(***************************************************************************)
(* A handler up to its call                                                *)
(***************************************************************************)
\* Plans without a call, whose reply is themselves.
Local == {"refuse", "warn", "sql"}

Decide(s, p) ==
  /\ plan' = [plan EXCEPT ![s] = p]
  /\ IF p.act \in Local
       THEN /\ stage' = [stage EXCEPT ![s] = "done"]
            /\ reply' = [reply EXCEPT ![s] = [kind |-> p.act]]
       ELSE /\ stage' = [stage EXCEPT ![s] = "calling"]
            /\ UNCHANGED reply
  /\ UNCHANGED <<params, default_region, request, attempts, effects, account>>

RefuseArguments(s) ==
  /\ stage[s] = "received"
  /\ Argument(request[s]) = None
  /\ Decide(s, Refuse)
  /\ UNCHANGED client

get_create_table_sql(s) ==
  LET r == request[s]
  IN /\ stage[s] = "received"
     /\ r.method = "get_create_table_sql" /\ Argument(r) # None
     /\ Decide(s, [act |-> "sql",
                   text |-> create_table_sql(r.table_name, r.columns,
                                             r.partition_key, r.sort_key)])
     /\ UNCHANGED client

\* Faulty variant: the handler goes on without a client.
ReceiveUnconnected(s) ==
  /\ stage[s] = "received"
  /\ request[s].method # "get_create_table_sql" /\ Argument(request[s]) # None
  /\ client' = [client EXCEPT ![s] = build_client(params)]
  /\ Decide(s, Decision(request[s]))

Receive(s) ==
  LET r == request[s]
  IN /\ stage[s] = "received"
     /\ r.method # "get_create_table_sql" /\ Argument(r) # None
     /\ client' = [client EXCEPT ![s] = build_client(params)]
     /\ Decide(s, IF build_client(params) = <<"invalid">> THEN Refuse ELSE Decision(r))

(***************************************************************************)
(* An attempt of a call, whose answer comes or is lost                     *)
(***************************************************************************)
Calls(s, acts) == stage[s] = "calling" /\ plan[s].act \in acts

Answered(s, r) ==
  /\ stage' = [stage EXCEPT ![s] = "done"]
  /\ reply' = [reply EXCEPT ![s] = r]
  /\ UNCHANGED attempts

\* The SDK tries again, up to its limit.
Unanswered(s) ==
  /\ attempts' = [attempts EXCEPT ![s] = @ + 1]
  /\ IF attempts[s] + 1 < MaxAttempts THEN UNCHANGED <<stage, reply>>
     ELSE /\ stage' = [stage EXCEPT ![s] = "done"]
          /\ reply' = [reply EXCEPT ![s] = [kind |-> "failed"]]

Attempted(s, r) ==
  /\ Answered(s, r) \/ Unanswered(s)
  /\ UNCHANGED <<params, default_region, request, client, plan>>

\* What DynamoDB does for the request is kept.
Effect(s, e) == effects' = [effects EXCEPT ![s] = @ \union {e}]

Exists(t) == table[t].status # "absent"
Become(t, status) == table' = [table EXCEPT ![t].status = status]

\* The schema of a table with these keys and nothing else.
KeySchema(keys) ==
  [attributes |-> keys, keys |-> [k \in DOMAIN keys |-> keys[k][1]],
   gsis |-> <<>>, lsis |-> <<>>]

\* Faulty variant: the result of the call is not looked at.
CreateReportUnread(result) == [kind |-> "created"]

CreateReport(result) ==
  [kind |-> IF result = "ok" THEN "created" ELSE "already exists"]

\* A definition that DynamoDB does not admit fails, see Fail.
create_table(s) ==
  LET p == plan[s]
  IN /\ Calls(s, {"create"}) /\ p.table \in Tables /\ IsSchema(KeySchema(p.keys))
     /\ \/ /\ ~Exists(p.table)
           /\ table' = [table EXCEPT ![p.table] =
                          [status |-> "creating", schema |-> KeySchema(p.keys)]]
           /\ Effect(s, <<"created", p.table, p.keys>>)
           /\ Attempted(s, CreateReport("ok"))
        \/ /\ Exists(p.table)
           /\ UNCHANGED <<table, effects>>
           /\ Attempted(s, CreateReport("in use"))
     /\ UNCHANGED <<remembered, changes>>

\* Faulty variant: a table that is not there counts as dropped.
DropReportLenient(result) ==
  [kind |-> IF result = "in use" THEN "busy" ELSE "dropped"]

DropReport(result) ==
  [kind |-> CASE result = "ok" -> "dropped"
              [] result = "not found" -> "not found"
              [] result = "in use" -> "busy"]

\* A table that is being deleted may be refused or taken for deleted.
delete_table(s) ==
  LET t == plan[s].table
  IN /\ Calls(s, {"drop"}) /\ t \in Tables
     /\ \/ /\ table[t].status \in {"active", "deleting"}
           /\ Become(t, "deleting")
           /\ Effect(s, <<"dropped", t>>)
           /\ Attempted(s, DropReport("ok"))
        \/ /\ table[t].status \in {"creating", "deleting"}
           /\ UNCHANGED <<table, effects>>
           /\ Attempted(s, DropReport("in use"))
        \/ /\ ~Exists(t)
           /\ UNCHANGED <<table, effects>>
           /\ Attempted(s, DropReport("not found"))
     /\ UNCHANGED <<remembered, changes>>

\* Faulty variant: the token of the host is not sent.
TokenDropped(s) == <<"sdk", s>>

\* The SDK makes up a token for a transaction that has none.
Token(s) ==
  IF plan[s].token # None THEN <<"host", plan[s].token>> ELSE <<"sdk", s>>

execute_transaction(s) ==
  LET known == {m \in remembered : m[1] = Token(s)}
      mine == <<Token(s), plan[s].statements>>
  IN /\ Calls(s, {"transaction"})
     /\ \/ /\ known = {}
           /\ remembered' = remembered \union {mine}
           /\ Effect(s, <<"applied", attempts[s]>>)
           /\ Attempted(s, [kind |-> "applied", rows |-> Len(plan[s].statements)])
        \/ /\ known = {mine}
           /\ UNCHANGED <<remembered, effects>>
           /\ Attempted(s, [kind |-> "applied", rows |-> Len(plan[s].statements)])
        \/ /\ known \notin {{}, {mine}}
           /\ UNCHANGED <<remembered, effects>>
           /\ Attempted(s, [kind |-> "failed"])
     /\ UNCHANGED <<table, changes>>

\* A single statement has no token: each attempt that arrives is executed.
execute_statement(s) ==
  /\ Calls(s, {"statement"})
  /\ Effect(s, <<"executed", attempts[s]>>)
  /\ Attempted(s, [kind |-> "rows"])
  /\ UNCHANGED account

\* Aggregates, ordered SELECTs, native reads, and the ping.
Read(s) ==
  /\ Calls(s, {"aggregate", "ordered", "scan", "query", "get", "ping"})
  /\ Attempted(s, [kind |-> IF plan[s].act = "ping" THEN "success" ELSE "rows"])
  /\ UNCHANGED <<effects, account>>

(***************************************************************************)
(* Descriptions                                                            *)
(***************************************************************************)
attribute_type_name(type) ==
  CASE type = "N" -> "NUMBER" [] type = "B" -> "BINARY" [] OTHER -> "STRING"

ColumnInfo(schema, name, type) ==
  [name |-> name, data_type |-> attribute_type_name(type),
   is_pk |-> name = schema.keys[1],
   is_sort_key |-> Len(schema.keys) = 2 /\ name = Last(schema.keys)]

\* The attributes defined, then key columns that are not defined.
DescribedColumns(schema) ==
  LET defs == schema.attributes
      keys == schema.keys
      rest == Kept(keys, {j \in DOMAIN keys : \A k \in DOMAIN defs : defs[k][1] # keys[j]})
  IN [k \in DOMAIN defs |-> ColumnInfo(schema, defs[k][1], defs[k][2])]
       \o [k \in DOMAIN rest |-> ColumnInfo(schema, rest[k], "S")]

\* Faulty variant: only the partition key is required.
ColumnsOfPartition(schema) ==
  LET columns == DescribedColumns(schema)
  IN [k \in DOMAIN columns |->
        [name |-> columns[k].name, data_type |-> columns[k].data_type,
         is_pk |-> columns[k].is_pk, is_nullable |-> ~columns[k].is_pk]]

Columns(schema) ==
  LET columns == DescribedColumns(schema)
  IN [k \in DOMAIN columns |->
        [name |-> columns[k].name, data_type |-> columns[k].data_type,
         is_pk |-> columns[k].is_pk,
         is_nullable |-> ~(columns[k].is_pk \/ columns[k].is_sort_key)]]

extract_indexes(schema) ==
  LET secondary == Secondary(schema)
  IN << [name |-> "primary", columns |-> schema.keys, is_primary |-> TRUE] >>
       \o [k \in DOMAIN secondary |->
             [name |-> secondary[k].name, columns |-> secondary[k].columns,
              is_primary |-> FALSE]]

\* The place of a column is its index and where it stands in it; a place goes
\* before another in an earlier index, or earlier in the same one.
ColumnPlaces(indexes) ==
  UNION {{k} \X DOMAIN indexes[k].columns : k \in DOMAIN indexes}
Leading(places) ==
  {e \in places \X places : \/ e[1][1] < e[2][1]
                            \/ e[1][1] = e[2][1] /\ e[1][2] < e[2][2]}

\* Faulty variant: the columns are numbered from 0, as enumerate does.
IndexRowFromZero(index, k) ==
  [name |-> index.name, column_name |-> index.columns[k],
   is_unique |-> index.is_primary, is_primary |-> index.is_primary,
   seq_in_index |-> k - 1]

IndexRow(index, k) ==
  [name |-> index.name, column_name |-> index.columns[k],
   is_unique |-> index.is_primary, is_primary |-> index.is_primary,
   seq_in_index |-> k]

\* A row for each column of each index.
IndexRows(schema) ==
  LET indexes == extract_indexes(schema)
      places == ColumnPlaces(indexes)
      order == Arranged(places, Leading(places))
  IN [n \in 1..Cardinality(places) |-> IndexRow(indexes[order[n][1]], order[n][2])]

describe_table(s) ==
  LET p == plan[s]
      schema == table[p.table].schema
  IN /\ Calls(s, {"get_columns", "get_indexes"}) /\ p.table \in Tables
     /\ \/ /\ Exists(p.table)
           /\ Attempted(s, [kind |-> p.act, of |-> schema,
                            rows |-> IF p.act = "get_columns" THEN Columns(schema)
                                     ELSE IndexRows(schema)])
        \/ ~Exists(p.table) /\ Attempted(s, [kind |-> "failed"])
     /\ UNCHANGED <<effects, account>>

(***************************************************************************)
(* The service and other clients                                           *)
(***************************************************************************)
\* An attempt is refused, or does not arrive.
Fail(s) ==
  /\ stage[s] = "calling"
  /\ Attempted(s, [kind |-> "failed"])
  /\ UNCHANGED <<effects, account>>

Settle(t) ==
  /\ \/ table[t].status = "creating" /\ Become(t, "active")
     \/ /\ table[t].status = "deleting"
        /\ table' = [table EXCEPT ![t] = [status |-> "absent", schema |-> None]]
  /\ UNCHANGED <<params, default_region, request, handlers, remembered, changes>>

OthersChange(t) ==
  /\ changes < MaxChanges
  /\ changes' = changes + 1
  /\ \/ table[t].status = "active" /\ Become(t, "deleting")
     \/ /\ ~Exists(t)
        /\ \E schema \in Schemas :
             table' = [table EXCEPT ![t] = [status |-> "creating", schema |-> schema]]
  /\ UNCHANGED <<params, default_region, request, handlers, remembered>>

Next ==
  \/ \E s \in Sends :
       \/ RefuseArguments(s) \/ get_create_table_sql(s) \/ Receive(s)
       \/ create_table(s) \/ delete_table(s) \/ execute_transaction(s)
       \/ execute_statement(s) \/ Read(s) \/ describe_table(s) \/ Fail(s)
  \/ \E t \in Tables : Settle(t) \/ OthersChange(t)

Spec == Init /\ [][Next]_vars

(***************************************************************************)
(* Properties                                                              *)
(***************************************************************************)
\* Types of the variables; a handler has a plan when it calls, and a reply to
\* what it was sent when it is done; without a client it refuses.
TypeOK ==
  /\ params \in Inputs /\ default_region \in Defaults
  /\ DOMAIN request = Sends
  /\ \A s \in Sends :
       /\ stage[s] \in {"received", "calling", "done"}
       /\ stage[s] = "received" => plan[s] = None /\ reply[s] = None
       /\ stage[s] = "calling" => plan[s].act \notin Local /\ client[s][1] = "config"
       /\ client[s] = <<"invalid">> => plan[s] = Refuse
       /\ stage[s] = "done" /\ request[s] # None => reply[s] # None
       /\ attempts[s] \in 0 .. MaxAttempts
  /\ DOMAIN table = Tables /\ \A t \in Tables : IsTable(table[t])
  /\ changes \in 0 .. MaxChanges

\* The client a handler works with is the one the documents describe, over
\* everything normalized_params and build_client do to the connection: explicit
\* fields before generic ones, no client from half of a key pair
\* (connection.rs:321-331), blank fields as absent ones (CHANGELOG.md:165), and
\* one chain of regions for connections the plugin signs itself
\* (README.md:77-91).  For a profile, the region of the connection or of its
\* endpoint and no other (CHANGELOG.md:51-54, connection.rs:162-170);
\* README.md:99 denies a profile those, too, and neither the code nor this
\* property agrees with it.
ClientAsDocumented ==
  \A s \in Sends : client[s] # None => client[s] = DocumentedClient

\* A blank field counts as one that is not there (CHANGELOG.md:165):
\* build_client makes the same of a connection with its blank fields left out.
BlankIsAbsent ==
  \A s \in Sends : client[s] # None => client[s] = build_client(Unblanked)

\* The semicolons and blanks around a statement do not matter.
Plain(p) ==
  IF p.act \in {"statement", "ordered"} THEN [p EXCEPT !.statement = TrimTail(@)] ELSE p

\* The chain of rewritings of execute_query (unwrap, split, strip, parse) ends
\* in what the text says: the clauses of a SELECT are all found, and what goes to
\* DynamoDB is the statement without them.  A LIMIT, a semicolon or a bracket in
\* a literal is none of the statement's, nor is an ORDER BY there while the
\* statement has one of its own; the texts have no literal with an ORDER BY
\* otherwise, as query.rs:830 takes that for the clause, against query.rs:813-819.
\* A native request is the call its fields name in whatever spelling, and a
\* request about a table names it where the GUI puts the name.
PlanAsWritten ==
  \A s \in Sends :
    plan[s] # None /\ request[s].meant # None /\ client[s] # <<"invalid">> =>
      Plain(plan[s]) = request[s].meant

\* A statement that takes everything out of a table: its words are DELETE
\* FROM and a table, and WHERE is not among them.
Wipes(statement) ==
  LET norm == Collapsed(statement)
  IN /\ IsPrefix(<<"DELETE", " ", "FROM">>, norm)
     /\ \A k \in DOMAIN norm : norm[k] # "WHERE"

SentStatements(p) ==
  CASE p.act = "transaction" -> ToSet(p.statements)
    [] p.act \in {"statement", "ordered"} -> {p.statement}
    [] OTHER -> {}

\* Without allow_destructive no DELETE without WHERE is sent to DynamoDB, by
\* whatever branch, wrapper, line breaks or other statements it comes
\* (query.rs:127-135).
ConsentBeforeWipe ==
  \A s \in Sends :
    plan[s] # None /\ ~request[s].allow_destructive =>
      \A statement \in SentStatements(plan[s]) : ~Wipes(statement)

AskedToken(s) ==
  IF request[s].client_request_token # None
    THEN <<"host", request[s].client_request_token>> ELSE <<"sdk", s>>

\* A transaction is applied once, however often the SDK tries and, with a
\* client_request_token, however often the host sends it (client.rs:347-349).
AppliedOnce ==
  \A s, u \in Sends : \A e \in effects[s], f \in effects[u] :
    e[1] = "applied" /\ f[1] = "applied" /\ AskedToken(s) = AskedToken(u) =>
      s = u /\ e = f

Successes == {"created", "dropped", "applied", "rows", "success", "get_columns",
              "get_indexes", "sql"}

ReportIsTrue(s) ==
  LET kind == reply[s].kind
      p == plan[s]
  IN /\ kind = "created" => <<"created", p.table, p.keys>> \in effects[s]
     /\ kind = "dropped" => <<"dropped", p.table>> \in effects[s]
     /\ kind = "applied" =>
          \E u \in Sends : /\ \E e \in effects[u] : e[1] = "applied"
                           /\ AskedToken(u) = AskedToken(s)
                           /\ plan[u].statements = p.statements
     /\ attempts[s] = 0 /\ kind \notin Successes => effects[s] = {}

\* What is reported has happened: a table is reported created with the keys
\* that were asked for or dropped only if DynamoDB did so for this request, a
\* transaction only if it was applied for it or for one with its token, and
\* an error or a warning at the first attempt means that nothing was done.
ReportsAreTrue == \A s \in Sends : reply[s] # None => ReportIsTrue(s)

\* The keys a request for the text of a CREATE TABLE asks for.
AskedKeys(r) ==
  LET columns(name) == {k \in DOMAIN r.columns : r.columns[k].name = name}
      type(name) == IF columns(name) = {} THEN None
                    ELSE r.columns[Min(columns(name))].type
      names == SelectSeq(<<Else(r.partition_key, <<"ID">>), r.sort_key>>,
                         LAMBDA n : n # None)
  IN [k \in DOMAIN names |-> <<names[k], scalar_type(<<type(names[k])>>)>>]

\* What get_create_table_sql writes, execute_query reads: the statement the
\* GUI gets from the one creates, sent to the other, the table asked for, with
\* its keys, their order and their types.
GeneratedTablesAreRead ==
  \A s \in Sends :
    plan[s] # None /\ plan[s].act = "sql" =>
      LET ddl == parse_ddl(plan[s].text)
      IN ddl # None /\ execute_ddl(ddl) =
           [act |-> "create", table |-> request[s].table_name,
            keys |-> AskedKeys(request[s])]

\* The rows of get_columns require exactly the key columns and have each
\* attribute once; those of get_indexes, put together by name as the GUI does,
\* are the indexes, with their columns in order.
DescriptionIsRight(r) ==
  LET rows == r.rows
      schema == r.of
      required == {rows[k].name : k \in {j \in DOMAIN rows : ~rows[j].is_nullable}}
      group(name) == {j \in DOMAIN rows : rows[j].name = name}
      whole(name, columns) ==
        /\ {<<rows[j].seq_in_index, rows[j].column_name>> : j \in group(name)}
             = {<<k, columns[k]>> : k \in DOMAIN columns}
        /\ \A i, j \in group(name) :
             i < j => rows[i].seq_in_index < rows[j].seq_in_index
  IN /\ r.kind = "get_columns" =>
          /\ required = ToSet(schema.keys)
          /\ \A j, k \in DOMAIN rows : rows[j].name = rows[k].name => j = k
     /\ r.kind = "get_indexes" =>
          /\ whole("primary", schema.keys)
          /\ \A i \in ToSet(Secondary(schema)) : whole(i.name, i.columns)

\* Every description is: metadata.rs:62-105 and 107-150 over client.rs:162-297.
DescriptionsAreRight ==
  \A s \in Sends : reply[s] # None => DescriptionIsRight(reply[s])
=============================================================================
