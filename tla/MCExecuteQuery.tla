--------------------------- MODULE MCExecuteQuery ---------------------------
(***************************************************************************)
(* Instances of ExecuteQuery for TLC: connections, texts written clause by *)
(* clause together with what they mean, and pairs of requests that meet.   *)
(***************************************************************************)
EXTENDS ExecuteQuery, TLC

(***************************************************************************)
(* Connections                                                             *)
(***************************************************************************)
MCRegionOf == ("aws-west" :> "us-west-2") @@ ("localhost" :> Absent)
MCDefaults == {Absent, "ap-south-1"}

Given(name) == {Absent, name}
Explicit == [name |-> "localhost", port |-> 8001, tls |-> FALSE]

\* Connections whose fields take the values of region, endpoint and so on.
Forms(endpoint, keys) ==
  [region : {Absent, Blank, "eu-west-1"},
   endpoint : endpoint,
   access_key_id : keys \union {"key"},
   secret_access_key : keys \union {"secret"},
   session_token : {Blank, "token"},
   profile : {Absent, Blank, "dev"},
   host : {Absent, "aws-west", "localhost"},
   port : {Blank, 443, 8000},
   username : Given("user"),
   password : {Blank, "pass"},
   extra : [region : {Blank, "sa-east-1"}, profile : Given("gone"),
            session_token : {Absent, "extra-token"}]]

\* Session tokens decide nothing but themselves: they come and go with other
\* fields.
Unshadowed ==
  {f \in Forms({Absent, Explicit}, {Absent}) :
     /\ f.session_token = Blank <=> f.password = Blank
     /\ f.extra.session_token = Absent <=> f.extra.region = Blank}

\* Blank fields everywhere, in a form without extra fields.
Shadowed ==
  {f \in Forms({Blank, Explicit}, {Blank}) :
     /\ f.extra = [region |-> Blank, profile |-> Absent, session_token |-> Absent]
     /\ f.region = Blank /\ f.profile = Blank /\ f.session_token = Blank}

Local8000 ==
  [region |-> "eu-west-1", endpoint |-> Explicit, access_key_id |-> "key",
   secret_access_key |-> "secret", session_token |-> Blank, profile |-> Absent,
   host |-> Absent, port |-> Blank, username |-> Absent, password |-> Blank,
   extra |-> [region |-> Blank, profile |-> Absent, session_token |-> Absent]]

(***************************************************************************)
(* Tables                                                                  *)
(***************************************************************************)
Users == <<"USERS">>
Events == <<"MY", "-", "EVENTS">>
Id == <<"ID">>
Ts == <<"TS", ".", "UTC">>
Age == <<"AGE">>

\* A table with a sort key, an index of its own on an attribute and one of
\* the key columns the other way round.
Composite ==
  [attributes |-> << <<Id, "S">>, <<Ts, "N">>, <<Age, "N">> >>, keys |-> <<Id, Ts>>,
   gsis |-> << [name |-> "by-age", columns |-> <<Age, Id>>],
               [name |-> "by-ts", columns |-> <<Ts, Id>>] >>,
   lsis |-> << [name |-> "local", columns |-> <<Id, Age>>] >>]
Plainest == KeySchema(<< <<Id, "B">> >>)
MCSchemas == {Composite}
MCTables == {Users, Events}

NoTable == [status |-> "absent", schema |-> None]
Active(schema) == [status |-> "active", schema |-> schema]
Account == (Users :> Active(Composite)) @@ (Events :> Active(Plainest))
Bare == (Users :> NoTable) @@ (Events :> NoTable)

(***************************************************************************)
(* Texts and what they mean                                                *)
(***************************************************************************)
Base ==
  [method |-> "execute_query", query |-> None, nested_query |-> None,
   table |-> None, table_name |-> None, nested_table |-> None,
   nested_table_name |-> None, fields |-> None, limit |-> None,
   next_token |-> FALSE, allow_destructive |-> FALSE,
   client_request_token |-> None, columns |-> <<>>, partition_key |-> None,
   sort_key |-> None, meant |-> None]

Spaced(words) == FlattenSeq([k \in DOMAIN words |->
                               IF k = 1 THEN words[k] ELSE <<" ">> \o words[k]])

\* A clause, if it is there, after a separator.
Clause(sep, words, what) ==
  IF what = <<>> THEN <<>> ELSE sep \o words \o <<" ">> \o what

SelectText(q, order, limit, sep) ==
  <<"SELECT", " ">> \o q.list \o sep \o <<"FROM", " ">> \o InQuotes(q.table)
    \o Clause(sep, <<"WHERE">>, q.where)
    \o Clause(sep, <<"ORDER", " ", "BY">>, order)
    \o Clause(sep, <<"LIMIT">>, limit)

Wrapped(text) ==
  <<"SELECT", " ", "*", " ", "FROM", " ", "(">> \o text
    \o <<")", " ", "AS", " ", "LIMITED", "_", "SUBSET">>

Literal == <<"V", " ", "=", " ", "'", "A", ";", "B", ")", " ", "LIMIT", " ", "5", "'">>
OrderLiteral ==
  <<"V", " ", "=", " ", "'", "A", " ", "ORDER", " ", "BY", " ", "B", "'">>
Nested == <<"(", "V", " ", "=", " ", "5", ")">>

Star == <<"*">>
Count == <<"COUNT", "(", "*", ")">>
Sum == <<"SUM", "(">> \o InQuotes(Age) \o <<")", " ", "AS", " ", "TOTAL">>

Selects == [list : {Star, Count, Sum}, table : {Users}, where : {<<>>, Literal, Nested}]

SelectMeant(q, order, limit, sep, r) ==
  LET statement == SelectText(q, <<>>, <<>>, sep)
      cap == IF limit = <<>> THEN r.limit ELSE limit[1]
      desc == order # <<>> /\ Last(order) = "DESC"
      column == Before(Tail(order), {"dquote"})
  IN CASE q.list = Count /\ q.where = <<>> ->
            [act |-> "aggregate", query |-> [table |-> q.table, func |-> "COUNT",
                                             column |-> None, alias |-> <<"COUNT">>]]
       [] q.list = Sum /\ q.where = <<>> ->
            [act |-> "aggregate", query |-> [table |-> q.table, func |-> "SUM",
                                             column |-> Age, alias |-> <<"TOTAL">>]]
       [] ~(q.list # Star /\ q.where = <<>>) /\ order # <<>> ->
            [act |-> "ordered", statement |-> statement, cap |-> cap,
             order |-> [column |-> column, descending |-> desc]]
       [] OTHER -> [act |-> "statement", statement |-> statement, cap |-> cap,
                    next_token |-> r.next_token]

\* A SELECT in its layout: separators, a wrapper, a header, what follows it.
SelectRequest(q, order, limit, sep, wrapped, header, end, cap) ==
  LET text == SelectText(q, order, limit, sep)
      r == [Base EXCEPT !.limit = cap]
  IN [r EXCEPT !.query = header \o (IF wrapped THEN Wrapped(text) ELSE text) \o end,
               !.meant = SelectMeant(q, order, limit, sep, r)]

Header == <<" ", "#!partiql", " ", "newline">>
Ends == {<<>>, <<";">>, <<" ", ";", " ">>}
Orders == {<<>>, InQuotes(Ts), InQuotes(Age) \o <<" ", "DESC">>}

LaidOut(selects, orders, seps) ==
  {SelectRequest(q, order, limit, sep, wrapped, header, end, cap) :
     q \in selects, order \in orders, limit \in {<<>>, <<"5">>}, sep \in seps,
     wrapped \in BOOLEAN, header \in {<<>>, Header}, end \in Ends, cap \in {None, "10"}}

SelectRequests(seps) == LaidOut(Selects, Orders, seps)

\* An ORDER BY in a literal before the one of the statement.
OrderedLiterals ==
  LaidOut([list : {Star}, table : {Users}, where : {OrderLiteral}], Orders \ {<<>>}, {<<" ">>})

\* The pages behind the first of a SELECT.
NextPages ==
  {[r EXCEPT !.next_token = TRUE, !.meant.next_token = TRUE] :
     r \in {x \in SelectRequests({<<" ">>}) : x.meant.act = "statement"}}

\* INSERTs, one with a semicolon in a literal.
Insert(value) ==
  <<"INSERT", " ", "INTO", " ">> \o InQuotes(Users)
    \o <<" ", "VALUE", " ", "{", "'", "ID", "'", ":", "'">> \o value \o <<"'", "}">>
InsertA == Insert(<<"A", ";", "B">>)
InsertC == Insert(<<"C">>)

Delete(where, sep) ==
  <<"DELETE">> \o sep \o <<"FROM">> \o sep \o InQuotes(Users) \o Clause(sep, <<"WHERE">>, where)

Statement(text, r) ==
  [act |-> "statement", statement |-> text, cap |-> r.limit, next_token |-> r.next_token]

DeleteRequest(where, sep, allow, end) ==
  LET text == Delete(where, sep)
      r == [Base EXCEPT !.query = text \o end, !.allow_destructive = allow]
  IN [r EXCEPT !.meant = IF where = <<>> /\ ~allow THEN Warn ELSE Statement(text, r)]

\* A DELETE where the GUI or a user puts a SELECT.
DeleteAsSelect(where, sep, limit, wrapped) ==
  LET text == Delete(where, sep) \o Clause(sep, <<"LIMIT">>, limit)
  IN [Base EXCEPT !.query = IF wrapped THEN Wrapped(text) ELSE text]

Deletes ==
  {DeleteRequest(where, sep, allow, end) :
     where \in {<<>>, Literal, Nested}, sep \in {<<" ">>, <<"newline">>, <<" ", " ">>},
     allow \in BOOLEAN, end \in Ends}
  \union {DeleteAsSelect(where, sep, limit, wrapped) :
            where \in {<<>>, Nested}, sep \in {<<" ">>, <<"newline">>},
            limit \in {<<>>, <<"5">>}, wrapped \in BOOLEAN}

Joined(texts, sep) ==
  FlattenSeq([k \in DOMAIN texts |-> IF k = 1 THEN texts[k] ELSE <<";">> \o sep \o texts[k]])

TransactionRequest(texts, wipes, sep, end, allow, token) ==
  [Base EXCEPT !.query = Joined(texts, sep) \o end, !.allow_destructive = allow,
     !.client_request_token = token,
     !.meant = IF wipes /\ ~allow THEN Warn
               ELSE IF Len(texts) > MaxStatements THEN Refuse
               ELSE [act |-> "transaction", statements |-> texts, token |-> token]]

Transactions ==
  LET wipe == Delete(<<>>, <<"newline">>)
      some == {InsertA, InsertC, Delete(Literal, <<" ">>), wipe}
      lists == {<<a, b>> : a \in some, b \in some} \union {<<InsertA, InsertC, wipe>>,
                                                          <<InsertC, InsertC, InsertA>>}
  IN {TransactionRequest(texts, wipe \in ToSet(texts), sep, end, allow, token) :
        texts \in lists, sep \in {<<>>, <<" ">>, <<"newline">>},
        end \in Ends, allow \in BOOLEAN, token \in {None, "token"}}

\* More than one statement on a later page goes to DynamoDB as it is.
LaterTransactions ==
  {[r EXCEPT !.next_token = TRUE, !.meant = None] : r \in Transactions}

(***************************************************************************)
(* Tables created, dropped, described                                      *)
(***************************************************************************)
SqlType == ("S" :> "STRING") @@ ("N" :> "INT") @@ ("B" :> "BLOB")

\* keys are <<name, type>>.
CreateRequest(name, keys, guard, sep) ==
  LET def(k) == InQuotes(keys[k][1]) \o <<" ", SqlType[keys[k][2]]>> \o <<",">> \o sep
      defs == FlattenSeq([k \in DOMAIN keys |-> def(k)])
  IN [Base EXCEPT
        !.query = <<"CREATE", " ", "TABLE", " ">> \o guard \o InQuotes(name) \o <<" ", "(">>
                    \o sep \o defs \o InQuotes(Age) \o <<" ", "NUMBER", ",">> \o sep
                    \o <<"PRIMARY", " ", "KEY", " ", "(">>
                    \o Listed([k \in DOMAIN keys |-> InQuotes(keys[k][1])])
                    \o <<")">> \o sep \o <<")">>,
        !.meant = [act |-> "create", table |-> name, keys |-> keys]]

DropRequest(name, guard) ==
  [Base EXCEPT !.query = <<"DROP", " ", "TABLE", " ">> \o guard \o InQuotes(name) \o <<";">>,
               !.meant = [act |-> "drop", table |-> name]]

KeyLists ==
  {<< <<Id, type>> >> : type \in {"S", "N", "B"}}
    \union {<< <<Ts, a>>, <<Id, b>> >> : a \in {"S", "N"}, b \in {"B", "S"}}

Definitions ==
  {CreateRequest(name, keys, guard, sep) :
     name \in {Users, Events}, keys \in KeyLists,
     guard \in {<<>>, <<"IF", " ", "NOT", " ", "EXISTS", " ">>},
     sep \in {<<>>, <<" ">>, <<"newline", " ">>}}
  \union {DropRequest(name, guard) :
            name \in {Users, Events}, guard \in {<<>>, <<"IF", " ", "EXISTS", " ">>}}

Typed(name) == {[name |-> name, type |-> type] : type \in {None, "S", "N", "B", "BOOL", "INT"}}

SqlRequests ==
  {[Base EXCEPT !.method = "get_create_table_sql", !.table_name = name,
                !.columns = columns, !.partition_key = keys[1], !.sort_key = keys[2]] :
     name \in {Users, Events, <<>>},
     keys \in {<<None, None>>, <<Id, None>>, <<Id, Ts>>, <<Age, Id>>},
     columns \in {<<>>} \union {<<a>> : a \in Typed(Id)}
                   \union {<<a, b>> : a \in Typed(Ts), b \in Typed(Id)}
                   \union {<<a, b, a>> : a \in Typed(Id), b \in Typed(Age)}}

\* A table may be named in any of four places, and an empty name hides some.
Names == {None, <<>>, Users, Events}

\* The first name counts.
TableMeant(act, names) ==
  LET given == SelectSeq(names, LAMBDA n : n # None)
  IN CASE \E k \in DOMAIN names : names[k] = <<>> -> None
       [] OTHER -> IF given = <<>> THEN Refuse ELSE [act |-> act, table |-> given[1]]

Descriptions ==
  {[Base EXCEPT !.method = method, !.table = a, !.table_name = b,
                !.nested_table = c, !.nested_table_name = d,
                !.meant = TableMeant(method, <<a, b, c, d>>)] :
     method \in {"get_columns", "get_indexes"}, a \in Names, b \in {None, Users},
     c \in {None, <<>>, Events}, d \in {None, Events}}
  \union {[Base EXCEPT !.method = "drop_table", !.table = a, !.table_name = b,
                       !.meant = TableMeant("drop", <<a, b>>)] :
            a \in Names, b \in Names}

(***************************************************************************)
(* Native requests                                                         *)
(***************************************************************************)
Text(data) == [type |-> "string", data |-> data]
Number(data) == [type |-> "int", data |-> data]
Mapping(data) == [type |-> "mapping", data |-> data]

Native(mode, fields, cap, meant) ==
  [Base EXCEPT !.query = <<mode, "newline", "FIELDS">>, !.fields = fields,
               !.limit = cap, !.meant = meant]

Spelled(names, value) == {name :> value : name \in names}
Both(A, B) == {a @@ b : a \in A, b \in B}

Named == Spelled({"TableName", "table_name"}, Text(Users))
Limited == {<<>>} \union Spelled({"Limit", "limit"}, Number("5"))
Partition ==
  Both(Spelled({"PartitionKey", "partition_key", "pk"}, Text(Id)),
       Spelled({"PartitionValue", "partition_value", "pk_value"}, Number("5")))
Sort ==
  {<<>>} \union Both(Spelled({"SortKeyName", "sort_key_name", "sk"}, Text(Ts)),
                    Spelled({"SortKeyValue", "sort_key_value", "sk_value"}, Number("7")))

\* The limit of the request in the text before that of its parameters.
LimitMeant(l, cap) == IF DOMAIN l = {} THEN cap ELSE "5"

\* Every field in every spelling.
Scans ==
  {Native("#!scan", t @@ l, cap,
          [act |-> "scan", table |-> Users, limit |-> LimitMeant(l, cap),
           next_token |-> FALSE]) :
     t \in Named, l \in Limited, cap \in {None, "10"}}

KeyQueries ==
  {Native("#!query", t @@ l @@ p @@ s, cap,
          [act |-> "query", table |-> Users, limit |-> LimitMeant(l, cap),
           partition |-> <<Id, Number("5")>>,
           sort |-> IF DOMAIN s = {} THEN None ELSE <<Ts, Number("7")>>,
           next_token |-> FALSE]) :
     t \in Named, l \in Limited, p \in Partition, s \in Sort, cap \in {None, "10"}}

Gets ==
  {Native("#!get", t @@ k, cap, [act |-> "get", table |-> Users, key |-> <<"5">>]) :
     t \in Named, k \in Spelled({"Key", "key"}, Mapping(<<"5">>)), cap \in {None, "10"}}

\* What no mode may accept, and what theirs may not.
Mistaken ==
  {Native(mode, m, "10", Refuse) :
     mode \in {"#!scan", "#!query", "#!get"},
     m \in {None, "TableName" :> Number("5"), "pk" :> Text(Id)}
           \union Both(Named, {"Filter" :> Text(Id), "tablename" :> Text(Users)})}
  \union {Native("#!query", t @@ m, None, Refuse) :
            t \in Named, m \in {"pk" :> Text(Id), "pk_value" :> Number("5"),
                               "pk" :> Number("5") @@ "pk_value" :> Number("5")}}
  \union {Native("#!get", t @@ m, None, Refuse) :
            t \in Named, m \in Partition \union {"key" :> Mapping(<<>>), "Key" :> Text("5")}}

Others ==
  {[Base EXCEPT !.query = a, !.nested_query = b] :
     a \in {None, <<>>, <<";">>, InsertA}, b \in {None, <<>>, InsertC}}
  \union {[Base EXCEPT !.method = "test_connection"]}

(***************************************************************************)
(* What is explored                                                        *)
(***************************************************************************)
Case(p, region, r1, r2, tables, n) ==
  [params |-> p, default_region |-> region, request |-> ("s1" :> r1) @@ ("s2" :> r2),
   table |-> tables, changes |-> n]

Wipe == [Base EXCEPT !.query = Delete(<<>>, <<" ">>)]

Connecting(inputs) ==
  {Case(p, region, Wipe, None, Bare, MaxChanges) : p \in inputs, region \in MCDefaults}

Alone(requests) ==
  {Case(Local8000, Absent, r, None, Account, MaxChanges) : r \in requests}

\* Requests that meet: transactions with and without a token, and what is
\* done to a table.
Repeated ==
  LET of(texts, token) == TransactionRequest(texts, FALSE, <<>>, <<>>, FALSE, token)
  IN <<of(<<InsertA, InsertC>>, "token"), of(<<InsertA, InsertC>>, None),
       of(<<InsertC, InsertC>>, "token"), [Base EXCEPT !.query = InsertA]>>

OfTable ==
  <<CreateRequest(Users, << <<Id, "S">> >>, <<>>, <<>>),
    CreateRequest(Users, << <<Id, "N">> >>, <<>>, <<>>), DropRequest(Users, <<>>),
    [Base EXCEPT !.method = "get_columns", !.table = Users],
    [Base EXCEPT !.method = "get_indexes", !.table = Users]>>

Together(requests, tables, n) ==
  {Case(Local8000, Absent, requests[ij[1]], requests[ij[2]], tables, n) :
     ij \in {x \in (DOMAIN requests) \X (DOMAIN requests) : x[1] <= x[2]}}

MCCases ==
  {Connecting(Unshadowed), Together(Repeated, Account, MaxChanges),
   Together(OfTable, Account, 0), Together(OfTable, Bare, 0),
   Alone(SelectRequests({<<" ">>, <<" ", "newline", " ">>})), Alone(OrderedLiterals),
   Alone(NextPages),
   Alone(Deletes), Alone(Transactions), Alone(LaterTransactions), Alone(Definitions),
   Alone(SqlRequests), Alone(Descriptions), Alone(Scans), Alone(KeyQueries),
   Alone(Gets), Alone(Mistaken), Alone(Others)}
BlankCases == {Connecting(Shadowed)}

\* Clauses on lines of their own.
LineCases == {Alone(SelectRequests({<<"newline">>}))}
=============================================================================
