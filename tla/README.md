# A TLA+ model of the Tabularis DynamoDB plugin

The plugin is a child process of the Tabularis GUI (*the host*).  It reads
JSON-RPC requests, one per line, from stdin, serves each with calls to AWS
DynamoDB, and writes one response line to stdout.  This directory models the
process, the state its workers share, its handlers and the texts they rewrite,
checks them with TLC on small instances, and proves the main results for every
value of the constants with TLAPS.

Source paths below are relative to `src/`.

## The system

| Part | Code | State it keeps | Operations | What is hard | What makes it correct |
|---|---|---|---|---|---|
| Request pipeline | `src/main.rs`, `src/rpc.rs` | request queue (64), response channel (no bound), 4 workers, reader, writer, cleanup task | read, enqueue, receive, handle, respond, write, join | interleaving, a panicking worker, a full queue, a host that goes away, shutdown | no request lost or answered twice without a cause; the process returns |
| Plugin settings | `src/settings.rs` | the default region | `apply_initialize`, `default_region` | `initialize` runs beside the requests behind it | a host that waits gets what it set |
| Config pool | `src/dynamodb/pool.rs` | SDK configs by key, with `last_used` | `get_config`, `cleanup_pools` | the lock is released over an await; keys are joined texts; expiry | the right config; bounded idle time |
| Connection parameters | `src/handlers/connection.rs` | none | `normalized_params`, `build_client` | precedence of thirteen optional fields | documented region chain; blank is absent |
| Table listing | `src/handlers/metadata.rs` | none | `get_tables` | paged listing, concurrent describes, an account that changes | no steady table missed, none twice |
| Paged reads | `src/handlers/query.rs`, `src/dynamodb/models.rs` | none: the host carries the token | `#!scan`, `#!query`, SELECT | one request per page while the table changes; tokens that lose a type; limits | nothing skipped, nothing twice |
| Client-side reads | `src/handlers/query.rs` | none | aggregates, ORDER BY | many calls in one request, caps | the result is that of the table, or says it is not |
| Item writes | `src/handlers/crud.rs` | none | insert, update, delete | describe and write are two calls; the SDK repeats | nothing overwritten; true outcomes |
| Query dispatch, DDL statements | `src/handlers/query.rs`, `src/handlers/ddl.rs` | none; DynamoDB keeps the tables and the tokens of transactions | `execute_query` in all its modes, `drop_table`, `get_create_table_sql` | which kind a text is; the guard; a call repeated after a lost answer, a request sent again | every statement does what is written and permitted, once, and the report is true |
| PartiQL text rewriting | `src/handlers/query.rs` | none | split, unwrap, strip LIMIT and ORDER BY, parse | each stage sees what the one before left | clauses in strings and brackets are no clauses |
| Descriptions and tests | `src/handlers/metadata.rs`, `src/handlers/connection.rs`, `src/utils/extractor.rs` | none | `get_columns`, `get_indexes`, `test_connection`, `ping`, parameter extraction | the host groups flat rows again | keys, types and indexes are those of the table |
| SDK client, value conversion | `src/dynamodb/client.rs`, `src/dynamodb/models.rs` | none | one method per DynamoDB call | repeated calls; conversions that lose a type | part of the handlers that call them |
| Connection UI, test REPL | `ui/`, `src/bin/test_plugin.rs` | form state | | | not part of the plugin process |

How they interact.  The reader puts lines into the queue; the workers share its
receiving end under a mutex, and each calls `handle_line`, which dispatches to a
handler.  A handler normalises the connection (reading the default region of the
settings), gets a config from the pool, makes its DynamoDB calls and returns;
the worker sends the response to the writer.  Four workers do this side by side,
so the settings and the pool are shared by requests in flight, and two requests
for one table meet only in DynamoDB.  The cleanup task sweeps the pool until
`main` signals shutdown.

## The modules

| Module | Models | State and actions |
|---|---|---|
| `RequestService` | what the process promises: the abstract specification | sets of pending, answered and dropped requests, the crew, whether the host listens |
| `Pipeline` | `main.rs`, with `handle_line` as one step that answers or panics | one variable per channel, lock and task; one action per step between two awaits; `Service` is the refinement mapping |
| `Settings` | `settings.rs`, composed with `Pipeline` | `ApplyInitialize` and `ReadRegion` happen at some moment while a worker handles the request |
| `CacheKey` | the key of the pool (`pool.rs:33-41`) | operators on texts as sequences of characters |
| `ConfigPool` | `pool.rs`, with the cleanup task; extends `CacheKey` | `Hit`, `Miss`, `Load`, `Store` are the stretches between the awaits of `get_config`; `Sweep`, `Tick` |
| `Connection` | `normalized_params` and `build_client`, and the precedence the documents describe | `build_client_of` and `Documented`, functions of the connection `params` and the default region; a field is absent, blank or a value |
| `Statements` | the functions of `query.rs` and `ddl.rs` from text to text and from text to a parsed statement | operators on sequences of words and marks |
| `ExecuteQuery` | the handlers that choose one call and make it: `execute_query`, `drop_table`, `get_create_table_sql`, `get_columns`, `get_indexes`, `test_connection`; extends the two above | per request: `Receive` (arguments, client, decision), one action per attempt of a call (`create_table`, `delete_table`, `execute_transaction`, `execute_statement`, `describe_table`), `Fail`; `Settle` and `OthersChange` are DynamoDB and other clients |
| `TableReads` | how DynamoDB answers a read; how a last key becomes a token and back | operators shared by the next two |
| `Paging` | a host that reads a table page by page | one action per request; `InsertItem`, `DeleteItem` are other clients |
| `ClientSideReads` | `execute_aggregate`, `execute_ordered_select` | one action per DynamoDB call of one request |
| `Arrangements` | what a loop, a filter or a sort leaves of a list, by the places of its elements | operators used by `ClientSideReads`, `Statements` and `ExecuteQuery` |
| `TableListing` | `get_tables`, `list_tables` | one action per ListTables page, start and end of a describe |
| `ItemWrites` | `insert_record`, `update_record`, `delete_record` | `Prepare` (describe, validate), `Send` (one attempt of the write) |

`MC*` modules give the constants that a `.cfg` cannot write.  Definitions marked
*Faulty variant* are no part of any specification: each is a plausible bug that
one of the properties is known to catch.  `PROJECT.json` maps every definition
to the lines it stands for.

### Choices in the models

* **Pipeline.**  A request is its line.  `Fatal` are the lines whose handler
  panics, `Garbled` those that are not UTF-8, `Blank` those the reader skips.
  The `send` of the reader never fails, because `main` keeps an `Arc` of the
  receiver until it returns: the branch at `main.rs:74-76` is dead and the
  reader can be *stranded* on a full queue behind a dead crew.  tokio's mutex is
  fair; the model lets any waiting worker take it, which allows more.
* **Settings.**  The value of the setting is the `initialize` request it comes
  from, so that properties can say whose region a request used.
* **ConfigPool.**  Time passes in units; the timer of the cleanup task is taken
  to fire within the unit it is due.  A build that fails leaves the pool as it
  is and is no action.  An absent argument counts as the empty text, as
  `read_param` never passes an empty one (`connection.rs:15-22`).
* **Connection.**  Trimming, schemes typed into HOST, INI parsing and the home
  directory are abstracted to the value a field holds.
* **Statements.**  A text is a sequence of words and marks; keywords are upper
  case, as the functions compare without regard to case.  A word is whole: a
  keyword that is the beginning of a longer word, and positions in bytes, are
  below this level.  `"newline"` is white space that is not a blank, which some
  of the functions tell apart from it and some do not.
* **ExecuteQuery.**  What a statement, a scan or a query returns is `Paging`'s
  and `ClientSideReads`'s matter: here a read is one step, and the *plan* says
  which one it is, with which limit and order.  The SDK repeats a call that had
  no answer up to `MaxAttempts` times, whether DynamoDB executed it or not, and
  gives a transaction a token of its own if the host gives none.  DynamoDB
  executes a transaction with a token it remembers once, and refuses other
  statements under that token.  A table is *creating* or *deleting* for a while
  after the call; DeleteTable on a table that is being deleted may be refused or
  accepted.  Other clients create and drop tables at any moment.  A table has no
  attribute, key column or index twice (`IsSchema`): DynamoDB admits no other,
  and a CREATE TABLE that defines one fails.
* **Reads.**  An item is its position in the order DynamoDB reads the table in;
  an answer is any prefix of what is left, within the limit, and its last key
  may be there although nothing is left, as DynamoDB documents.  Values of a
  column are numbers, strings or nothing; floating-point rounding is left out.
* **ItemWrites.**  An item is a function from attributes to values.  Left out
  are the types of values, an update of a key column, and names that would be
  reserved words in `attribute_not_exists`.

## What is checked

`tlc -config X.cfg M`.  Every property has at least one mutant in
`PROJECT.json`, a faulty variant under which TLC finds it violated by the same
run.

| Run | Module | Shows | Instance, and why it is enough |
|---|---|---|---|
| `pipeline` | `Pipeline` | each request is in one place; lost and forsaken requests and a stranded reader have their cause; shutdown drains the pipeline; queued requests never wait for the host; the pipeline implements `RequestService`; every accepted request is settled, is answered if the host listens and a worker survives, and the process returns after the end of input unless the reader is stranded | 2 workers, a queue of 1, 4 requests of which 2 panic, and a line that is not UTF-8: two panics lose the crew while a third request fills the queue and the reader is stranded with the fourth |
| `default_region` | `Settings` | the default region is a register for a host that waits | two initializes, both of which can be answered before the next line is written, two requests that read the region, of which one panics after it has, and a blank line; 2 workers, a queue of 1. A superseded region takes two answered initializes and a read, an inversion two of each |
| `pool_safety` | `MCConfigPool` | a worker gets the config of its own connection; nothing stays idle for a lifetime and an interval; what was used within a lifetime is there | 2 workers; 3 connections, of which two would have one key without separators and a third shares a key through a colon in its profile; `Ttl` of 3 intervals as in the code, an interval of 2 units, 9 units in all: uses fall between sweeps, and entries expire and come back |
| `tables` | `MCTableListing` | no steady table is missed, none listed twice, the request ends | pages of 2, 2 describes at once, 2 changes of the account |
| `paging` | `MCPaging` | nothing skipped, nothing twice, tokens accepted, the reading ends; string key, no client-side cap | 4 positions, pages of at most 2, 3 changes |
| `paging_number_key` | `MCPaging` | **violation**: the token of a native read of a table with a number key is rejected | as above, key type `N` |
| `paging_limit` | `MCPaging` | **violation**: a SELECT paged with a limit skips rows | limit 1 |
| `client_side` | `MCClientSideReads` | aggregates and ordered SELECTs are those of the table or say what they lack, for loops that see the end of it | 5 items with numbers, a string and no value; cap of 3 rows; more calls allowed than needed |
| `writes` | `MCItemWrites` | idempotent inserts never overwrite and, while the table is not dropped, succeed once; outcomes are true; bad keys get the clear error | 3 requests, which are symmetric, 8 kinds of call, 2 attempts each, a table that is dropped once and comes back with the same keys or others |
| `execute_query` | `MCExecuteQuery` | the client is the documented one; each text is dispatched as it was composed; no DELETE without WHERE is planned without consent; a transaction with a token is applied once; created, dropped and applied are true, and an error of a first attempt means nothing was done; generated CREATE TABLE texts are read back with their keys; columns and indexes are those of the table | see below |
| `connection_blank` | `MCExecuteQuery` | **violation**: a blank endpoint or key keeps the generic form out | the connections of `execute_query` with one of these fields blank |
| `statement_lines` | `MCExecuteQuery` | **violation**: LIMIT and ORDER BY at the beginning of a line are sent to DynamoDB | the SELECTs of `execute_query` with `"newline"` before the clauses |

`execute_query` starts from about ten thousand cases, each a connection, one or
two requests and an account:

* every mixture of absent and filled connection fields, with a profile that has
  a region or has none, hosts that name a region or do not, and a default region
  or none;
* SELECTs composed of a list (columns, COUNT, SUM), conditions with a keyword, a
  semicolon and a bracket inside a string or brackets, an ORDER BY inside a
  string before one of the statement's own, an ORDER BY, a LIMIT, the
  `#!partiql` header, the wrapper the host puts around a query, an end with or
  without semicolon, a limit of the request, and a first or a later page.  What
  the text *means* is recorded while it is composed, by a definition that does
  not use `Statements`; `PlanAsWritten` compares;
* INSERT and DELETE statements, with and without WHERE, with blanks or lines
  between the words, and bodies of two and three of them, with
  `MaxStatements` = 2 (100 in the code), with and without consent and token;
* CREATE and DROP TABLE with one or two keys of each type; the texts of
  `get_create_table_sql` sent back; `get_columns` and `get_indexes` of a table
  with a sort key, a secondary index and a column in two indexes; every spelling
  of the fields of `#!scan`, `#!query` and `#!get`, and requests without a
  required one;
* two transactions with one token, with the same statements and with others, and
  two definitions of one table at the same time, on an empty account and on one
  that has the table, with 2 attempts each and, on the tables, 1 change by others: enough for a
  repeat that meets its own effect, or the effect of the other request or of a
  stranger.

Deadlock is not checked (`CHECK_DEADLOCK FALSE`) because every one of these
systems ends: the process returns, the request is answered, the bound on the
changes is used up.  That nothing waits for ever where it should go on is what
the liveness properties of `pipeline`, `tables` and `paging` say, and
`IntakeNeverStalls`.

Bounds that are not in the code: `MaxTime` (`ConfigPool`), `MaxChanges`
(`TableListing`, `Paging`, `ClientSideReads`, `ExecuteQuery`), `MaxDrops`
(`ItemWrites`), and that a host writes each line once (`Pipeline`).
`MaxAttempts`, `MaxPages`, `PageLimit`, `Concurrency`, `Capacity`,
`MaxStatements`, `MaxScanItems`, `MaxOrderByRows`, `Ttl` and `Interval` are
constants of the code or its SDK, made small.

### Fairness

`Pipeline!Fairness` is weak fairness of each task: tokio polls every task that
can run.  It includes that a handler returns or panics, which the code leaves to
the timeouts of the SDK, and that the writer's `write_all` returns, which
depends on the host reading stdout or closing it.  `IntakeNeverStalls` does not
use it: with requests queued, some worker can always go on by itself.  No
fairness is assumed of the host.  `TableListing!FairSpec` says that calls to AWS
are answered or fail, `Paging!FairSpec` that the host goes on asking while there
is more; in both, other clients are limited by `MaxChanges`.

### Where code and documents disagree

1. **Tokens of number and binary keys** (`models.rs:198`).  `encode_last_key`
   drops the type of a key, `decode_pagination_token` makes every key a string.
   `#!scan`, `#!query` and aggregates cannot go beyond the first page of a table
   whose key is not a string (`paging_number_key`).
2. **SELECT with a limit** (`query.rs:659`).  The page is cut but the token
   stands behind the whole page (`paging_limit`).
3. **Clauses on a line of their own** (`query.rs:789`, `829`).  LIMIT and ORDER
   BY are looked for between blanks, while the guard and the DDL parser collapse
   white space first.  `SELECT ...` with the clause on the next line goes to
   DynamoDB with it, which `query.rs:10-16` says is not supported
   (`statement_lines`).
4. **Blank endpoint and keys** (`connection.rs:65`).  `CHANGELOG.md:165` says a
   blank endpoint counts as not supplied; it shadows HOST/PORT
   (`connection_blank`).

Two more have no run of their own.

5. **The region of a profile connection.**  `README.md:99` says that the region
   chain is skipped for a connection with a profile.  `CHANGELOG.md:43-54`
   reports that as a defect and its correction: the connection's own region and
   that of its endpoint apply, with a profile or without, only the setting and
   `us-east-1` do not.  The comment at `connection.rs:162-170` and the code agree
   with the latter, so `DocumentedRegion` does, too; `README.md:99` is what the
   change left behind.  The cases are in `execute_query`, and the faulty variant
   `FillUnlessProfile`, which fills in no region for a profile as `README.md:99`
   has it, violates `ClientAsDocumented` there.
6. **ORDER BY in a literal** (`query.rs:830`).  The doc comment
   (`query.rs:813-819`) says that the clause is found at the tail of the
   statement.  The code takes the last ` order by ` between blanks, inside a
   literal or not, and cuts the statement there.  `PlanAsWritten` is therefore
   about SELECTs whose literals have no ORDER BY unless the statement has one of
   its own behind them, which is then the last.

There are also corners that the hazards name or the properties leave out.  After 10 000 calls the loop of an
aggregate (`query.rs:495`) and that of an ordered SELECT (`query.rs:949`) end
without a word, so that the result is that of a part of the table;
`client_side` is about loops that see the end.  A result of exactly
`MAX_ORDER_BY_ROWS` rows counts as capped (`query.rs:960`), a false alarm.  The documents give a cached
config 30 minutes; a hit does not look at its age, so the bound is `IdleBound`:
30 minutes and one interval of 10.  An idempotent insert into a table that is
created again with another partition key between its two calls can replace an
item; `NeverOverwrites` therefore speaks of writes that meet the keys they were
told, and `InsertedOnce` of a table that is not dropped.  And the comment at `ddl.rs:266-270` says that the DDL path of
`execute_query` requires `allow_destructive`; `query.rs:131-134` and the test at
`query.rs:1890` say that DROP TABLE is not guarded, which is what the code does
and `ConsentBeforeWipe` allows.  DynamoDB takes `primary` for the name of
a secondary index, which is what `extract_indexes` calls the key of the table
(`client.rs:259`): the GUI, which groups rows by name (`metadata.rs:124-128`),
would make one index of the two.  `DescriptionsAreRight` is proved for tables
without such an index.

## What is proved

`tlapm M.tla`; every leaf is checked.  The assumptions are the named `ASSUME`s
of the modules, which TLC evaluates in the runs; none bounds a set of lines, a
crew, a text or a table, except that `Workers`, `Positions` and `Names` are finite.  Some
theorems have a hypothesis of their own, named below with its reason.

* **`Pipeline_proofs`.**  `TypeCorrect` from `TypeInv`: the types are inductive
  only together with `Occupied` (a task that serves holds a request).
  `Conservation` (`OnePlace`), `LossesAreExcused`, `ShutdownIsClean` and
  `StrandingIsExcused` from one invariant that joins `TypeInv`, `OnePlace`,
  the first half of `LossesExcused` and `Control`.  `Control` is what the tasks
  owe each other: the writer outlives the workers, a worker outlives the queue,
  `main` joins in order, lines leave stdin for good.  Without it a step that
  drops a channel would seem possible while requests are in it, and the last
  worker could leave requests behind without having panicked; the second half of
  `LossesExcused` follows from it.  `IntakeStaysOpen`: the lock of the receiver is held by exactly the worker that waits for a request
  (`Mutex`), so while there is a request and a worker that has not ended, one of
  them has a step to make towards it.  It is `IntakeNeverStalls` with the guards
  of the steps written out, as the prover does not treat ENABLED.
  `Implementation`: every step of the pipeline is a step of `RequestService` or
  a stutter under the mapping `Service`, with lemmas for the cardinality of the
  crew.  On top of it, for `Settings`: `RegionIsNotSuperseded`,
  `RegionsAreNotInverted`, where the invariant adds that whatever the host has
  seen answered is in effect (`Effects`), and that no initialize in effect was
  written after the response to the stored one (`Latest`).
* **`ConfigPool_proofs`.**  `KeyTellsApart`: for texts of every length, two
  connections with colons in their endpoints only and with one key are equal;
  by `PrefixUnique`, field by field.  `TypeCorrect`; `WorkersGetTheirConfig` (an
  entry sits under the key of what it was built from, then `KeyTellsApart`);
  `IdleTimeIsBounded` (an entry that survived a sweep had been used within `Ttl`
  of it, and the next sweep is at most an interval away);
  `UsesKeepEntries` (`UsedStaysPooled`): what was used within `Ttl` is there,
  because an entry never has an earlier `last_used` than the last use of its key
  (`Remembered`), whichever of two overlapping builds was stored last.
* **`Paging_proofs`.**  `RowsComeOnce` in any mode, with any limit and key type:
  the rows received lie at or before the position of the token (`Behind`).
  `ReadingIsComplete`, if no SELECT has a limit (`paging_limit` shows that it
  must): the steady items not received lie behind it (`Ahead`).  A token whose
  type was lost names no position, is not accepted, and so breaks neither.
  `TypeCorrect`: the `page_size` of a response bounds its rows, as the limit
  sent to DynamoDB bounds the page (`Sizes`, with a counting lemma for the first
  items of a set).  What becomes of a token depends on the type of the key
  alone: for a string `StringTokensResume`, every token is accepted with the
  next request; for any other `OtherTokensNeverResume`, no token of a native
  read ever is, so that what `paging_number_key` shows is the rule and not a
  corner.  `ReadingsAreBounded` is the part of `EveryReadingEnds` that needs no
  fairness: each page that offers another moves the token forward (`Moving`), so
  there is at most one answer for each position and one more, whatever others
  insert behind the page.
* **`Arrangements_proofs`.**  A finite set in a strict order has as many places
  as members, each member has one, and what stands later goes later
  (`ArrangedFacts`): by counting what goes before each member (`EarlierGrows`,
  `Places`), which is what takes the place of an induction over a sort.
  `KeptFacts`: what a filter leaves of a list is in its old order, each element
  that passes once.
* **`ClientSideReads_proofs`.**  While a request reads, what it has collected is
  in the order of the table, without repetition, and complete up to the position
  its next token names: every steady item up to there is collected, nothing
  behind it is (`Reading`).  A step joins a page to that, or ends the loop with
  all of it.  `OrderedRowsAreSorted` holds however the loop ends: the places of
  a sorted list are a permutation, and what stands later does not belong
  before (`ArrangedFacts`).  `AggregatesAreOfTheTable`,
  `OrderedRowsAreTheTop` and `LacksAreAnnounced` need that the loop sees the end
  or says that it did not, which the code does not after 10 000 calls; they
  assume `EnoughPages`, that there can be no more items than calls.  Every page
  but the last has an item (`Evaluates` in `TableReads`), so the loop then ends by
  itself.
* **`TableListing_proofs`.**  `SteadyTablesAreListed`, `TablesComeOnce`.  The
  names collected are in order and up to `last`, with every steady table among
  them or still to come (`ListedInOrder`); every name the stream has started is
  in flight or has one row (`DescribedOnce`); sorting rows of different names
  orders them strictly and loses none (`SortedRows`).  `TypeCorrect` adds that
  no more than `Concurrency` describes are in flight (`Bounded`).
  `ListingsAreBounded`: no more tables are listed than there are names, and a
  page with another behind it brings one; so much of `EveryListingEnds` needs no
  fairness.
* **`ItemWrites_proofs`.**  `OutcomesHold`, `InsertsOnlyAdd`, `KeysAreValidated`:
  every item has the attributes of the key, so that a condition finds what it is
  meant to find (`Keyed`); a key that reached its write is one of the schema the
  handler was told (`Validated`); a request that has not begun has written
  nothing (`Unwritten`).  `InsertsSucceedOnce`: each success fills the place of
  its item, and only a deletion makes it free again, so the successes are at most
  the deletions and the place (`Once`); that the place was free follows from
  `Keyed` and from the keys being those the insert was told (`Steady`).
* **`ExecuteQuery_proofs`.**  `ConsentIsAsked`: every plan is `Consented`, since
  the guard looks at the statements that are sent, after every rewriting
  (`DecisionConsented`, branch by branch), and recognises each that wipes a
  table (`WipesAreWarned`).  `TransactionsAreAppliedOnce` and `ReportsHold` from
  one invariant `CInv`: a handler is where its plan, attempts and effects say
  (`Shape`, `Underway`), what was executed under a token is remembered and was
  planned (`Recalled`, `Remembered`), and so a repeat meets its own memory.  All
  three are about texts of any length, which they do not look into: the
  functions of `Statements` stay unexpanded but for the guard.
  `ClientsAreDocumented`: the fields that `normalized_params` leaves are those
  the documents name (`FilledFields`, field by field), and then the chain that
  gives the region, of five sources or, with a profile, of three, agrees with
  `build_client`'s (`ClientIsDocumented`; disagreement 5 above).  It
  assumes that no input has a blank endpoint or key (`Unshadowing`); the run
  `connection_blank` shows that it must.  `TypeCorrect`: no handler calls
  DynamoDB without a client or past its attempts, none is done without an
  answer, and a table that is there has a schema.  It assumes `NoneIsNoValue`,
  that the constant for an absent value is no answer and no client, which is
  what a model value is to TLC.  `DescriptionsHold`: a table that is there is one
  that DynamoDB admits (`AccountOK`), so the columns `describe_table` makes of
  its attributes and of the key columns that are not among them have each name
  once (`DescribedFacts`), exactly those of the key are required
  (`ColumnsAreRight`), and the rows of an index, flattened with those of all
  others, are its columns in order (`RowsOfIndex`), since the place of a row
  tells its index and its number (`PlacesFacts`).  It assumes that no secondary
  index is named `primary` (`PrimaryIsReserved`), see above.  `TextsAreSentAsWritten`
  looks into the texts: whatever is unwrapped, split, stripped or trimmed, what
  goes to `ExecuteStatement` stands in the query word for word, and the
  statements of a transaction stand there one behind the other, each once
  (`SentFrom`).  Every function of `Statements` on the way returns a part of its
  argument (`IsPart`, which is transitive), since the positions it cuts at are
  found in it (`PositionFacts`); the pieces between cuts are disjoint and in
  order (`PiecesFacts`), and trimming and leaving out empty ones keeps that
  (`TrimmedFacts`).  `TextAssumption` says that a query is a text.

Only model-checked: the liveness properties and `IntakeNeverStalls` itself, as
the prover treats neither fairness nor ENABLED; and `PlanAsWritten` and
`GeneratedTablesAreRead`, which compare a text with what was composed, by
induction over its words.  Of the first, that a rewriting adds nothing and
moves nothing is `TextsAreSentAsWritten`; that it cuts at the right places is
what the run shows.

## What is not modelled, and the plan

Not modelled: the React form and the test REPL, which are no part of the plugin
process; the SQL generators of `ddl.rs` other than `get_create_table_sql`, whose
text nothing in the plugin reads; the four functions of `extractor.rs` that no
handler calls; constant answers and the wording of errors; release and CI files.
Documents, lists and sets are left out of the value conversion, and bytes of a
text out of `Statements`: a position found in a lower-cased copy
(`query.rs:790`) is therefore the position in the statement.

Some corners of the text functions are in `Statements` and in no run, because no
document says what they should be: a LIMIT that does not fit a `usize` becomes 0
(`query.rs:798`); an underscore ends a word, so that a table `order_items` counts
as a clause ORDER and its aggregates are not taken over (`query.rs:606`); a
quoted key with a blank in its name loses its type (`query.rs:275`); `IF NOT EXISTS` is parsed
away (`query.rs:288`).  Fields of a native request that its mode does not use are
dropped in silence (`query.rs:1344`).

What would come next:

1. A composition of `Settings`, `ConfigPool` and `ExecuteQuery` along one
   request, so that the config a call is made with is that of the region the
   settings had.
2. Value conversion: which values survive a round trip from item to row to item.
3. Profile files that change, with the pool that keeps what was built from them
   (`pool.rs:52`).
