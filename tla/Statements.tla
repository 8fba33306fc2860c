----------------------------- MODULE Statements -----------------------------
(***************************************************************************)
(* What execute_query reads from the text of a query (handlers/query.rs,   *)
(* handlers/models.rs): functions of the text, without state.              *)
(*                                                                         *)
(* A text is a sequence of tokens.  A token is a longest run of letters    *)
(* and digits, written in capitals, as the code compares them without      *)
(* case; or a blank, a line feed, a mark, or a header that selects a mode. *)
(* Double quotes, back quotes and line feeds go by names in small letters. *)
(* Where the code looks for the beginning of a word it finds whole words   *)
(* only.                                                                   *)
(***************************************************************************)
EXTENDS SequencesExt, Arrangements

CONSTANTS
  None,     \* the absent value of an Option
  Numbers,  \* words made of digits
  Huge      \* those of them that do not fit into a usize

Blanks == {" ", "newline"}
Marks == {"'", "dquote", "backquote", "[", "]", "(", ")", ";", ",", "*", "_", "-", ".", "=",
          ":", "{", "}", "<", ">", "#", "!"}
Opening == {"dquote", "backquote", "["}
Closing(t) == IF t = "[" THEN "]" ELSE t

(***************************************************************************)
(* Texts in general                                                        *)
(***************************************************************************)
From(text, i) == SubSeq(text, i, Len(text))
UpTo(text, i) == SubSeq(text, 1, i)

TrimStart(text) ==
  From(text, Min({i \in DOMAIN text : text[i] \notin Blanks} \union {Len(text) + 1}))
TrimEnd(text, S) ==
  UpTo(text, Max({i \in DOMAIN text : text[i] \notin S} \union {0}))
Trim(text) == TrimStart(TrimEnd(text, Blanks))

\* Without what may stand behind a statement.
TrimTail(text) == TrimEnd(TrimEnd(TrimEnd(text, Blanks), {";"}), Blanks)

Before(text, stops) ==
  UpTo(text, Min({i \in DOMAIN text : text[i] \in stops} \union {Len(text) + 1}) - 1)

\* The positions at which `part' stands in `text'.
Occurrences(part, text) ==
  {i \in DOMAIN text :
     \A k \in DOMAIN part : /\ i + k - 1 \in DOMAIN text
                            /\ text[i + k - 1] = part[k]}

\* The pieces of a text that is cut at the positions `cuts'.
Pieces(text, cuts) ==
  LET n == Cardinality(cuts)
      order == Ascending(cuts)
      cut(k) == CASE k = 0 -> 0 [] k = n + 1 -> Len(text) + 1 [] OTHER -> order[k]
  IN [k \in 1 .. n + 1 |-> SubSeq(text, cut(k - 1) + 1, cut(k) - 1)]

\* The pieces without blanks around them, those that are not empty.
Trimmed(texts) == [k \in DOMAIN texts |-> Trim(texts[k])]
NotEmpty(texts) == Kept(texts, {k \in DOMAIN texts : texts[k] # <<>>})
TrimmedPieces(text, cuts) == NotEmpty(Trimmed(Pieces(text, cuts)))

Parts(text) == TrimmedPieces(text, {i \in DOMAIN text : text[i] \in Blanks})

\* split_whitespace and join: single blanks between the parts.
InLine(parts) ==
  UpTo(FlattenSeq([k \in DOMAIN parts |-> Append(parts[k], " ")]),
       Len(FlattenSeq(parts)) + Len(parts) - 1)
Collapsed(text) == InLine(Parts(text))

\* Whether position i is inside of a string literal.
Quoted(text, i) == Cardinality({j \in 1 .. i - 1 : text[j] = "'"}) % 2 = 1

\* The parentheses open before position i, where one that closes nothing
\* does not count.
Net(text, i, j) ==
  Cardinality({k \in i .. j : text[k] = "("}) - Cardinality({k \in i .. j : text[k] = ")"})
Depth(text, i) == Max({Net(text, j, i - 1) : j \in 1 .. i})

find_keyword(text, keyword) ==
  IF \E i \in DOMAIN text : text[i] = keyword
    THEN Min({i \in DOMAIN text : text[i] = keyword})
    ELSE None

\* Without the IF EXISTS or IF NOT EXISTS before a name.
Unguarded(text) ==
  LET guard == CASE IsPrefix(<<"IF", " ", "NOT", " ", "EXISTS", " ">>, text) -> 6
                 [] IsPrefix(<<"IF", " ", "EXISTS", " ">>, text) -> 4
                 [] OTHER -> 0
  IN Trim(From(text, guard + 1))

FirstName(text) ==
  IF text # <<>> /\ text[1] \in Opening
    THEN Before(Tail(text), {Closing(text[1])})
    ELSE Before(text, (Marks \ {"_", "-", "."}) \union Blanks)

NameOrNone(name) == IF name = <<>> THEN None ELSE name

take_identifier(raw) == NameOrNone(FirstName(Unguarded(Trim(raw))))

(***************************************************************************)
(* The mode of a query                                                     *)
(***************************************************************************)
Modes == {"#!partiql", "#!scan", "#!query", "#!get"}

Query(query) ==
  LET text == TrimStart(query)
      header == Trim(Before(text, {"newline"}))
  IN IF Len(header) = 1 /\ header[1] \in Modes
       THEN [mode |-> header[1],
             body |-> TrimStart(From(text, Len(Before(text, {"newline"})) + 2))]
       ELSE [mode |-> "#!partiql", body |-> text]

(***************************************************************************)
(* Statements of a body, and the guard                                     *)
(***************************************************************************)
\* Faulty variant: a semicolon in a string literal ends a statement, too.
SplitEverywhere(body) == TrimmedPieces(body, {i \in DOMAIN body : body[i] = ";"})

split_statements(body) ==
  TrimmedPieces(body, {i \in DOMAIN body : body[i] = ";" /\ ~Quoted(body, i)})

\* Faulty variant: the beginning is compared with its blanks as they are.
WarnAsWritten(statement) ==
  /\ IsPrefix(<<"DELETE", " ", "FROM">>, statement)
  /\ Occurrences(<<" ", "WHERE", " ">>, statement) = {}

destructive_warning(statement) ==
  LET norm == Collapsed(statement)
  IN /\ IsPrefix(<<"DELETE", " ", "FROM">>, norm)
     /\ Occurrences(<<" ", "WHERE", " ">>, norm) = {}

(***************************************************************************)
(* The derived table the GUI wraps a SELECT in                             *)
(***************************************************************************)
unwrap_derived_table(body) ==
  LET text == Trim(body)
      from == find_keyword(text, "FROM")
      open == from + 1 + Len(From(text, from + 1)) - Len(TrimStart(From(text, from + 1)))
      inside(i) == ~Quoted(From(text, open + 1), i - open)
      count(mark, i) == Cardinality({j \in open + 1 .. i : text[j] = mark /\ inside(j)})
      closes == {i \in open + 1 .. Len(text) :
                   text[i] = ")" /\ inside(i) /\ count(")", i) = count("(", i) + 1}
      close == Min(closes)
      tail == Trim(TrimEnd(From(text, close + 1), {";"}))
      alias == IF IsPrefix(<<"AS", " ">>, tail) THEN Trim(From(tail, 3)) ELSE tail
  IN IF /\ IsPrefix(<<"SELECT", " ">>, text)
        /\ from # None
        /\ open <= Len(text) /\ text[open] = "("
        /\ closes # {}
        /\ tail = <<>> \/ take_identifier(alias) = alias
       THEN Trim(SubSeq(text, open + 1, close - 1))
       ELSE body

(***************************************************************************)
(* LIMIT and ORDER BY, which are applied to the rows instead               *)
(***************************************************************************)
\* Faulty variant: the first LIMIT counts, be it in a string literal.
StripFirstLimit(body) ==
  LET text == TrimTail(body)
      found == Occurrences(<<" ", "LIMIT", " ">>, text)
  IN IF found = {} THEN [statement |-> body, limit |-> None]
     ELSE [statement |-> TrimEnd(UpTo(text, Min(found) - 1), Blanks),
           limit |-> text[Min(found) + 3]]

strip_partiql_limit(body) ==
  LET text == TrimTail(body)
      found == Occurrences(<<" ", "LIMIT", " ">>, text)
      after == Trim(From(text, Max(found) + 3))
  IN IF found # {} /\ Len(after) = 1 /\ after[1] \in Numbers
       THEN [statement |-> TrimEnd(UpTo(text, Max(found) - 1), Blanks),
             limit |-> IF after[1] \in Huge THEN "0" ELSE after[1]]
       ELSE [statement |-> body, limit |-> None]

\* Faulty variant: the first ORDER BY is taken, as by find in the place of rfind.
StripFirstOrderBy(body) ==
  LET text == TrimTail(body)
      found == Occurrences(<<" ", "ORDER", " ", "BY", " ">>, text)
      after == Trim(From(text, Min(found) + 5))
      column == take_identifier(Before(after, Blanks))
      dir == Trim(From(after, Len(Before(after, Blanks)) + 1))
  IN IF found # {} /\ column # None
       THEN [statement |-> TrimEnd(UpTo(text, Min(found) - 1), Blanks),
             order |-> [column |-> column, descending |-> IsPrefix(<<"DESC">>, dir)]]
       ELSE [statement |-> body, order |-> None]

\* The last ORDER BY between blanks, wherever it stands.
strip_partiql_order_by(body) ==
  LET text == TrimTail(body)
      found == Occurrences(<<" ", "ORDER", " ", "BY", " ">>, text)
      after == Trim(From(text, Max(found) + 5))
      column == take_identifier(Before(after, Blanks))
      dir == Trim(From(after, Len(Before(after, Blanks)) + 1))
  IN IF found # {} /\ column # None
       THEN [statement |-> TrimEnd(UpTo(text, Max(found) - 1), Blanks),
             order |-> [column |-> column, descending |-> IsPrefix(<<"DESC">>, dir)]]
       ELSE [statement |-> body, order |-> None]

(***************************************************************************)
(* CREATE TABLE and DROP TABLE                                             *)
(***************************************************************************)
\* Faulty variant: the commas between key columns count, too.
SplitAllCommas(text) == TrimmedPieces(text, {i \in DOMAIN text : text[i] = ","})

split_top_level_commas(text) ==
  TrimmedPieces(text, {i \in DOMAIN text : text[i] = "," /\ Depth(text, i) = 0})

\* <<name, type>>
parse_column_def(def) ==
  LET parts == Parts(def)
      name == take_identifier(parts[1])
  IN IF Len(parts) < 2 \/ name = None THEN None ELSE <<name, parts[2]>>

IsKeyPart(part) == IsPrefix(<<"PRIMARY", " ", "KEY">>, part)

Found(mark, text) == {i \in DOMAIN text : text[i] = mark}

\* The names between the parentheses of a PRIMARY KEY.
KeyColumns(part) ==
  LET list == SubSeq(part, Min(Found("(", part)) + 1, Max(Found(")", part)) - 1)
      pieces == Pieces(list, Found(",", list))
  IN SelectSeq([k \in DOMAIN pieces |-> take_identifier(pieces[k])], LAMBDA n : n # None)

parse_create(rest) ==
  LET open == Min(Found("(", rest))
      close == Max(Found(")", rest))
      table == take_identifier(UpTo(rest, open - 1))
      parts == split_top_level_commas(SubSeq(rest, open + 1, close - 1))
      keyParts == SelectSeq(parts, IsKeyPart)
      listed == SelectSeq(keyParts, LAMBDA p : Min(Found("(", p)) < Max(Found(")", p)))
      keys == IF listed = <<>> THEN <<>> ELSE KeyColumns(Last(listed))
      others == SelectSeq(parts, LAMBDA p : ~IsKeyPart(p))
      defs == [k \in DOMAIN others |-> parse_column_def(others[k])]
      columns == SelectSeq(defs, LAMBDA d : d # None)
      \* The last definition of a column counts.
      type(name) == LET its == {k \in DOMAIN columns : columns[k][1] = name}
                    IN IF its = {} THEN None ELSE columns[Max(its)][2]
  IN IF /\ Found("(", rest) # {} /\ table # None
        /\ Found(")", rest) # {} /\ open < close
        /\ \A k \in DOMAIN keyParts : /\ Found("(", keyParts[k]) # {}
                                      /\ Found(")", keyParts[k]) # {}
        /\ keys # <<>>
       THEN [ddl |-> "create", table |-> table,
             keys |-> [k \in 1 .. (IF Len(keys) = 1 THEN 1 ELSE 2) |->
                         <<keys[k], type(keys[k])>>]]
       ELSE None

parse_ddl(statement) ==
  LET norm == Collapsed(statement)
      rest == Trim(From(norm, 4))
  IN CASE IsPrefix(<<"DROP", " ", "TABLE">>, norm) ->
            IF take_identifier(rest) = None THEN None
            ELSE [ddl |-> "drop", table |-> take_identifier(rest)]
       [] IsPrefix(<<"CREATE", " ", "TABLE">>, norm) -> parse_create(rest)
       [] OTHER -> None

\* The key type of a column type.
scalar_type(type) ==
  CASE type \in {<<"N">>, <<"NUMBER">>, <<"NUMERIC">>, <<"INT">>, <<"INTEGER">>} -> "N"
    [] type \in {<<"B">>, <<"BINARY">>, <<"BLOB">>} -> "B"
    [] OTHER -> "S"

(***************************************************************************)
(* Aggregates                                                              *)
(***************************************************************************)
split_agg_alias(list) ==
  LET as == find_keyword(list, "AS")
      alias == take_identifier(From(list, as + 1))
  IN CASE as # None -> IF alias = None THEN None
                       ELSE [call |-> Trim(UpTo(list, as - 1)), alias |-> alias]
       [] OTHER -> IF Found("(", list) # {} /\ Found(")", list) # {}
                     THEN [call |-> list, alias |-> None] ELSE None

strip_agg_quotes(arg) ==
  IF /\ Len(arg) >= 2
     /\ \E q \in {"dquote", "backquote"} : arg[1] = q /\ Last(arg) = q
    THEN SubSeq(arg, 2, Len(arg) - 1) ELSE arg

Functions == {"COUNT", "SUM", "AVG", "MIN", "MAX"}
Clauses == {"WHERE", "GROUP", "HAVING", "ORDER", "LIMIT", "JOIN"}

parse_aggregate(sql) ==
  LET text == Trim(sql)
      rest == From(text, 3)
      from == find_keyword(rest, "FROM")
      after == Trim(From(rest, from + 1))
      parts == split_agg_alias(Trim(UpTo(rest, from - 1)))
      call == parts.call
      open == Min(Found("(", call))
      close == Max(Found(")", call))
      func == Trim(UpTo(call, open - 1))
      arg == Trim(SubSeq(call, open + 1, close - 1))
  IN IF /\ IsPrefix(<<"SELECT", " ">>, text)
        /\ from # None
        /\ take_identifier(after) # None
        /\ \A kw \in Clauses : find_keyword(after, kw) = None
        /\ parts # None
        /\ Found(",", call) = {}
        /\ Found("(", call) # {} /\ Found(")", call) # {} /\ open <= close
        /\ Len(func) = 1 /\ func[1] \in Functions
        /\ arg # <<>>
       THEN [table |-> take_identifier(after), func |-> func[1],
             column |-> IF func[1] = "COUNT" /\ arg = <<"*">> THEN None
                        ELSE strip_agg_quotes(arg),
             alias |-> IF parts.alias = None THEN func ELSE parts.alias]
       ELSE None

(***************************************************************************)
(* The mapping of a native request                                         *)
(***************************************************************************)
\* A mapping is a function from names of fields to values, each a record of
\* its type, "string", "int" or another, and its data.
FieldNames ==
  [table_name |-> <<"TableName", "table_name">>,
   limit |-> <<"Limit", "limit">>,
   partition_key |-> <<"PartitionKey", "partition_key", "pk">>,
   partition_value |-> <<"PartitionValue", "partition_value", "pk_value">>,
   sort_key_name |-> <<"SortKeyName", "sort_key_name", "sk">>,
   sort_key_value |-> <<"SortKeyValue", "sort_key_value", "sk_value">>,
   key |-> <<"Key", "key">>]

KnownKeys == UNION {ToSet(FieldNames[f]) : f \in DOMAIN FieldNames}

FirstOf(mapping, names) ==
  LET given == SelectSeq(names, LAMBDA n : n \in DOMAIN mapping)
  IN IF given = <<>> THEN None ELSE mapping[given[1]]

\* The data of a value that is of this type.
As(type, value) ==
  IF value # None /\ value.type = type THEN value.data ELSE None

\* The first of the names that holds a string.
StrOf(mapping, names) ==
  LET given == SelectSeq(names, LAMBDA n : n \in DOMAIN mapping
                                             /\ mapping[n].type = "string")
  IN IF given = <<>> THEN None ELSE mapping[given[1]].data

parse_native_body(mapping) ==
  LET get(f) == FirstOf(mapping, FieldNames[f])
      str(f) == StrOf(mapping, FieldNames[f])
  IN IF \/ mapping = None \* not the text of a mapping
        \/ DOMAIN mapping \ KnownKeys # {}
        \/ As("string", get("table_name")) = None
       THEN None
       ELSE [table_name |-> get("table_name").data,
             limit |-> As("int", get("limit")),
             partition_key |-> str("partition_key"),
             partition_value |-> get("partition_value"),
             sort_key_name |-> str("sort_key_name"),
             sort_key_value |-> get("sort_key_value"),
             key |-> As("mapping", get("key"))]

(***************************************************************************)
(* The text of a CREATE TABLE (handlers/ddl.rs)                            *)
(***************************************************************************)
InQuotes(name) == <<"dquote">> \o name \o <<"dquote">>

\* The texts with a comma and a blank between them.
Listed(texts) ==
  FlattenSeq([k \in DOMAIN texts |->
                IF k = 1 THEN texts[k] ELSE <<",", " ">> \o texts[k]])

dynamodb_type_to_sql(raw) ==
  CASE raw = "S" -> "STRING"
    [] raw = "N" -> "NUMBER"
    [] raw = "B" -> "BINARY"
    [] raw = "BOOL" -> "BOOLEAN"
    [] raw \in {"L", "M"} -> "JSON"
    [] OTHER -> raw

\* columns is a sequence of [name, type], an absent type being None.
create_table_sql(table, columns, partition_key, sort_key) ==
  LET sql(c) == IF c.type = None THEN "STRING" ELSE dynamodb_type_to_sql(c.type)
      its(name) == SelectSeq(columns, LAMBDA c : c.name = name)
      def(name) == InQuotes(name) \o
                     <<" ", IF its(name) = <<>> THEN "STRING" ELSE sql(its(name)[1])>>
      keys == SelectSeq(<<partition_key, sort_key>>, LAMBDA k : k # None)
      others == SelectSeq(columns, LAMBDA c : c.name \notin ToSet(keys))
      defs == [k \in DOMAIN keys |-> def(keys[k])]
                \o [k \in DOMAIN others |->
                      InQuotes(others[k].name) \o <<" ", sql(others[k])>>]
      names == IF keys = <<>> THEN << <<"ID">> >> ELSE keys
  IN <<"CREATE", " ", "TABLE", " ">> \o InQuotes(table) \o <<" ", "(">> \o
       (IF columns = <<>> /\ partition_key = None
          THEN <<"ID", " ", "STRING", ",", " ", "PRIMARY", " ", "KEY", " ", "(", "ID", ")">>
          ELSE Listed(defs) \o <<",", " ", "PRIMARY", " ", "KEY", " ", "(">>
                 \o Listed([k \in DOMAIN names |-> InQuotes(names[k])]) \o <<")">>)
       \o <<")">>
=============================================================================
