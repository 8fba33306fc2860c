-------------------------- MODULE ExecuteQuery_proofs --------------------------
(***************************************************************************)
(* Proofs about ExecuteQuery, for every text, connection and account, any  *)
(* number of requests side by side, of attempts and of changes.            *)
(***************************************************************************)
EXTENDS ExecuteQuery, Arrangements_proofs, SequenceTheorems

(***************************************************************************)
(* No plan sends a DELETE without WHERE that nobody agreed to              *)
(***************************************************************************)
LEMMA FirstOfTwo == \A a, b : <<a, b>>[1] = a
OBVIOUS

LEMMA FirstOfThree == \A a, b, c : <<a, b, c>>[1] = a
OBVIOUS

LEMMA SecondOfThree ==
  ASSUME NEW a, NEW b, NEW c
  PROVE  2 \in DOMAIN <<a, b, c>> /\ <<a, b, c>>[2] = b
OBVIOUS

\* The guard looks for WHERE between blanks, which is a word.
LEMMA WipesAreWarned ==
  \A statement : Wipes(statement) => destructive_warning(statement)
<1> SUFFICES ASSUME NEW statement, Wipes(statement),
                    NEW i \in Occurrences(<<" ", "WHERE", " ">>, Collapsed(statement))
             PROVE  FALSE
  BY DEF Wipes, destructive_warning
<1> DEFINE norm == Collapsed(statement)
           part == <<" ", "WHERE", " ">>
<1>1. 2 \in DOMAIN part
  BY SecondOfThree
<1>2. part[2] = "WHERE"
  BY SecondOfThree
<1> HIDE DEF norm, part
<1>3. i \in Occurrences(part, norm)
  BY DEF norm, part
<1>4. i + 2 - 1 \in DOMAIN norm /\ norm[i + 2 - 1] = part[2]
  BY <1>1, <1>3 DEF Occurrences
<1> QED
  BY <1>2, <1>4 DEF Wipes, norm

Consented(r, p) ==
  ~r.allow_destructive => \A statement \in SentStatements(p) : ~Wipes(statement)

LEMMA SilentPlans ==
  \A r, p : p.act \notin {"transaction", "statement", "ordered"} => Consented(r, p)
BY DEF Consented, SentStatements

LEMMA SingleConsented == \A r, body : Consented(r, Single(r, body))
<1> SUFFICES ASSUME NEW r, NEW body PROVE Consented(r, Single(r, body))
  OBVIOUS
<1> DEFINE limited == strip_partiql_limit(body)
           ordered == strip_partiql_order_by(limited.statement)
           statement == ordered.statement
           p == Single(r, body)
<1>1. CASE Guarded(r, <<statement>>)
  BY <1>1, SilentPlans DEF Single, Warn
<1>2. CASE ~Guarded(r, <<statement>>)
  <2>1. ~r.allow_destructive => ~Wipes(statement)
    BY <1>2, WipesAreWarned DEF Guarded
  <2>2. \/ p.act \in {"create", "drop", "aggregate"}
        \/ p.act \in {"statement", "ordered"} /\ p.statement = statement
    BY <1>2 DEF Single, execute_ddl
  <2>3. CASE p.act \in {"create", "drop", "aggregate"}
    BY <2>3, SilentPlans
  <2>4. CASE p.act \in {"statement", "ordered"} /\ p.statement = statement
    BY <2>1, <2>4 DEF Consented, SentStatements
  <2> QED
    BY <2>2, <2>3, <2>4
<1> QED
  BY <1>1, <1>2

LEMMA PartiqlConsented == \A r, text : Consented(r, Partiql(r, text))
<1> SUFFICES ASSUME NEW r, NEW text PROVE Consented(r, Partiql(r, text))
  OBVIOUS
<1> DEFINE body == unwrap_derived_table(text)
           statements == split_statements(body)
<1>1. CASE r.next_token \/ Len(statements) <= 1
  BY <1>1, SingleConsented DEF Partiql
<1>2. CASE ~(r.next_token \/ Len(statements) <= 1) /\ Guarded(r, statements)
  BY <1>2, SilentPlans DEF Partiql, Warn
<1>3. CASE ~(r.next_token \/ Len(statements) <= 1) /\ ~Guarded(r, statements)
  <2>1. Partiql(r, text) = Transaction(r, statements)
    BY <1>3 DEF Partiql
  <2>2. ~r.allow_destructive => \A k \in DOMAIN statements : ~Wipes(statements[k])
    BY <1>3, WipesAreWarned DEF Guarded
  <2>3. CASE Len(statements) > MaxStatements
    BY <2>1, <2>3, SilentPlans DEF Transaction, Refuse
  <2>4. CASE ~(Len(statements) > MaxStatements)
    BY <2>1, <2>2, <2>4 DEF Transaction, Consented, SentStatements, ToSet
  <2> QED
    BY <2>3, <2>4
<1> QED
  BY <1>1, <1>2, <1>3

LEMMA DecisionConsented == \A r : Consented(r, Decision(r))
<1> SUFFICES ASSUME NEW r PROVE Consented(r, Decision(r))
  OBVIOUS
<1> DEFINE query == Query(extract_query(r))
           req == parse_native_body(r.fields)
<1>1. CASE r.method = "execute_query"
  <2>1. Decision(r) = execute_query(r)
    BY <1>1 DEF Decision
  <2>2. query.mode \in Modes
    BY DEF Query, Modes
  <2>3. CASE query.mode = "#!partiql"
    BY <2>1, <2>3, PartiqlConsented DEF execute_query
  <2>4. CASE query.mode # "#!partiql"
    <3> HIDE DEF query, req
    <3>1. \/ execute_query(r) = Refuse
          \/ execute_query(r) = Scan(r, req)
          \/ execute_query(r) = KeyQuery(r, req)
          \/ execute_query(r) = Get(req)
      BY <2>2, <2>4 DEF execute_query, Modes, query, req
    <3>2. execute_query(r).act \in {"refuse", "scan", "query", "get"}
      BY <3>1 DEF Refuse, Scan, KeyQuery, Get
    <3> QED
      BY <2>1, <3>2, SilentPlans
  <2> QED
    BY <2>3, <2>4
<1>2. CASE r.method # "execute_query"
  <2>1. Decision(r).act \in {"drop", "get_columns", "get_indexes", "ping"}
    BY <1>2 DEF Decision, drop_table, test_connection
  <2> QED
    BY <2>1, SilentPlans
<1> QED
  BY <1>1, <1>2

\* What a step does to the plans: a handler that received its request decides
\* once, and otherwise plans stand.
Planned(r, p) ==
  p = Refuse \/ p.act = "sql" \/ (Argument(r) # None /\ p = Decision(r))

Decides(s) ==
  /\ stage[s] = "received"
  /\ \E p : Planned(request[s], p) /\ Decide(s, p)

LEMMA HandlersDecide ==
  ASSUME NEW s \in Sends, RefuseArguments(s) \/ get_create_table_sql(s) \/ Receive(s)
  PROVE  Decides(s)
<1>1. CASE RefuseArguments(s)
  BY <1>1 DEF RefuseArguments, Decides, Planned
<1>2. CASE get_create_table_sql(s)
  BY <1>2 DEF get_create_table_sql, Decides, Planned
<1>3. CASE Receive(s)
  BY <1>3 DEF Receive, Decides, Planned
<1> QED
  BY <1>1, <1>2, <1>3

\* The actions of a handler that calls.
Acts(s) ==
  \/ create_table(s) \/ delete_table(s) \/ execute_transaction(s)
  \/ execute_statement(s) \/ Read(s) \/ describe_table(s) \/ Fail(s)

\* A step that is no decision, as far as the plans are concerned.
Stands == UNCHANGED <<plan, request>>

LEMMA Steps ==
  ASSUME [Next]_vars
  PROVE  \/ \E s \in Sends : Decides(s)
         \/ \E s \in Sends : Acts(s)
         \/ UNCHANGED <<request, handlers, remembered>>
<1>1. CASE UNCHANGED vars
  BY <1>1 DEF vars, account
<1>2. CASE \E t \in Tables : Settle(t) \/ OthersChange(t)
  BY <1>2 DEF Settle, OthersChange
<1>3. CASE \E s \in Sends : \/ RefuseArguments(s) \/ get_create_table_sql(s)
                            \/ Receive(s) \/ Acts(s)
  BY <1>3, HandlersDecide
<1> QED
  BY <1>1, <1>2, <1>3 DEF Next, Acts

LEMMA ActsStand == ASSUME NEW s \in Sends, Acts(s) PROVE Stands
BY DEF Acts, Stands, create_table, delete_table, execute_transaction, execute_statement,
       Read, describe_table, Fail, Attempted

ConsentInv == DOMAIN plan = Sends /\ ConsentBeforeWipe

LEMMA ConsentNext == ConsentInv /\ [Next]_vars => ConsentInv'
<1> SUFFICES ASSUME ConsentInv, [Next]_vars PROVE ConsentInv'
  OBVIOUS
<1>1. CASE Stands
  BY <1>1 DEF Stands, ConsentInv, ConsentBeforeWipe
<1>2. ASSUME NEW s \in Sends, Decides(s)
      PROVE  ConsentInv'
  <2>1. PICK p : Planned(request[s], p) /\ Decide(s, p)
    BY <1>2 DEF Decides
  <2>2. Consented(request[s], p)
    BY <2>1, SilentPlans, DecisionConsented DEF Planned, Refuse
  <2>3. /\ request' = request /\ DOMAIN plan' = Sends
        /\ \A u \in Sends : plan'[u] = IF u = s THEN p ELSE plan[u]
    BY <2>1 DEF Decide, ConsentInv
  <2> QED
    BY <2>2, <2>3 DEF Consented, ConsentInv, ConsentBeforeWipe
<1> QED
  BY <1>1, <1>2, Steps, ActsStand DEF Stands, handlers

\* Without allow_destructive no DELETE without WHERE is sent, whatever the text
\* and the branch of execute_query that it takes.
THEOREM ConsentIsAsked == Spec => []ConsentBeforeWipe
<1>1. Init => ConsentInv
  BY DEF Init, ConsentInv, ConsentBeforeWipe
<1>2. ConsentInv => ConsentBeforeWipe
  BY DEF ConsentInv
<1> QED
  BY <1>1, <1>2, ConsentNext, PTL DEF Spec

(***************************************************************************)
(* Calls: what DynamoDB did, what it remembers, what is reported           *)
(***************************************************************************)
Shape ==
  /\ DOMAIN plan = Sends /\ DOMAIN stage = Sends
  /\ DOMAIN reply = Sends /\ DOMAIN effects = Sends
  /\ attempts \in [Sends -> Nat]

\* A handler that calls has not replied, one that has not called did nothing,
\* and a transaction carries the token that was asked for.
Underway ==
  \A s \in Sends :
    /\ stage[s] \in {"received", "calling"} => reply[s] = None
    /\ stage[s] = "received" => effects[s] = {}
    /\ stage[s] = "calling" /\ attempts[s] = 0 => effects[s] = {}
    /\ stage[s] = "calling" /\ plan[s].act = "transaction" => Token(s) = AskedToken(s)

Did(s) == \E e \in effects[s] : e[1] = "applied"

\* DynamoDB remembers the transactions it applied, and no others.
Recalled ==
  \A s \in Sends : Did(s) => \E m \in remembered : m[1] = AskedToken(s)

Remembered ==
  \A m \in remembered : \E u \in Sends :
    Did(u) /\ m[1] = AskedToken(u) /\ m[2] = plan[u].statements

CInv == Shape /\ Underway /\ Recalled /\ Remembered /\ AppliedOnce /\ ReportsAreTrue

\* What an answer may be for what was done: without an effect there is no
\* report of one, and what was done is what is reported.
Harmless(s) ==
  /\ \E r : Attempted(s, r) /\ r.kind \notin {"created", "dropped", "applied"}
  /\ UNCHANGED <<effects, remembered>>

Telling(s) ==
  /\ \E r, e :
       /\ Attempted(s, r) /\ Effect(s, e) /\ e[1] # "applied"
       /\ r.kind \in {"created", "dropped", "rows"}
       /\ r.kind = "created" => e = <<"created", plan[s].table, plan[s].keys>>
       /\ r.kind = "dropped" => e = <<"dropped", plan[s].table>>
  /\ UNCHANGED remembered

Mine(s) == <<Token(s), plan[s].statements>>

Applies(s) ==
  /\ plan[s].act = "transaction"
  /\ \A m \in remembered : m[1] # Token(s)
  /\ remembered' = remembered \union {Mine(s)}
  /\ Effect(s, <<"applied", attempts[s]>>)
  /\ \E r : Attempted(s, r) /\ r.kind = "applied"

Repeats(s) ==
  /\ plan[s].act = "transaction"
  /\ Mine(s) \in remembered
  /\ \E r : Attempted(s, r) /\ r.kind = "applied"
  /\ UNCHANGED <<effects, remembered>>

LEMMA Calling ==
  ASSUME NEW s \in Sends, Acts(s)
  PROVE  /\ stage[s] = "calling" /\ Stands
         /\ Harmless(s) \/ Telling(s) \/ Applies(s) \/ Repeats(s)
<1>1. stage[s] = "calling" /\ Stands
  BY ActsStand DEF Acts, create_table, delete_table, execute_transaction,
     execute_statement, Read, describe_table, Fail, Calls
<1>2. CASE create_table(s)
  <2> DEFINE e == <<"created", plan[s].table, plan[s].keys>>
  <2>1. UNCHANGED remembered
    BY <1>2 DEF create_table
  <2>2. e[1] # "applied"
    BY FirstOfThree
  <2>3. /\ CreateReport("ok").kind = "created"
        /\ CreateReport("in use").kind = "already exists"
    BY DEF CreateReport
  <2> HIDE DEF e
  <2>4. \/ Effect(s, e) /\ Attempted(s, CreateReport("ok"))
        \/ UNCHANGED effects /\ Attempted(s, CreateReport("in use"))
    BY <1>2 DEF create_table, e
  <2>5. Harmless(s) \/ Telling(s)
    BY <2>1, <2>2, <2>3, <2>4 DEF Harmless, Telling, e
  <2> QED
    BY <1>1, <2>5
<1>3. CASE delete_table(s)
  <2> DEFINE e == <<"dropped", plan[s].table>>
  <2>1. UNCHANGED remembered
    BY <1>3 DEF delete_table
  <2>2. e[1] # "applied"
    BY FirstOfTwo
  <2>3. /\ DropReport("ok").kind = "dropped"
        /\ DropReport("in use").kind = "busy"
        /\ DropReport("not found").kind = "not found"
    BY DEF DropReport
  <2> HIDE DEF e
  <2>4. \/ Effect(s, e) /\ Attempted(s, DropReport("ok"))
        \/ UNCHANGED effects /\ Attempted(s, DropReport("in use"))
        \/ UNCHANGED effects /\ Attempted(s, DropReport("not found"))
    BY <1>3 DEF delete_table, e
  <2>5. Harmless(s) \/ Telling(s)
    BY <2>1, <2>2, <2>3, <2>4 DEF Harmless, Telling, e
  <2> QED
    BY <1>1, <2>5
<1>4. CASE execute_transaction(s)
  <2> DEFINE known == {m \in remembered : m[1] = Token(s)}
             report == [kind |-> "applied", rows |-> Len(plan[s].statements)]
  <2>1. report.kind = "applied" /\ plan[s].act = "transaction"
    BY <1>4 DEF execute_transaction, Calls
  <2> HIDE DEF report
  <2>2. \/ /\ known = {} /\ remembered' = remembered \union {Mine(s)}
           /\ Effect(s, <<"applied", attempts[s]>>) /\ Attempted(s, report)
        \/ /\ known = {Mine(s)} /\ UNCHANGED <<remembered, effects>>
           /\ Attempted(s, report)
        \/ UNCHANGED <<remembered, effects>> /\ Attempted(s, [kind |-> "failed"])
    BY <1>4 DEF execute_transaction, Mine, report
  <2> QED
    BY <1>1, <2>1, <2>2 DEF Applies, Repeats, Harmless
<1>5. CASE execute_statement(s)
  <2>1. <<"executed", attempts[s]>>[1] # "applied"
    BY FirstOfTwo
  <2>2. Telling(s)
    BY <1>5, <2>1 DEF execute_statement, Telling, account
  <2> QED
    BY <1>1, <2>2
<1>6. CASE Read(s) \/ Fail(s)
  BY <1>1, <1>6 DEF Read, Fail, Harmless, account
<1>7. CASE describe_table(s)
  BY <1>1, <1>7 DEF describe_table, Harmless, account, Calls
<1> QED
  BY <1>1, <1>2, <1>3, <1>4, <1>5, <1>6, <1>7 DEF Acts

LEMMA AttemptStep ==
  ASSUME Shape, NEW s \in Sends, NEW r, Attempted(s, r)
  PROVE  /\ DOMAIN stage' = Sends /\ DOMAIN reply' = Sends
         /\ attempts' \in [Sends -> Nat]
         /\ \A u \in Sends \ {s} : /\ stage'[u] = stage[u] /\ reply'[u] = reply[u]
                                   /\ attempts'[u] = attempts[u]
         /\ \/ stage'[s] = "done" /\ reply'[s] = r /\ attempts'[s] = attempts[s]
            \/ /\ attempts'[s] = attempts[s] + 1
               /\ \/ stage'[s] = stage[s] /\ reply'[s] = reply[s]
                  \/ stage'[s] = "done" /\ reply'[s].kind = "failed"
<1>1. CASE Answered(s, r)
  BY <1>1 DEF Answered, Shape
<1>2. CASE Unanswered(s)
  <2>1. attempts' \in [Sends -> Nat] /\ attempts'[s] = attempts[s] + 1
    BY <1>2 DEF Unanswered, Shape
  <2>2. \A u \in Sends \ {s} : attempts'[u] = attempts[u]
    BY <1>2 DEF Unanswered, Shape
  <2>3. CASE UNCHANGED <<stage, reply>>
    BY <2>1, <2>2, <2>3 DEF Shape
  <2>4. CASE /\ stage' = [stage EXCEPT ![s] = "done"]
             /\ reply' = [reply EXCEPT ![s] = [kind |-> "failed"]]
    BY <2>1, <2>2, <2>4 DEF Shape
  <2> QED
    BY <1>2, <2>3, <2>4 DEF Unanswered
<1> QED
  BY <1>1, <1>2 DEF Attempted

\* What a call leaves as it is, and what its effects are.
LEMMA ActStep ==
  ASSUME CInv, NEW s \in Sends, Acts(s)
  PROVE  /\ Shape' /\ plan' = plan /\ request' = request
         /\ \A u \in Sends \ {s} : effects'[u] = effects[u]
         /\ \A u \in Sends : effects[u] \subseteq effects'[u]
         /\ remembered \subseteq remembered'
         /\ \A u \in Sends \ {s} : /\ stage'[u] = stage[u] /\ reply'[u] = reply[u]
                                   /\ attempts'[u] = attempts[u]
         /\ stage'[s] \in {"calling", "done"}
<1>1. PICK r : Attempted(s, r)
  BY Calling DEF Harmless, Telling, Applies, Repeats
<1>2. \/ UNCHANGED <<effects, remembered>>
      \/ (\E e : Effect(s, e)) /\ remembered \subseteq remembered'
  BY Calling DEF Harmless, Telling, Applies, Repeats
<1>3. /\ DOMAIN effects' = Sends
      /\ \A u \in Sends \ {s} : effects'[u] = effects[u]
      /\ \A u \in Sends : effects[u] \subseteq effects'[u]
      /\ remembered \subseteq remembered'
  BY <1>2 DEF Effect, CInv, Shape
<1>4. stage[s] = "calling" /\ plan' = plan /\ request' = request
  BY Calling DEF Stands
<1>5. Shape
  BY DEF CInv
<1>6. Shape'
  BY <1>1, <1>3, <1>4, <1>5, AttemptStep DEF Shape
<1> QED
  BY <1>1, <1>3, <1>4, <1>5, <1>6, AttemptStep

\* The parts of the invariant, one by one.
LEMMA ActUnderway == ASSUME CInv, NEW s \in Sends, Acts(s) PROVE Underway'
<1>1. /\ stage[s] = "calling"
      /\ Harmless(s) \/ Telling(s) \/ Applies(s) \/ Repeats(s)
  BY Calling
<1>2. PICK r : Attempted(s, r)
  BY <1>1 DEF Harmless, Telling, Applies, Repeats
<1>3. attempts[s] \in Nat /\ Shape /\ reply[s] = None
  BY <1>1 DEF CInv, Shape, Underway
<1>4. stage'[s] = "calling" => reply'[s] = None /\ attempts'[s] # 0
  BY <1>1, <1>2, <1>3, AttemptStep
<1>5. stage'[s] # "received"
  BY ActStep
<1>6. \A u \in Sends : AskedToken(u)' = AskedToken(u) /\ Token(u)' = Token(u)
  BY ActStep DEF AskedToken, Token
<1>7. ASSUME NEW u \in Sends
      PROVE  /\ stage'[u] \in {"received", "calling"} => reply'[u] = None
             /\ stage'[u] = "received" => effects'[u] = {}
             /\ stage'[u] = "calling" /\ attempts'[u] = 0 => effects'[u] = {}
             /\ stage'[u] = "calling" /\ plan'[u].act = "transaction"
                  => Token(u)' = AskedToken(u)'
  <2>1. CASE u = s
    BY <1>1, <1>4, <1>5, <1>6, <2>1, ActStep DEF CInv, Underway
  <2>2. CASE u # s
    BY <1>6, <2>2, ActStep DEF CInv, Underway
  <2> QED
    BY <2>1, <2>2
<1> QED
  BY <1>7 DEF Underway

LEMMA ActTransactions ==
  ASSUME CInv, NEW s \in Sends, Acts(s)
  PROVE  Recalled' /\ Remembered' /\ AppliedOnce'
<1> USE DEF Did
<1>1. \A u \in Sends : AskedToken(u)' = AskedToken(u)
  BY ActStep DEF AskedToken
<1>2. plan' = plan /\ \A u \in Sends : effects[u] \subseteq effects'[u]
  BY ActStep
<1>3. CASE ~Applies(s)
  <2>1. \A u \in Sends : \A e \in effects'[u] : e[1] = "applied" => e \in effects[u]
    <3>1. CASE UNCHANGED effects
      BY <3>1
    <3>2. CASE Telling(s)
      <4>1. PICK e : Effect(s, e) /\ e[1] # "applied"
        BY <3>2 DEF Telling
      <4> QED
        BY <4>1, ActStep DEF Effect, CInv, Shape
    <3> QED
      BY <1>3, <3>1, <3>2, Calling DEF Harmless, Repeats
  <2>2. remembered' = remembered
    BY <1>3, Calling DEF Harmless, Telling, Repeats
  <2>3. Recalled'
    BY <1>1, <2>1, <2>2 DEF CInv, Recalled
  <2>4. Remembered'
    BY <1>1, <1>2, <2>2 DEF CInv, Remembered
  <2>5. AppliedOnce'
    BY <1>1, <2>1 DEF CInv, AppliedOnce
  <2> QED
    BY <2>3, <2>4, <2>5
<1>4. CASE Applies(s)
  <2> DEFINE e == <<"applied", attempts[s]>>
  <2>1. e[1] = "applied"
    BY FirstOfTwo
  <2>2. Mine(s)[1] = Token(s) /\ Mine(s)[2] = plan[s].statements
    BY DEF Mine
  <2>3. Token(s) = AskedToken(s)
    BY <1>4, Calling DEF Applies, CInv, Underway
  <2> HIDE DEF e
  <2>4. /\ effects'[s] = effects[s] \union {e}
        /\ \A u \in Sends \ {s} : effects'[u] = effects[u]
    BY <1>4, ActStep DEF Applies, Effect, CInv, Shape, e
  <2>5. remembered' = remembered \union {Mine(s)}
    BY <1>4 DEF Applies
  <2>6. \A u \in Sends : AskedToken(u) = AskedToken(s) => ~Did(u)
    BY <1>4, <2>3 DEF Applies, CInv, Recalled
  <2>7. Recalled'
    BY <1>1, <2>2, <2>3, <2>4, <2>5 DEF CInv, Recalled
  <2>8. Remembered'
    <3>1. ASSUME NEW m \in remembered
          PROVE  \E u \in Sends : /\ \E f \in effects'[u] : f[1] = "applied"
                                  /\ m[1] = AskedToken(u)
                                  /\ m[2] = plan[u].statements
      BY <1>2 DEF CInv, Remembered
    <3>2. /\ \E f \in effects'[s] : f[1] = "applied"
          /\ Mine(s)[1] = AskedToken(s) /\ Mine(s)[2] = plan[s].statements
      BY <2>1, <2>2, <2>3, <2>4
    <3> QED
      BY <1>1, <1>2, <2>5, <3>1, <3>2 DEF Remembered
  <2>9. AppliedOnce'
    BY <1>1, <2>4, <2>6 DEF CInv, AppliedOnce
  <2> QED
    BY <2>7, <2>8, <2>9
<1> QED
  BY <1>3, <1>4

LEMMA ActReports == ASSUME CInv, NEW s \in Sends, Acts(s) PROVE ReportsAreTrue'
<1>1. /\ plan' = plan
      /\ \A u \in Sends : effects[u] \subseteq effects'[u] /\ AskedToken(u)' = AskedToken(u)
  BY ActStep DEF AskedToken
<1>2. ASSUME NEW u \in Sends, u # s, reply'[u] # None
      PROVE  ReportIsTrue(u)'
  <2>1. reply'[u] = reply[u] /\ attempts'[u] = attempts[u] /\ effects'[u] = effects[u]
    BY <1>2, ActStep
  <2>2. ReportIsTrue(u)
    BY <1>2, <2>1 DEF CInv, ReportsAreTrue
  <2> QED
    BY <1>1, <2>1, <2>2 DEF ReportIsTrue
<1>3. ASSUME reply'[s] # None
      PROVE  ReportIsTrue(s)'
  <2>1. /\ stage[s] = "calling" /\ reply[s] = None /\ attempts[s] \in Nat /\ Shape
        /\ attempts[s] = 0 => effects[s] = {}
        /\ plan[s].act = "transaction" => Token(s) = AskedToken(s)
    BY Calling DEF CInv, Shape, Underway
  <2>2. ASSUME attempts'[s] = attempts[s] + 1, reply'[s].kind = "failed"
        PROVE  ReportIsTrue(s)'
    BY <2>1, <2>2 DEF ReportIsTrue
  <2>3. ASSUME NEW r, Attempted(s, r)
        PROVE  \/ reply'[s] = r /\ attempts'[s] = attempts[s]
               \/ attempts'[s] = attempts[s] + 1 /\ reply'[s].kind = "failed"
    BY <1>3, <2>1, <2>3, AttemptStep
  <2>4. CASE Harmless(s)
    <3>1. PICK r : Attempted(s, r) /\ r.kind \notin {"created", "dropped", "applied"}
      BY <2>4 DEF Harmless
    <3>2. effects' = effects
      BY <2>4 DEF Harmless
    <3> QED
      BY <2>1, <2>2, <2>3, <3>1, <3>2 DEF ReportIsTrue
  <2>5. CASE Telling(s)
    <3>1. PICK r, e :
            /\ Attempted(s, r) /\ Effect(s, e)
            /\ r.kind \in {"created", "dropped", "rows"}
            /\ r.kind = "created" => e = <<"created", plan[s].table, plan[s].keys>>
            /\ r.kind = "dropped" => e = <<"dropped", plan[s].table>>
      BY <2>5 DEF Telling
    <3>2. e \in effects'[s]
      BY <2>1, <3>1 DEF Effect, Shape
    <3>3. CASE reply'[s] = r
      BY <1>1, <3>1, <3>2, <3>3 DEF ReportIsTrue, Successes
    <3> QED
      BY <2>2, <2>3, <3>1, <3>3
  <2>6. CASE Applies(s) \/ Repeats(s)
    <3>1. PICK r : Attempted(s, r) /\ r.kind = "applied"
      BY <2>6 DEF Applies, Repeats
    <3>2. Mine(s) \in remembered' /\ Token(s) = AskedToken(s)
      BY <2>1, <2>6 DEF Applies, Repeats
    <3>3. Mine(s)[1] = Token(s) /\ Mine(s)[2] = plan[s].statements
      BY DEF Mine
    <3>4. \E u \in Sends : /\ \E e \in effects'[u] : e[1] = "applied"
                           /\ AskedToken(u)' = AskedToken(s)'
                           /\ plan'[u].statements = plan'[s].statements
      BY <1>1, <3>2, <3>3, ActTransactions DEF Remembered, Did
    <3>5. CASE reply'[s] = r
      BY <3>1, <3>4, <3>5 DEF ReportIsTrue, Successes
    <3> QED
      BY <2>2, <2>3, <3>1, <3>5
  <2> QED
    BY <2>4, <2>5, <2>6, Calling
<1> QED
  BY <1>2, <1>3 DEF ReportsAreTrue

(***************************************************************************)
(* Decisions                                                               *)
(***************************************************************************)
\* A transaction is planned with the token the host gave.
LEMMA TokenIsPlanned ==
  \A r, p : Planned(r, p) /\ p.act = "transaction" => p.token = r.client_request_token
<1> SUFFICES ASSUME NEW r, Decision(r).act = "transaction"
             PROVE  Decision(r).token = r.client_request_token
  BY DEF Planned, Refuse
<1> DEFINE query == Query(extract_query(r))
           req == parse_native_body(r.fields)
<1>1. ASSUME NEW body PROVE Single(r, body).act # "transaction"
  BY DEF Single, Warn, execute_ddl
<1>2. ASSUME NEW text, Partiql(r, text).act = "transaction"
      PROVE  Partiql(r, text).token = r.client_request_token
  BY <1>1, <1>2 DEF Partiql, Warn, Transaction, Refuse
<1>3. r.method = "execute_query" /\ query.mode \in Modes
  BY DEF Decision, drop_table, test_connection, Query, Modes
<1> HIDE DEF query, req
<1>4. \/ execute_query(r) = Partiql(r, query.body)
      \/ execute_query(r) = Refuse
      \/ execute_query(r) = Scan(r, req)
      \/ execute_query(r) = KeyQuery(r, req)
      \/ execute_query(r) = Get(req)
  BY <1>3 DEF execute_query, Modes, query, req
<1>5. Decision(r) = Partiql(r, query.body)
  BY <1>3, <1>4 DEF Decision, Refuse, Scan, KeyQuery, Get
<1> QED
  BY <1>2, <1>5

LEMMA DecidesKeeps == ASSUME CInv, NEW s \in Sends, Decides(s) PROVE CInv'
<1>1. PICK p : Planned(request[s], p) /\ Decide(s, p)
  BY DEF Decides
<1>2. /\ stage[s] = "received" /\ reply[s] = None /\ effects[s] = {} /\ Shape
      /\ request' = request /\ effects' = effects /\ attempts' = attempts
      /\ remembered' = remembered
  BY <1>1 DEF Decides, Decide, account, CInv, Underway
<1>3. /\ DOMAIN plan' = Sends /\ plan'[s] = p
      /\ \A u \in Sends \ {s} : plan'[u] = plan[u]
  BY <1>1, <1>2 DEF Decide, Shape
<1>4. /\ DOMAIN stage' = Sends /\ DOMAIN reply' = Sends
      /\ \A u \in Sends \ {s} : stage'[u] = stage[u] /\ reply'[u] = reply[u]
      /\ \/ stage'[s] = "calling" /\ reply'[s] = None
         \/ stage'[s] = "done" /\ reply'[s].kind \in Local
  <2>1. CASE p.act \in Local
    BY <1>1, <1>2, <2>1 DEF Decide, Shape
  <2>2. CASE p.act \notin Local
    BY <1>1, <1>2, <2>2 DEF Decide, Shape
  <2> QED
    BY <2>1, <2>2
<1>5. Shape'
  BY <1>2, <1>3, <1>4 DEF Shape
<1>6. \A u \in Sends : /\ AskedToken(u)' = AskedToken(u)
                       /\ u # s => Token(u)' = Token(u)
  BY <1>2, <1>3 DEF AskedToken, Token
<1>7. p.act = "transaction" => Token(s)' = AskedToken(s)'
  BY <1>1, <1>2, <1>3, TokenIsPlanned DEF Token, AskedToken
<1>8. Underway'
  BY <1>2, <1>3, <1>4, <1>6, <1>7 DEF CInv, Underway
<1>9. Recalled' /\ AppliedOnce'
  BY <1>2, <1>6 DEF CInv, Recalled, AppliedOnce, Did
<1>10. Remembered'
  <2>1. \A u \in Sends : Did(u) => u # s
    BY <1>2 DEF Did
  <2> QED
    BY <1>2, <1>3, <1>6, <2>1 DEF CInv, Remembered, Did
<1>11. ReportsAreTrue'
  <2>1. ASSUME NEW u \in Sends, u # s, reply'[u] # None
        PROVE  ReportIsTrue(u)'
    <3>1. ReportIsTrue(u)
      BY <1>4, <2>1 DEF CInv, ReportsAreTrue
    <3>2. \A v \in Sends : effects[v] # {} => plan'[v] = plan[v]
      BY <1>2, <1>3
    <3> QED
      BY <1>2, <1>3, <1>4, <1>6, <2>1, <3>1, <3>2 DEF ReportIsTrue
  <2>2. ASSUME reply'[s] # None
        PROVE  ReportIsTrue(s)'
    BY <1>2, <1>4, <2>2 DEF ReportIsTrue, Local
  <2> QED
    BY <2>1, <2>2 DEF ReportsAreTrue
<1> QED
  BY <1>5, <1>8, <1>9, <1>10, <1>11 DEF CInv

LEMMA InitHolds == Init => CInv
<1> SUFFICES ASSUME Init PROVE CInv
  OBVIOUS
<1>1. Shape /\ Underway
  BY DEF Init, Shape, Underway
<1>2. Recalled /\ Remembered /\ AppliedOnce
  BY DEF Init, Recalled, Remembered, AppliedOnce, Did
<1>3. ReportsAreTrue
  BY DEF Init, ReportsAreTrue
<1> QED
  BY <1>1, <1>2, <1>3 DEF CInv

LEMMA NextHolds == CInv /\ [Next]_vars => CInv'
<1> SUFFICES ASSUME CInv, [Next]_vars PROVE CInv'
  OBVIOUS
<1>1. CASE \E s \in Sends : Decides(s)
  BY <1>1, DecidesKeeps
<1>2. CASE \E s \in Sends : Acts(s)
  BY <1>2, ActStep, ActUnderway, ActTransactions, ActReports DEF CInv
<1>3. CASE UNCHANGED <<request, handlers, remembered>>
  <2>1. /\ UNCHANGED <<stage, plan, attempts, reply, effects, request, remembered>>
        /\ \A s \in Sends : AskedToken(s)' = AskedToken(s) /\ Token(s)' = Token(s)
    BY <1>3 DEF handlers, AskedToken, Token
  <2>2. Shape' /\ Underway' /\ Recalled' /\ Remembered' /\ AppliedOnce'
    BY <2>1 DEF CInv, Shape, Underway, Recalled, Remembered, AppliedOnce, Did
  <2>3. ReportsAreTrue'
    BY <2>1 DEF CInv, ReportsAreTrue, ReportIsTrue
  <2> QED
    BY <2>2, <2>3 DEF CInv
<1> QED
  BY <1>1, <1>2, <1>3, Steps

\* A transaction is applied once, for every number of attempts and of requests
\* that carry its token.
THEOREM TransactionsAreAppliedOnce == Spec => []AppliedOnce
<1>1. CInv => AppliedOnce
  BY DEF CInv
<1> QED
  BY <1>1, InitHolds, NextHolds, PTL DEF Spec

\* What is reported created, dropped or applied was, by the request or by one
\* with its token, and an error at the first attempt means that nothing was
\* done.
THEOREM ReportsHold == Spec => []ReportsAreTrue
<1>1. CInv => ReportsAreTrue
  BY DEF CInv
<1> QED
  BY <1>1, InitHolds, NextHolds, PTL DEF Spec

(***************************************************************************)
(* The client of a connection without blank AWS fields                     *)
(***************************************************************************)
LEMMA FirstOfChain ==
  ASSUME NEW n \in Nat, NEW chain, DOMAIN chain = 1 .. n,
         NEW i \in 1 .. n, Supplied(chain[i]), \A j \in 1 .. i - 1 : ~Supplied(chain[j])
  PROVE  FirstSupplied(chain) = chain[i]
<1> DEFINE hits == {k \in DOMAIN chain : Supplied(chain[k])}
<1>1. i \in hits /\ \A j \in hits : i <= j
  OBVIOUS
<1>2. \A k \in hits : (\A j \in hits : k <= j) => k = i
  BY <1>1
<1>3. (CHOOSE k \in hits : \A j \in hits : k <= j) = i
  <2> HIDE DEF hits
  <2> QED BY <1>1, <1>2
<1> QED
  BY <1>1, <1>3 DEF FirstSupplied

LEMMA NoneOfChain ==
  ASSUME NEW chain, \A i \in DOMAIN chain : ~Supplied(chain[i])
  PROVE  FirstSupplied(chain) = Absent
BY DEF FirstSupplied

LEMMA FirstOfPair ==
  \A a, b : FirstSupplied(<<a, b>>) =
              IF Supplied(a) THEN a ELSE IF Supplied(b) THEN b ELSE Absent
<1> SUFFICES ASSUME NEW a, NEW b
             PROVE  FirstSupplied(<<a, b>>) =
                      IF Supplied(a) THEN a ELSE IF Supplied(b) THEN b ELSE Absent
  OBVIOUS
<1> DEFINE chain == <<a, b>>
<1>1. DOMAIN chain = 1 .. 2 /\ chain[1] = a /\ chain[2] = b
  OBVIOUS
<1> HIDE DEF chain
<1>2. \A i \in 1 .. 2 : Supplied(chain[i]) /\ (\A j \in 1 .. i - 1 : ~Supplied(chain[j]))
        => FirstSupplied(chain) = chain[i]
  BY <1>1, FirstOfChain
<1>3. CASE Supplied(a)
  <2>1. \A j \in 1 .. 1 - 1 : ~Supplied(chain[j]) OBVIOUS
  <2> QED BY <1>1, <1>2, <1>3, <2>1 DEF chain
<1>4. CASE ~Supplied(a) /\ Supplied(b)
  <2>1. \A j \in 1 .. 2 - 1 : ~Supplied(chain[j]) BY <1>1, <1>4
  <2> QED BY <1>1, <1>2, <1>4, <2>1 DEF chain
<1>5. CASE ~Supplied(a) /\ ~Supplied(b)
  <2>1. \A j \in DOMAIN chain : ~Supplied(chain[j]) BY <1>1, <1>5
  <2> QED BY <1>5, <2>1, NoneOfChain DEF chain
<1> QED
  BY <1>3, <1>4, <1>5

\* The chains of regions.
LEMMA FirstOfTriple ==
  \A a, b, c : FirstSupplied(<<a, b, c>>) =
    IF Supplied(a) THEN a ELSE IF Supplied(b) THEN b ELSE IF Supplied(c) THEN c
    ELSE Absent
<1> SUFFICES ASSUME NEW a, NEW b, NEW c
             PROVE  FirstSupplied(<<a, b, c>>) =
               IF Supplied(a) THEN a ELSE IF Supplied(b) THEN b
               ELSE IF Supplied(c) THEN c ELSE Absent
  OBVIOUS
<1> DEFINE chain == <<a, b, c>>
<1>1. DOMAIN chain = 1 .. 3 /\ chain[1] = a /\ chain[2] = b /\ chain[3] = c
  OBVIOUS
<1> HIDE DEF chain
<1>2. \A i \in 1 .. 3 : Supplied(chain[i]) /\ (\A j \in 1 .. i - 1 : ~Supplied(chain[j]))
        => FirstSupplied(chain) = chain[i]
  BY <1>1, FirstOfChain
<1>3. CASE Supplied(a)
  <2>1. \A j \in 1 .. 1 - 1 : ~Supplied(chain[j]) OBVIOUS
  <2> QED BY <1>1, <1>2, <1>3, <2>1 DEF chain
<1>4. CASE ~Supplied(a) /\ Supplied(b)
  <2>1. \A j \in 1 .. 2 - 1 : ~Supplied(chain[j]) BY <1>1, <1>4
  <2> QED BY <1>1, <1>2, <1>4, <2>1 DEF chain
<1>5. CASE ~Supplied(a) /\ ~Supplied(b) /\ Supplied(c)
  <2>1. \A j \in 1 .. 3 - 1 : ~Supplied(chain[j]) BY <1>1, <1>5
  <2> QED BY <1>1, <1>2, <1>5, <2>1 DEF chain
<1>6. CASE ~(Supplied(a) \/ Supplied(b) \/ Supplied(c))
  <2>1. \A j \in DOMAIN chain : ~Supplied(chain[j]) BY <1>1, <1>6
  <2> QED BY <1>6, <2>1, NoneOfChain DEF chain
<1> QED
  BY <1>3, <1>4, <1>5, <1>6

LEMMA FirstOfFive ==
  \A a, b, c, d, e : FirstSupplied(<<a, b, c, d, e>>) =
    IF Supplied(a) THEN a ELSE IF Supplied(b) THEN b ELSE IF Supplied(c) THEN c
    ELSE IF Supplied(d) THEN d ELSE IF Supplied(e) THEN e ELSE Absent
<1> SUFFICES ASSUME NEW a, NEW b, NEW c, NEW d, NEW e
             PROVE  FirstSupplied(<<a, b, c, d, e>>) =
               IF Supplied(a) THEN a ELSE IF Supplied(b) THEN b
               ELSE IF Supplied(c) THEN c ELSE IF Supplied(d) THEN d
               ELSE IF Supplied(e) THEN e ELSE Absent
  OBVIOUS
<1> DEFINE chain == <<a, b, c, d, e>>
<1>1. /\ DOMAIN chain = 1 .. 5 /\ chain[1] = a /\ chain[2] = b /\ chain[3] = c
      /\ chain[4] = d /\ chain[5] = e
  OBVIOUS
<1> HIDE DEF chain
<1>2. \A i \in 1 .. 5 : Supplied(chain[i]) /\ (\A j \in 1 .. i - 1 : ~Supplied(chain[j]))
        => FirstSupplied(chain) = chain[i]
  BY <1>1, FirstOfChain
<1>3. CASE Supplied(a)
  <2>1. \A j \in 1 .. 1 - 1 : ~Supplied(chain[j]) OBVIOUS
  <2> QED BY <1>1, <1>2, <1>3, <2>1 DEF chain
<1>4. CASE ~Supplied(a) /\ Supplied(b)
  <2>1. \A j \in 1 .. 2 - 1 : ~Supplied(chain[j]) BY <1>1, <1>4
  <2> QED BY <1>1, <1>2, <1>4, <2>1 DEF chain
<1>5. CASE ~Supplied(a) /\ ~Supplied(b) /\ Supplied(c)
  <2>1. \A j \in 1 .. 3 - 1 : ~Supplied(chain[j]) BY <1>1, <1>5
  <2> QED BY <1>1, <1>2, <1>5, <2>1 DEF chain
<1>6. CASE ~Supplied(a) /\ ~Supplied(b) /\ ~Supplied(c) /\ Supplied(d)
  <2>1. \A j \in 1 .. 4 - 1 : ~Supplied(chain[j]) BY <1>1, <1>6
  <2> QED BY <1>1, <1>2, <1>6, <2>1 DEF chain
<1>7. CASE ~Supplied(a) /\ ~Supplied(b) /\ ~Supplied(c) /\ ~Supplied(d) /\ Supplied(e)
  <2>1. \A j \in 1 .. 5 - 1 : ~Supplied(chain[j]) BY <1>1, <1>7
  <2> QED BY <1>1, <1>2, <1>7, <2>1 DEF chain
<1>8. CASE ~(Supplied(a) \/ Supplied(b) \/ Supplied(c) \/ Supplied(d) \/ Supplied(e))
  <2>1. \A j \in DOMAIN chain : ~Supplied(chain[j]) BY <1>1, <1>8
  <2> QED BY <1>8, <2>1, NoneOfChain DEF chain
<1> QED
  BY <1>3, <1>4, <1>5, <1>6, <1>7, <1>8

\* No blank field that would keep the generic form out.
Unshadowing(p) == Blank \notin {p.endpoint, p.access_key_id, p.secret_access_key}

LEMMA FilledFields ==
  ASSUME NEW p \in Inputs, Unshadowing(p)
  PROVE  LET f == Filled(p)
         IN /\ DOMAIN f = DOMAIN p
            /\ f.region = p.region /\ f.extra = p.extra
            /\ f.endpoint =
                 IF p.endpoint = Absent /\ Supplied(p.host) /\ Supplied(p.port)
                   THEN Endpoint(p.host, p.port) ELSE p.endpoint
            /\ f.access_key_id = IF p.access_key_id = Absent /\ Supplied(p.username)
                                   THEN p.username ELSE p.access_key_id
            /\ f.secret_access_key =
                 IF p.secret_access_key = Absent /\ Supplied(p.password)
                   THEN p.password ELSE p.secret_access_key
            /\ f.profile = IF ~Supplied(p.profile) /\ Supplied(p.extra.profile)
                             THEN p.extra.profile ELSE p.profile
            /\ f.session_token =
                 IF ~Supplied(p.session_token) /\ Supplied(p.extra.session_token)
                   THEN p.extra.session_token ELSE p.session_token
<1> DEFINE e == FillEndpoint(p)
           a == FillKey(e, "access_key_id", "username")
           b == FillKey(a, "secret_access_key", "password")
           c == Promote(b, "profile")
           d == Promote(c, "session_token")
<1>0. DOMAIN p = AwsFields \union GenericFields \union {"extra"}
  BY InputAssumption
<1>1. /\ DOMAIN e = DOMAIN p
      /\ \A k \in DOMAIN p : k # "endpoint" => e[k] = p[k]
      /\ e.endpoint = IF p.endpoint = Absent /\ Supplied(p.host) /\ Supplied(p.port)
                        THEN Endpoint(p.host, p.port) ELSE p.endpoint
  BY <1>0 DEF FillEndpoint, Missing, has_non_blank, Supplied, AwsFields
<1> HIDE DEF e
<1>2. /\ DOMAIN a = DOMAIN p
      /\ \A k \in DOMAIN p : k # "access_key_id" => a[k] = e[k]
      /\ a.access_key_id = IF p.access_key_id = Absent /\ Supplied(p.username)
                             THEN p.username ELSE p.access_key_id
  BY <1>0, <1>1 DEF FillKey, Missing, has_non_blank, Supplied, AwsFields, GenericFields
<1> HIDE DEF a
<1>3. /\ DOMAIN b = DOMAIN p
      /\ \A k \in DOMAIN p : k # "secret_access_key" => b[k] = a[k]
      /\ b.secret_access_key = IF p.secret_access_key = Absent /\ Supplied(p.password)
                                 THEN p.password ELSE p.secret_access_key
  BY <1>0, <1>1, <1>2
     DEF FillKey, Missing, has_non_blank, Supplied, AwsFields, GenericFields
<1> HIDE DEF b
<1>4. /\ DOMAIN c = DOMAIN p
      /\ \A k \in DOMAIN p : k # "profile" => c[k] = b[k]
      /\ c.profile = IF ~Supplied(p.profile) /\ Supplied(p.extra.profile)
                       THEN p.extra.profile ELSE p.profile
  BY <1>0, <1>1, <1>2, <1>3
     DEF Promote, has_non_blank, Supplied, AwsFields, GenericFields
<1> HIDE DEF c
<1>5. /\ DOMAIN d = DOMAIN p
      /\ \A k \in DOMAIN p : k # "session_token" => d[k] = c[k]
      /\ d.session_token = IF ~Supplied(p.session_token) /\ Supplied(p.extra.session_token)
                             THEN p.extra.session_token ELSE p.session_token
  BY <1>0, <1>1, <1>2, <1>3, <1>4
     DEF Promote, has_non_blank, Supplied, AwsFields, GenericFields
<1>6. Filled(p) = d
  BY DEF Filled, d, c, b, a, e
<1> HIDE DEF d
<1> QED
  BY <1>0, <1>1, <1>2, <1>3, <1>4, <1>5, <1>6 DEF AwsFields, GenericFields

LEMMA KnownHosts ==
  ASSUME params \in Inputs, Unshadowing(params), DocumentedEndpoint # Absent
  PROVE  DocumentedEndpoint.name \in DOMAIN RegionOf
<1>1. CASE Supplied(params.endpoint)
  <2>1. DocumentedEndpoint = params.endpoint
    BY <1>1, FirstOfPair DEF DocumentedEndpoint
  <2> QED BY <1>1, <2>1, InputAssumption DEF Supplied
<1>2. CASE ~Supplied(params.endpoint)
  <2>1. /\ Supplied(params.host) /\ Supplied(params.port)
        /\ DocumentedEndpoint = Endpoint(params.host, params.port)
    BY <1>2, FirstOfPair DEF DocumentedEndpoint, Supplied
  <2> QED BY <2>1, InputAssumption DEF Supplied, Endpoint
<1> QED BY <1>1, <1>2

\* The arguments build_client works with, against the documented ones: they
\* agree where there is something to connect to, and elsewhere both refuse.
LEMMA ClientIsDocumented ==
  ASSUME params \in Inputs, default_region \in Defaults, Unshadowing(params)
  PROVE  build_client(params) = DocumentedClient
<1> DEFINE f == Filled(params)
           n == normalized_params(params)
           profile == FirstSupplied(<<params.profile, params.extra.profile>>)
           key == FirstSupplied(<<params.access_key_id, params.username>>)
           secret == FirstSupplied(<<params.secret_access_key, params.password>>)
           token == FirstSupplied(<<params.session_token, params.extra.session_token>>)
<1>0. /\ DOMAIN params = AwsFields \union GenericFields \union {"extra"}
      /\ DOMAIN f = DOMAIN params
  BY InputAssumption, FilledFields
<1>1. read_param(f, "endpoint") = DocumentedEndpoint
  BY FilledFields, FirstOfPair, EndpointAssumption, MarkerAssumption
     DEF read_param, has_non_blank, Supplied, DocumentedEndpoint, Unshadowing
<1>2. read_param(f, "access_key_id") = key
  BY FilledFields, FirstOfPair DEF read_param, has_non_blank, Supplied, Unshadowing
<1>3. read_param(f, "secret_access_key") = secret
  BY FilledFields, FirstOfPair DEF read_param, has_non_blank, Supplied, Unshadowing
<1>4. read_param(f, "profile") = profile
  BY FilledFields, FirstOfPair DEF read_param, has_non_blank, Supplied
<1>5. read_param(f, "session_token") = token
  BY FilledFields, FirstOfPair DEF read_param, has_non_blank, Supplied
<1>6. f.region = params.region /\ f.extra = params.extra
  BY FilledFields
<1> HIDE DEF f, profile, key, secret, token
<1>7. /\ has_non_blank(f, "endpoint") <=> DocumentedEndpoint # Absent
      /\ HasKeys(f) <=> key # Absent /\ secret # Absent
      /\ has_non_blank(f, "profile") <=> profile # Absent
  BY <1>1, <1>2, <1>3, <1>4 DEF read_param, has_non_blank, HasKeys
<1>8. region_from_endpoint(f) = IF DocumentedEndpoint = Absent THEN Absent
                                ELSE RegionOf[DocumentedEndpoint.name]
  BY <1>1, <1>7 DEF region_from_endpoint, read_param, has_non_blank
<1>9. region_from_endpoint(f) # Blank
  BY <1>8, MarkerAssumption, KnownHosts
<1>10. \A k \in AwsFields \ {"region"} : read_param(n, k) = read_param(f, k)
  BY <1>0 DEF n, f, normalized_params, FillRegion, read_param, has_non_blank
<1> DEFINE target == \/ DocumentedEndpoint # Absent
                     \/ key # Absent /\ secret # Absent
                     \/ profile # Absent
<1>11. ASSUME target PROVE read_param(n, "region") = DocumentedRegion(profile)
  <2> DEFINE last == IF profile # Absent THEN Absent
                     ELSE IF default_region # Absent THEN default_region ELSE "us-east-1"
             named == IF Supplied(params.region) THEN params.region
                      ELSE IF Supplied(params.extra.region) THEN params.extra.region
                      ELSE region_from_endpoint(f)
  <2>1. Fallback(f) = last
    BY <1>7, <1>11 DEF Fallback
  <2>2. n = FillRegion(f) /\ "region" \in DOMAIN f
    BY <1>0 DEF n, f, normalized_params, AwsFields
  <2>3. n.region = IF named # Absent THEN named
                   ELSE IF last # Absent THEN last ELSE params.region
    BY <1>6, <2>1, <2>2 DEF FillRegion, has_non_blank, Supplied
  <2>4. last # Blank /\ named # Blank
    BY <1>9, MarkerAssumption DEF Supplied
  <2>5. read_param(n, "region") = IF named # Absent THEN named ELSE last
    <3>1. named = Absent => ~Supplied(params.region)
      BY DEF Supplied
    <3> HIDE DEF n, named, last
    <3> QED BY <2>3, <2>4, <3>1 DEF read_param, has_non_blank, Supplied
  <2>6. DocumentedRegion(profile) =
          IF Supplied(params.region) THEN params.region
          ELSE IF Supplied(params.extra.region) THEN params.extra.region
          ELSE IF Supplied(region_from_endpoint(f)) THEN region_from_endpoint(f)
          ELSE last
    <3> DEFINE hosted == region_from_endpoint(f)
    <3>1. CASE profile = Absent
      <4>1. DocumentedRegion(profile) =
              FirstSupplied(<<params.region, params.extra.region, hosted,
                              default_region, "us-east-1">>)
        BY <1>8, <3>1 DEF DocumentedRegion
      <4> HIDE DEF hosted
      <4>2. QED BY <3>1, <4>1, FirstOfFive, MarkerAssumption DEF Supplied, hosted
    <3>2. CASE profile # Absent
      <4>1. DocumentedRegion(profile) =
              FirstSupplied(<<params.region, params.extra.region, hosted>>)
        BY <1>8, <3>2 DEF DocumentedRegion
      <4> HIDE DEF hosted
      <4>2. QED BY <3>2, <4>1, FirstOfTriple DEF Supplied, hosted
    <3>3. QED BY <3>1, <3>2
  <2> QED
    BY <1>9, <2>5, <2>6 DEF Supplied
<1> DEFINE arguments == Arguments(n)
           config == [region |-> DocumentedRegion(profile),
                      endpoint |-> DocumentedEndpoint,
                      access_key_id |-> key, secret_access_key |-> secret,
                      session_token |-> token, profile |-> profile]
<1>13. /\ arguments.endpoint = DocumentedEndpoint /\ arguments.access_key_id = key
       /\ arguments.secret_access_key = secret /\ arguments.session_token = token
       /\ arguments.profile = profile /\ arguments.region = read_param(n, "region")
  BY <1>1, <1>2, <1>3, <1>4, <1>5, <1>10 DEF Arguments, AwsFields
<1>14. ASSUME target PROVE arguments = config
  <2>1. DOMAIN arguments = AwsFields /\ DOMAIN config = AwsFields
    BY DEF Arguments, AwsFields
  <2>2. \A k \in AwsFields : arguments[k] = config[k]
    BY <1>11, <1>13, <1>14 DEF AwsFields
  <2>3. arguments = [k \in AwsFields |-> arguments[k]]
    BY DEF Arguments
  <2>4. config = [k \in AwsFields |-> config[k]]
    BY DEF AwsFields
  <2> HIDE DEF arguments, config
  <2> QED
    BY <2>2, <2>3, <2>4
<1>15. DocumentedRegion(profile) # Absent \/ profile # Absent
  BY FirstOfFive, MarkerAssumption DEF DocumentedRegion, Supplied
<1>16. Targeted(arguments) <=> target
  <2> HIDE DEF arguments
  <2>1. ASSUME target PROVE arguments.region = DocumentedRegion(profile)
    BY <1>11, <1>13, <2>1
  <2> QED
    BY <1>13, <1>15, <2>1 DEF Targeted
<1>17. build_client(params) =
         IF target /\ (profile # Absent => profile \in Profiles)
           THEN <<"config", arguments>> ELSE <<"invalid">>
  <2>1. build_client(params) =
          IF Targeted(arguments) /\ (arguments.profile # Absent
                                      => profile_exists(arguments.profile))
            THEN <<"config", arguments>> ELSE <<"invalid">>
    BY DEF build_client, n
  <2> HIDE DEF arguments
  <2> QED
    BY <1>13, <1>16, <2>1 DEF profile_exists
<1>18. DocumentedClient =
         IF target /\ (profile # Absent => profile \in Profiles)
           THEN <<"config", config>> ELSE <<"invalid">>
  BY DEF DocumentedClient, profile, key, secret, token
<1> QED
  <2> HIDE DEF arguments, config, target
  <2> QED
    BY <1>14, <1>17, <1>18

\* What holds of the connection while requests are handled.
Connected ==
  /\ params \in Inputs /\ default_region \in Defaults
  /\ DOMAIN client = Sends
  /\ \A s \in Sends : client[s] \in {None, build_client(params)}

LEMMA ConnectedInit == Init => Connected
BY CaseAssumption DEF Init, Connected

LEMMA ConnectedNext == Connected /\ [Next]_vars => Connected'
<1> SUFFICES ASSUME Connected, [Next]_vars PROVE Connected'
  OBVIOUS
<1>1. params' = params /\ default_region' = default_region
  BY DEF Next, vars, RefuseArguments, get_create_table_sql, Receive, create_table,
         delete_table, execute_transaction, execute_statement, Read, describe_table,
         Fail, Settle, OthersChange, Decide, Attempted
<1>2. \/ client' = client
      \/ \E s \in Sends : client' = [client EXCEPT ![s] = build_client(params)]
  BY DEF Next, vars, handlers, RefuseArguments, get_create_table_sql, Receive, create_table,
         delete_table, execute_transaction, execute_statement, Read, describe_table,
         Fail, Settle, OthersChange, Attempted
<1>3. build_client(params)' = build_client(params)
  <2>1. Filled(params)' = Filled(params)
    BY <1>1
  <2>2. normalized_params(params)' = normalized_params(params)
    BY <1>1, <2>1 DEF normalized_params, FillRegion, Fallback, HasKeys,
                      region_from_endpoint, has_non_blank
  <2>3. Arguments(normalized_params(params))' = Arguments(normalized_params(params))
    BY <2>2 DEF Arguments, read_param, has_non_blank
  <2> QED
    BY <2>3 DEF build_client, Targeted, profile_exists
<1> QED
  BY <1>1, <1>2, <1>3 DEF Connected

\* Every handler works with the client the documents describe, whatever the form
\* holds, as long as no blank endpoint or key keeps the generic form out
\* (handlers/connection.rs): with the region of README.md:77-91, or, for a
\* profile, that of CHANGELOG.md:51-54.
THEOREM ClientsAreDocumented ==
  ASSUME \A p \in Inputs : Unshadowing(p)
  PROVE  Spec => []ClientAsDocumented
<1>1. Connected => ClientAsDocumented
  BY ClientIsDocumented DEF Connected, ClientAsDocumented
<1> QED
  BY ConnectedInit, ConnectedNext, <1>1, PTL DEF Spec

(***************************************************************************)
(* Types                                                                   *)
(***************************************************************************)
\* The absent value is no answer and no client.
NoneIsNoValue == "kind" \notin DOMAIN None /\ None # <<"invalid">>

\* A handler goes on to its call with a client only, calls while it has
\* attempts left, and has an answer when it is done.
HandlerOK(s) ==
  /\ stage[s] \in {"received", "calling", "done"}
  /\ stage[s] = "received" => plan[s] = None /\ reply[s] = None /\ client[s] = None
  /\ stage[s] = "calling" => plan[s].act \notin Local /\ client[s][1] = "config"
  /\ client[s] = <<"invalid">> => plan[s] = Refuse
  /\ stage[s] = "done" /\ request[s] # None => reply[s] # None
  /\ attempts[s] \in 0 .. MaxAttempts
  /\ stage[s] # "done" => attempts[s] < MaxAttempts

AccountOK ==
  /\ DOMAIN table = Tables /\ \A t \in Tables : IsTable(table[t])
  /\ changes \in 0 .. MaxChanges

TInv ==
  /\ Connected /\ Shape /\ AccountOK
  /\ DOMAIN request = Sends
  /\ \A s \in Sends : HandlerOK(s)

LEMMA TypesInit == NoneIsNoValue /\ Init => TInv
<1> SUFFICES ASSUME NoneIsNoValue, Init PROVE TInv
  OBVIOUS
<1>1. Connected /\ Shape
  BY ConnectedInit, InitHolds DEF CInv
<1>2. AccountOK /\ DOMAIN request = Sends
  BY CaseAssumption DEF Init, AccountOK
<1>3. ASSUME NEW s \in Sends PROVE HandlerOK(s)
  <2>1. /\ stage[s] = IF request[s] = None THEN "done" ELSE "received"
        /\ plan[s] = None /\ reply[s] = None /\ client[s] = None
        /\ attempts[s] = 0
    BY DEF Init
  <2> QED
    BY <2>1, BoundAssumption DEF HandlerOK, NoneIsNoValue
<1> QED
  BY <1>1, <1>2, <1>3 DEF TInv

\* What a handler decides to call with, if it calls.
Enters(s, c, p) ==
  /\ stage[s] = "received"
  /\ Decide(s, p)
  /\ client'[s] = c /\ \A u \in Sends \ {s} : client'[u] = client[u]
  /\ p.act \notin Local => c[1] = "config"
  /\ c = <<"invalid">> => p = Refuse

LEMMA HandlersEnter ==
  ASSUME NoneIsNoValue, TInv, NEW s \in Sends,
         RefuseArguments(s) \/ get_create_table_sql(s) \/ Receive(s)
  PROVE  \E c, p : Enters(s, c, p)
<1>1. Refuse.act \in Local /\ "sql" \in Local
  BY DEF Refuse, Local
<1>2. ASSUME client' = client, stage[s] = "received"
      PROVE  client[s] # <<"invalid">>
  <2>1. client[s] = None
    BY <1>2 DEF TInv, HandlerOK
  <2> QED
    BY <2>1 DEF NoneIsNoValue
<1>3. CASE RefuseArguments(s)
  <2>1. stage[s] = "received" /\ Decide(s, Refuse) /\ client' = client
    BY <1>3 DEF RefuseArguments
  <2>2. Enters(s, client[s], Refuse)
    BY <1>1, <1>2, <2>1 DEF Enters
  <2> QED
    BY <2>2
<1>4. CASE get_create_table_sql(s)
  <2>1. PICK text :
          /\ stage[s] = "received" /\ client' = client
          /\ Decide(s, [act |-> "sql", text |-> text])
    BY <1>4 DEF get_create_table_sql
  <2>2. Enters(s, client[s], [act |-> "sql", text |-> text])
    BY <1>1, <1>2, <2>1 DEF Enters
  <2> QED
    BY <2>2
<1>5. CASE Receive(s)
  <2> DEFINE c == build_client(params)
             p == IF c = <<"invalid">> THEN Refuse ELSE Decision(request[s])
  <2>1. /\ stage[s] = "received" /\ Decide(s, p)
        /\ client'[s] = c /\ \A u \in Sends \ {s} : client'[u] = client[u]
    BY <1>5 DEF Receive, TInv, Connected
  <2>2. c = <<"invalid">> \/ c[1] = "config"
    <3>1. c = <<"invalid">> \/ \E a : c = <<"config", a>>
      BY DEF build_client
    <3> HIDE DEF c
    <3> QED
      BY <3>1
  <2>3. c = <<"invalid">> => p = Refuse
    OBVIOUS
  <2> HIDE DEF c, p
  <2>4. Enters(s, c, p)
    BY <1>1, <2>1, <2>2, <2>3 DEF Enters
  <2> QED
    BY <2>4
<1> QED
  BY <1>3, <1>4, <1>5

LEMMA EnterKeeps ==
  ASSUME NoneIsNoValue, TInv, NEW s \in Sends, NEW c, NEW p, Enters(s, c, p)
  PROVE  /\ Shape' /\ DOMAIN request' = Sends
         /\ UNCHANGED <<table, changes>>
         /\ \A u \in Sends : HandlerOK(u)'
<1>1. /\ stage[s] = "received"
      /\ client'[s] = c /\ \A u \in Sends \ {s} : client'[u] = client[u]
      /\ p.act \notin Local => c[1] = "config"
      /\ c = <<"invalid">> => p = Refuse
      /\ plan' = [plan EXCEPT ![s] = p]
      /\ UNCHANGED <<request, attempts, effects, table, changes>>
  BY DEF Enters, Decide, account
<1>2. \/ /\ p.act \in Local
         /\ stage' = [stage EXCEPT ![s] = "done"]
         /\ reply' = [reply EXCEPT ![s] = [kind |-> p.act]]
      \/ /\ p.act \notin Local
         /\ stage' = [stage EXCEPT ![s] = "calling"] /\ reply' = reply
  BY DEF Enters, Decide
<1>3. Shape /\ DOMAIN client = Sends /\ DOMAIN request = Sends /\ HandlerOK(s)
  BY DEF TInv, Connected
<1>4. Shape'
  BY <1>1, <1>2, <1>3 DEF Shape
<1>5. ASSUME NEW u \in Sends, u # s PROVE HandlerOK(u)'
  <2>1. /\ stage'[u] = stage[u] /\ reply'[u] = reply[u] /\ client'[u] = client[u]
        /\ plan'[u] = plan[u]
    BY <1>1, <1>2, <1>3, <1>5 DEF Shape
  <2> QED
    BY <1>1, <2>1 DEF TInv, HandlerOK
<1>6. HandlerOK(s)'
  <2>1. client'[s] = c /\ plan'[s] = p
    BY <1>1, <1>3 DEF Shape
  <2>2. \/ /\ p.act \in Local /\ stage'[s] = "done" /\ reply'[s] = [kind |-> p.act]
        \/ p.act \notin Local /\ stage'[s] = "calling"
    BY <1>2, <1>3 DEF Shape
  <2>3. "kind" \in DOMAIN [kind |-> p.act]
    OBVIOUS
  <2> QED
    BY <1>1, <1>3, <2>1, <2>2, <2>3 DEF HandlerOK, NoneIsNoValue
<1> QED
  BY <1>1, <1>3, <1>4, <1>5, <1>6

\* Whatever DynamoDB answers, an answer says what kind it is of.
LEMMA ActsAnswer ==
  ASSUME NEW s \in Sends, Acts(s)
  PROVE  \E r : Attempted(s, r) /\ "kind" \in DOMAIN r
<1> DEFINE Tells(r) == "kind" \in DOMAIN r
<1>0. /\ \A k : Tells([kind |-> k])
      /\ \A k, n : Tells([kind |-> k, rows |-> n])
      /\ \A k, of, rows : Tells([kind |-> k, of |-> of, rows |-> rows])
  OBVIOUS
<1>1. CASE create_table(s)
  <2>1. \A result : \E k : CreateReport(result) = [kind |-> k]
    BY DEF CreateReport
  <2>2. \A result : Tells(CreateReport(result))
    <3> HIDE DEF Tells
    <3> QED
      BY <1>0, <2>1
  <2> QED
    BY <1>1, <2>2 DEF create_table
<1>2. CASE delete_table(s)
  <2>1. \A result : \E k : DropReport(result) = [kind |-> k]
    BY DEF DropReport
  <2>2. \A result : Tells(DropReport(result))
    <3> HIDE DEF Tells
    <3> QED
      BY <1>0, <2>1
  <2> QED
    BY <1>2, <2>2 DEF delete_table
<1>3. CASE execute_transaction(s)
  BY <1>0, <1>3 DEF execute_transaction
<1>4. CASE execute_statement(s) \/ Read(s) \/ Fail(s)
  BY <1>0, <1>4 DEF execute_statement, Read, Fail
<1>5. CASE describe_table(s)
  <2> DEFINE schema == table[plan[s].table].schema
             rows == IF plan[s].act = "get_columns" THEN Columns(schema)
                     ELSE IndexRows(schema)
             r == [kind |-> plan[s].act, of |-> schema, rows |-> rows]
  <2>1. Attempted(s, [kind |-> "failed"]) \/ Attempted(s, r)
    BY <1>5 DEF describe_table
  <2> HIDE DEF schema, rows
  <2> QED
    BY <1>0, <2>1
<1> QED
  BY <1>1, <1>2, <1>3, <1>4, <1>5 DEF Acts

LEMMA ActsKeepHandlers ==
  ASSUME NoneIsNoValue, TInv, NEW s \in Sends, Acts(s)
  PROVE  /\ Shape' /\ DOMAIN request' = Sends
         /\ \A u \in Sends : HandlerOK(u)'
<1>1. PICK r : Attempted(s, r) /\ "kind" \in DOMAIN r
  BY ActsAnswer
<1>2. stage[s] = "calling" /\ UNCHANGED <<plan, request, client>>
  BY <1>1, Calling DEF Stands, Attempted
<1>3. Shape /\ DOMAIN request = Sends /\ HandlerOK(s)
  BY DEF TInv
<1>4. DOMAIN effects' = Sends
  BY Calling, <1>3 DEF Harmless, Telling, Applies, Repeats, Effect, Shape
<1>5. Shape'
  BY <1>1, <1>2, <1>3, <1>4, AttemptStep DEF Shape
<1>6. ASSUME NEW u \in Sends, u # s PROVE HandlerOK(u)'
  <2>1. /\ stage'[u] = stage[u] /\ reply'[u] = reply[u]
        /\ attempts'[u] = attempts[u]
    BY <1>1, <1>3, <1>6, AttemptStep
  <2> QED
    BY <1>2, <2>1 DEF TInv, HandlerOK
<1>7. HandlerOK(s)'
  <2>1. /\ attempts[s] \in 0 .. MaxAttempts /\ attempts[s] < MaxAttempts
        /\ client[s][1] = "config" /\ plan[s].act \notin Local
        /\ client[s] = <<"invalid">> => plan[s] = Refuse
        /\ MaxAttempts \in Nat
    BY <1>2, <1>3, BoundAssumption DEF HandlerOK
  <2>2. CASE Answered(s, r)
    <3>1. stage'[s] = "done" /\ reply'[s] = r /\ attempts'[s] = attempts[s]
      BY <1>3, <2>2 DEF Answered, Shape
    <3> QED
      BY <1>1, <1>2, <2>1, <3>1 DEF HandlerOK, NoneIsNoValue
  <2>3. CASE Unanswered(s)
    <3>1. attempts'[s] = attempts[s] + 1
      BY <1>3, <2>3 DEF Unanswered, Shape
    <3>2. \/ /\ attempts[s] + 1 < MaxAttempts
             /\ stage'[s] = stage[s] /\ reply'[s] = reply[s]
          \/ stage'[s] = "done" /\ reply'[s] = [kind |-> "failed"]
      BY <1>3, <2>3 DEF Unanswered, Shape
    <3>3. "kind" \in DOMAIN [kind |-> "failed"]
      OBVIOUS
    <3>4. attempts'[s] \in 0 .. MaxAttempts
      BY <2>1, <3>1
    <3>5. CASE /\ attempts[s] + 1 < MaxAttempts
               /\ stage'[s] = stage[s] /\ reply'[s] = reply[s]
      BY <1>2, <2>1, <3>1, <3>4, <3>5 DEF HandlerOK
    <3>6. CASE stage'[s] = "done" /\ reply'[s] = [kind |-> "failed"]
      <4>1. reply'[s] # None
        BY <3>3, <3>6 DEF NoneIsNoValue
      <4> QED
        BY <1>2, <2>1, <3>4, <3>6, <4>1 DEF HandlerOK
    <3> QED
      BY <3>2, <3>5, <3>6
  <2> QED
    BY <1>1, <2>2, <2>3 DEF Attempted
<1> QED
  BY <1>2, <1>3, <1>5, <1>6, <1>7

\* A table gets another status, or becomes another table.
LEMMA TablesStay ==
  ASSUME AccountOK, NEW t \in Tables, NEW x, IsTable(x),
         table' = [table EXCEPT ![t] = x]
  PROVE  DOMAIN table' = Tables /\ \A u \in Tables : IsTable(table'[u])
BY DEF AccountOK

LEMMA StatusChanges ==
  ASSUME AccountOK, NEW t \in Tables, table[t].status # "absent",
         NEW status \in Statuses, Become(t, status)
  PROVE  DOMAIN table' = Tables /\ \A u \in Tables : IsTable(table'[u])
<1> DEFINE x == [table[t] EXCEPT !.status = status]
<1>1. DOMAIN table = Tables /\ IsTable(table[t])
  BY DEF AccountOK
<1>2. DOMAIN x = DOMAIN table[t] /\ x.status = status /\ x.schema = table[t].schema
  BY <1>1 DEF IsTable
<1>3. IsTable(x)
  BY <1>1, <1>2 DEF IsTable
<1>4. table' = [table EXCEPT ![t] = x]
  BY DEF Become
<1> HIDE DEF x
<1> QED
  BY <1>3, <1>4, TablesStay

\* An absent table, and one that is being created with a schema.
LEMMA NewTables ==
  ASSUME NEW schema, IsSchema(schema)
  PROVE  /\ IsTable([status |-> "absent", schema |-> None])
         /\ IsTable([status |-> "creating", schema |-> schema])
<1> DEFINE new == [status |-> "creating", schema |-> schema]
           gone == [status |-> "absent", schema |-> None]
<1>1. /\ DOMAIN new = {"status", "schema"} /\ new.status = "creating"
      /\ new.schema = schema
      /\ DOMAIN gone = {"status", "schema"} /\ gone.status = "absent"
  OBVIOUS
<1> HIDE DEF new, gone
<1>2. IsTable(new) /\ IsTable(gone)
  BY <1>1 DEF IsTable, Statuses
<1> QED
  BY <1>2 DEF new, gone

LEMMA ActsKeepAccount ==
  ASSUME AccountOK, NEW s \in Sends, Acts(s)
  PROVE  AccountOK'
<1>1. CASE create_table(s)
  <2> DEFINE schema == KeySchema(plan[s].keys)
  <2>1. IsSchema(schema)
    BY <1>1 DEF create_table
  <2>2. /\ plan[s].table \in Tables /\ changes' = changes
        /\ \/ table' = table
           \/ table' = [table EXCEPT ![plan[s].table] =
                          [status |-> "creating", schema |-> schema]]
    BY <1>1 DEF create_table
  <2> HIDE DEF schema
  <2> QED
    BY <2>1, <2>2, NewTables, TablesStay DEF AccountOK
<1>2. CASE delete_table(s)
  <2>1. /\ plan[s].table \in Tables /\ changes' = changes
        /\ \/ table' = table
           \/ /\ table[plan[s].table].status \in {"active", "deleting"}
              /\ Become(plan[s].table, "deleting")
    BY <1>2 DEF delete_table
  <2> QED
    BY <2>1, StatusChanges DEF AccountOK, Statuses
<1>3. CASE \/ execute_transaction(s) \/ execute_statement(s) \/ Read(s)
           \/ describe_table(s) \/ Fail(s)
  <2>1. UNCHANGED <<table, changes>>
    BY <1>3 DEF execute_transaction, execute_statement, Read, describe_table,
                Fail, account
  <2> QED
    BY <2>1 DEF AccountOK
<1> QED
  BY <1>1, <1>2, <1>3 DEF Acts

LEMMA OthersKeepAccount ==
  ASSUME AccountOK, NEW t \in Tables, Settle(t) \/ OthersChange(t)
  PROVE  AccountOK'
<1>1. CASE Settle(t)
  <2>1. changes' = changes
    BY <1>1 DEF Settle
  <2>2. \/ table[t].status = "creating" /\ Become(t, "active")
        \/ table' = [table EXCEPT ![t] = [status |-> "absent", schema |-> None]]
    BY <1>1 DEF Settle
  <2>3. IsTable([status |-> "absent", schema |-> None])
    BY DEF IsTable, Statuses
  <2> QED
    BY <2>1, <2>2, <2>3, StatusChanges, TablesStay DEF AccountOK, Statuses
<1>2. CASE OthersChange(t)
  <2>1. changes < MaxChanges /\ changes' = changes + 1
    BY <1>2 DEF OthersChange
  <2>2. changes' \in 0 .. MaxChanges
    BY <2>1, BoundAssumption DEF AccountOK
  <2>3. \/ table[t].status = "active" /\ Become(t, "deleting")
        \/ \E schema \in Schemas :
             table' = [table EXCEPT ![t] = [status |-> "creating", schema |-> schema]]
    BY <1>2 DEF OthersChange
  <2>4. \A schema \in Schemas : IsTable([status |-> "creating", schema |-> schema])
    BY SchemaAssumption, NewTables
  <2> QED
    BY <2>2, <2>3, <2>4, StatusChanges, TablesStay DEF AccountOK, Statuses
<1> QED
  BY <1>1, <1>2

LEMMA TypesNext == NoneIsNoValue /\ TInv /\ [Next]_vars => TInv'
<1> SUFFICES ASSUME NoneIsNoValue, TInv, [Next]_vars PROVE TInv'
  OBVIOUS
<1>1. Connected'
  BY ConnectedNext DEF TInv
<1>2. ASSUME NEW s \in Sends,
             RefuseArguments(s) \/ get_create_table_sql(s) \/ Receive(s)
      PROVE  TInv'
  <2>1. PICK c, p : Enters(s, c, p)
    BY <1>2, HandlersEnter
  <2>2. /\ Shape' /\ DOMAIN request' = Sends /\ UNCHANGED <<table, changes>>
        /\ \A u \in Sends : HandlerOK(u)'
    BY <2>1, EnterKeeps
  <2> QED
    BY <1>1, <2>2 DEF TInv, AccountOK
<1>3. ASSUME NEW s \in Sends, Acts(s)
      PROVE  TInv'
  BY <1>1, <1>3, ActsKeepHandlers, ActsKeepAccount DEF TInv
<1>4. ASSUME NEW t \in Tables, Settle(t) \/ OthersChange(t)
      PROVE  TInv'
  <2>1. AccountOK'
    BY <1>4, OthersKeepAccount DEF TInv
  <2>2. UNCHANGED <<request, stage, client, plan, attempts, reply, effects>>
    BY <1>4 DEF Settle, OthersChange, handlers
  <2> QED
    BY <1>1, <2>1, <2>2 DEF TInv, Shape, HandlerOK
<1>5. CASE UNCHANGED vars
  BY <1>1, <1>5 DEF vars, handlers, account, TInv, Shape, HandlerOK, AccountOK
<1> QED
  BY <1>2, <1>3, <1>4, <1>5 DEF Next, Acts

\* The variables have their types; no handler calls without a client or past
\* its attempts, or is done without an answer, and a table that is there has
\* a schema (handlers/query.rs, dynamodb/client.rs).
THEOREM TypeCorrect ==
  ASSUME NoneIsNoValue PROVE Spec => []TypeOK
<1>1. TInv => TypeOK
  BY DEF TInv, Connected, AccountOK, HandlerOK, TypeOK
<1>2. Init => TInv
  BY NoneIsNoValue, TypesInit
<1>3. TInv /\ [Next]_vars => TInv'
  BY NoneIsNoValue, TypesNext
<1> QED
  BY <1>1, <1>2, <1>3, PTL DEF Spec

(***************************************************************************)
(* Lists                                                                   *)
(***************************************************************************)
LEMMA ListFacts ==
  ASSUME NEW s, IsList(s)
  PROVE  Len(s) \in Nat /\ DOMAIN s = 1..Len(s)
         /\ ToSet(s) = {s[k] : k \in DOMAIN s}
BY DEF IsList, ToSet

\* One list behind another.
LEMMA JoinFacts ==
  ASSUME NEW S, NEW a \in Seq(S), NEW b \in Seq(S)
  PROVE  /\ DOMAIN (a \o b) = 1..(Len(a) + Len(b))
         /\ \A k \in 1..Len(a) : (a \o b)[k] = a[k]
         /\ \A k \in 1..Len(b) : (a \o b)[Len(a) + k] = b[k]
         /\ \A k \in 1..(Len(a) + Len(b)) :
              k \in 1..Len(a) \/ \E j \in 1..Len(b) : k = Len(a) + j
<1> DEFINE m == Len(a)
           n == Len(b)
<1>1. m \in Nat /\ n \in Nat
  OBVIOUS
<1>2. /\ DOMAIN (a \o b) = 1..(m + n)
      /\ \A i \in 1..(m + n) : (a \o b)[i] = IF i <= m THEN a[i] ELSE b[i - m]
  OBVIOUS
<1> HIDE DEF m, n
<1>3. \A k \in 1..m : (a \o b)[k] = a[k]
  BY <1>1, <1>2
<1>4. \A k \in 1..n : (a \o b)[m + k] = b[k]
  BY <1>1, <1>2
<1>5. ASSUME NEW k \in 1..(m + n), k \notin 1..m PROVE \E j \in 1..n : k = m + j
  <2>1. k - m \in 1..n /\ k = m + (k - m)
    BY <1>1, <1>5
  <2> QED
    BY <2>1
<1> QED
  BY <1>2, <1>3, <1>4, <1>5 DEF m, n

(***************************************************************************)
(* Columns                                                                 *)
(***************************************************************************)

\* What is said of a column, and of an attribute that is one.
IsColumn(schema, c, name) ==
  /\ c.name = name
  /\ c.is_pk <=> name = schema.keys[1]
  /\ c.is_sort_key <=> Len(schema.keys) = 2 /\ name = schema.keys[2]

LEMMA ColumnInfoFacts ==
  ASSUME NEW schema, IsSchema(schema), NEW name, NEW type
  PROVE  IsColumn(schema, ColumnInfo(schema, name, type), name)
<1>1. Len(schema.keys) = 2 => Last(schema.keys) = schema.keys[2]
  BY DEF Last
<1> QED
  BY <1>1 DEF IsColumn, ColumnInfo

\* The columns described are the attributes and the key columns, each once.
LEMMA DescribedFacts ==
  ASSUME NEW schema, IsSchema(schema)
  PROVE  LET columns == DescribedColumns(schema)
         IN /\ \A k \in DOMAIN columns : IsColumn(schema, columns[k], columns[k].name)
            /\ \A j, k \in DOMAIN columns : columns[j].name = columns[k].name => j = k
            /\ \A i \in DOMAIN schema.keys :
                 \E k \in DOMAIN columns : columns[k].name = schema.keys[i]
<1> DEFINE defs == schema.attributes
           keys == schema.keys
           places == {j \in DOMAIN keys : \A k \in DOMAIN defs : defs[k][1] # keys[j]}
           rest == Kept(keys, places)
           a == [k \in DOMAIN defs |-> ColumnInfo(schema, defs[k][1], defs[k][2])]
           b == [k \in DOMAIN rest |-> ColumnInfo(schema, rest[k], "S")]
           m == Len(defs)
           n == Cardinality(places)
           order == Ascending(places)
           columns == DescribedColumns(schema)
           S == {a[k] : k \in 1..m} \union {b[k] : k \in 1..n}
<1>1. /\ m \in Nat /\ DOMAIN defs = 1..m
      /\ Len(keys) \in Nat /\ DOMAIN keys = 1..Len(keys)
  BY ListFacts DEF IsSchema
<1>2. /\ \A j, k \in 1..m : defs[j][1] = defs[k][1] => j = k
      /\ \A j, k \in DOMAIN keys : keys[j] = keys[k] => j = k
  BY <1>1 DEF IsSchema
<1>3. columns = a \o b
  BY DEF DescribedColumns
<1>4. IsFiniteSet(places) /\ places \subseteq DOMAIN keys /\ places \subseteq Int
  <2>1. IsFiniteSet(1..Len(keys))
    BY <1>1, FS_Interval
  <2>2. places \subseteq 1..Len(keys)
    BY <1>1
  <2> QED
    BY <1>1, <2>1, <2>2, FS_Subset
<1>5. \A j \in DOMAIN keys : j \in places \/ \E k \in 1..m : defs[k][1] = keys[j]
  BY <1>1
<1>6. \A j \in places, k \in 1..m : defs[k][1] # keys[j]
  BY <1>1
<1> HIDE DEF places, keys, defs
<1>7. /\ n \in Nat
      /\ order \in [1..n -> places]
      /\ \A i, j \in 1..n : i < j => order[i] < order[j]
      /\ \A p \in places : \E i \in 1..n : order[i] = p
      /\ DOMAIN rest = 1..n
      /\ \A i \in 1..n : rest[i] = keys[order[i]]
  BY <1>4, AscendingFacts, KeptFacts
<1> HIDE DEF order, rest, n, m, defs, keys, columns
<1>8. /\ \A k \in 1..m : IsColumn(schema, a[k], defs[k][1])
      /\ \A k \in 1..n : IsColumn(schema, b[k], rest[k])
  BY <1>1, <1>7, ColumnInfoFacts
<1>9. a \in [1..m -> S] /\ b \in [1..n -> S]
  BY <1>1, <1>7
<1> HIDE DEF a, b, S
<1>10. /\ DOMAIN columns = 1..(m + n)
       /\ \A k \in 1..m : columns[k] = a[k]
       /\ \A k \in 1..n : columns[m + k] = b[k]
       /\ \A k \in 1..(m + n) : k \in 1..m \/ \E j \in 1..n : k = m + j
  <2>1. a \in Seq(S) /\ b \in Seq(S) /\ Len(a) = m /\ Len(b) = n
    BY <1>1, <1>7, <1>9
  <2>2. /\ DOMAIN (a \o b) = 1..(Len(a) + Len(b))
        /\ \A k \in 1..Len(a) : (a \o b)[k] = a[k]
        /\ \A k \in 1..Len(b) : (a \o b)[Len(a) + k] = b[k]
        /\ \A k \in 1..(Len(a) + Len(b)) :
             k \in 1..Len(a) \/ \E j \in 1..Len(b) : k = Len(a) + j
    BY <2>1, JoinFacts
  <2> QED
    BY <1>3, <2>1, <2>2
<1>11. /\ \A k \in 1..m : columns[k].name = defs[k][1]
       /\ \A k \in 1..n : columns[m + k].name = keys[order[k]]
  BY <1>7, <1>8, <1>10 DEF IsColumn
<1>12. \A k \in DOMAIN columns : IsColumn(schema, columns[k], columns[k].name)
  BY <1>8, <1>10 DEF IsColumn
<1>13. ASSUME NEW i \in DOMAIN keys
       PROVE  \E k \in DOMAIN columns : columns[k].name = keys[i]
  <2>1. CASE i \in places
    <3>1. PICK j \in 1..n : order[j] = i
      BY <1>7, <2>1
    <3>2. m + j \in DOMAIN columns
      BY <1>1, <1>7, <1>10
    <3> QED
      BY <1>11, <3>1, <3>2
  <2>2. CASE \E k \in 1..m : defs[k][1] = keys[i]
    <3>1. PICK k \in 1..m : defs[k][1] = keys[i]
      BY <2>2
    <3>2. k \in DOMAIN columns
      BY <1>1, <1>7, <1>10
    <3> QED
      BY <1>11, <3>1, <3>2
  <2> QED
    BY <1>5, <2>1, <2>2
<1>14. ASSUME NEW j \in DOMAIN columns, NEW k \in DOMAIN columns,
              columns[j].name = columns[k].name
       PROVE  j = k
  <2>1. \A i \in 1..m, l \in 1..n : columns[i].name # columns[m + l].name
    BY <1>6, <1>7, <1>11
  <2>2. \A i, l \in 1..m : columns[i].name = columns[l].name => i = l
    BY <1>2, <1>11
  <2>3. ASSUME NEW i \in 1..n, NEW l \in 1..n, columns[m + i].name = columns[m + l].name
        PROVE  i = l
    <3>1. keys[order[i]] = keys[order[l]] /\ order[i] \in places /\ order[l] \in places
      BY <1>7, <1>11, <2>3
    <3>2. order[i] = order[l]
      BY <1>2, <1>4, <3>1
    <3>3. order[i] \in Int /\ ~(i < l) /\ ~(l < i)
      BY <1>4, <1>7, <3>1, <3>2
    <3> QED
      BY <3>3
  <2> QED
    BY <1>10, <1>14, <2>1, <2>2, <2>3
<1> QED
  BY <1>12, <1>13, <1>14 DEF columns, keys

LEMMA ColumnsAreRight ==
  ASSUME NEW schema, IsSchema(schema)
  PROVE  LET rows == Columns(schema)
         IN /\ {rows[k].name : k \in {j \in DOMAIN rows : ~rows[j].is_nullable}}
                 = ToSet(schema.keys)
            /\ \A j, k \in DOMAIN rows : rows[j].name = rows[k].name => j = k
<1> DEFINE columns == DescribedColumns(schema)
           keys == schema.keys
           rows == Columns(schema)
           required == {rows[k].name : k \in {j \in DOMAIN rows : ~rows[j].is_nullable}}
<1>1. /\ \A k \in DOMAIN columns : IsColumn(schema, columns[k], columns[k].name)
      /\ \A j, k \in DOMAIN columns : columns[j].name = columns[k].name => j = k
      /\ \A i \in DOMAIN keys : \E k \in DOMAIN columns : columns[k].name = keys[i]
  BY DescribedFacts
<1>2. /\ DOMAIN rows = DOMAIN columns
      /\ \A k \in DOMAIN columns :
           /\ rows[k].name = columns[k].name
           /\ ~rows[k].is_nullable <=> columns[k].is_pk \/ columns[k].is_sort_key
  BY DEF Columns
<1>3. /\ DOMAIN keys = 1..Len(keys) /\ Len(keys) \in {1, 2}
      /\ ToSet(keys) = {keys[i] : i \in DOMAIN keys}
  BY ListFacts DEF IsSchema
<1> HIDE DEF columns, keys, rows
<1>4. \A k \in DOMAIN rows :
        ~rows[k].is_nullable <=> \E i \in DOMAIN keys : rows[k].name = keys[i]
  <2> SUFFICES ASSUME NEW k \in DOMAIN rows
               PROVE  ~rows[k].is_nullable <=>
                        \E i \in DOMAIN keys : rows[k].name = keys[i]
    OBVIOUS
  <2>1. IsColumn(schema, columns[k], rows[k].name)
    BY <1>1, <1>2
  <2>2. ~rows[k].is_nullable <=>
          rows[k].name = keys[1] \/ (Len(keys) = 2 /\ rows[k].name = keys[2])
    BY <1>2, <2>1 DEF IsColumn, keys
  <2> QED
    BY <1>3, <2>2
<1>5. required = {keys[i] : i \in DOMAIN keys}
  <2>1. \A k \in DOMAIN rows : ~rows[k].is_nullable =>
          rows[k].name \in {keys[i] : i \in DOMAIN keys}
    BY <1>4
  <2>2. ASSUME NEW i \in DOMAIN keys
        PROVE  \E k \in DOMAIN rows : ~rows[k].is_nullable /\ rows[k].name = keys[i]
    <3>1. PICK k \in DOMAIN columns : columns[k].name = keys[i]
      BY <1>1
    <3> QED
      BY <1>2, <1>4, <3>1
  <2> QED
    BY <2>1, <2>2
<1>6. \A j, k \in DOMAIN rows : rows[j].name = rows[k].name => j = k
  BY <1>1, <1>2
<1> QED
  BY <1>3, <1>5, <1>6 DEF rows, keys

(***************************************************************************)
(* Indexes                                                                 *)
(***************************************************************************)

\* No secondary index is named as the plugin names the primary one.
PrimaryIsFree(schema) == \A i \in ToSet(Secondary(schema)) : i.name # "primary"

\* The indexes that are described are the primary one and the secondary ones.
LEMMA IndexFacts ==
  ASSUME NEW schema, IsSchema(schema), PrimaryIsFree(schema)
  PROVE  LET indexes == extract_indexes(schema)
         IN /\ \E n \in Nat : DOMAIN indexes = 1..n
            /\ \A k \in DOMAIN indexes : IsList(indexes[k].columns)
            /\ \A j, k \in DOMAIN indexes : indexes[j].name = indexes[k].name => j = k
            /\ \E k \in DOMAIN indexes :
                 indexes[k].name = "primary" /\ indexes[k].columns = schema.keys
            /\ \A i \in ToSet(Secondary(schema)) : \E k \in DOMAIN indexes :
                 indexes[k].name = i.name /\ indexes[k].columns = i.columns
<1> DEFINE secondary == Secondary(schema)
           n == Len(secondary)
           first == [name |-> "primary", columns |-> schema.keys, is_primary |-> TRUE]
           other(k) == [name |-> secondary[k].name, columns |-> secondary[k].columns,
                        is_primary |-> FALSE]
           a == <<first>>
           b == [k \in DOMAIN secondary |-> other(k)]
           S == {first} \union {other(k) : k \in 1..n}
           indexes == extract_indexes(schema)
<1>1. /\ n \in Nat /\ DOMAIN secondary = 1..n
      /\ \A i \in ToSet(secondary) : \E k \in 1..n : i = secondary[k]
      /\ \A k \in 1..n : secondary[k] \in ToSet(secondary)
  <2> DEFINE T == ToSet(schema.gsis) \union ToSet(schema.lsis)
  <2>1. schema.gsis \in Seq(T) /\ schema.lsis \in Seq(T)
    BY ListFacts DEF IsSchema, IsList
  <2> HIDE DEF T
  <2>2. secondary \in Seq(T)
    BY <2>1 DEF Secondary
  <2> QED
    BY <2>2 DEF ToSet
<1>2. indexes = a \o b
  BY DEF extract_indexes
<1> HIDE DEF secondary
<1>3. /\ \A j, k \in 1..n : secondary[j].name = secondary[k].name => j = k
      /\ \A k \in 1..n : IsList(secondary[k].columns)
      /\ \A k \in 1..n : secondary[k].name # "primary"
  BY <1>1 DEF IsSchema, PrimaryIsFree, secondary
<1>4. IsList(schema.keys)
  BY DEF IsSchema
<1>5. /\ first.name = "primary" /\ first.columns = schema.keys
      /\ \A k \in 1..n : /\ other(k).name = secondary[k].name
                         /\ other(k).columns = secondary[k].columns
  OBVIOUS
<1>6. a \in Seq(S) /\ Len(a) = 1 /\ a[1] = first
  OBVIOUS
<1>7. b \in Seq(S) /\ Len(b) = n /\ \A k \in 1..n : b[k] = other(k)
  <2>1. n \in Nat /\ DOMAIN secondary = 1..n
    BY <1>1
  <2> HIDE DEF n, other
  <2>2. b = [k \in 1..n |-> other(k)]
    BY <2>1
  <2>3. b \in [1..n -> S] /\ \A k \in 1..n : b[k] = other(k)
    BY <2>2
  <2> HIDE DEF b, S
  <2> QED
    BY <2>1, <2>3
<1> HIDE DEF a, b, S, indexes, first, other, n
<1>8. /\ DOMAIN indexes = 1..(1 + n)
      /\ indexes[1] = first
      /\ \A k \in 1..n : indexes[1 + k] = other(k)
      /\ \A k \in 1..(1 + n) : k = 1 \/ \E j \in 1..n : k = 1 + j
  <2>1. /\ DOMAIN (a \o b) = 1..(Len(a) + Len(b))
        /\ \A k \in 1..Len(a) : (a \o b)[k] = a[k]
        /\ \A k \in 1..Len(b) : (a \o b)[Len(a) + k] = b[k]
        /\ \A k \in 1..(Len(a) + Len(b)) :
             k \in 1..Len(a) \/ \E j \in 1..Len(b) : k = Len(a) + j
    BY <1>6, <1>7, JoinFacts
  <2> QED
    BY <1>1, <1>2, <1>6, <1>7, <2>1
<1>9. \A k \in DOMAIN indexes : IsList(indexes[k].columns)
  BY <1>3, <1>4, <1>5, <1>8
<1>10. ASSUME NEW j \in DOMAIN indexes, NEW k \in DOMAIN indexes,
              indexes[j].name = indexes[k].name
       PROVE  j = k
  <2>1. /\ indexes[1].name = "primary"
        /\ \A i \in 1..n : indexes[1 + i].name = secondary[i].name
    BY <1>5, <1>8
  <2>2. j = 1 \/ \E i \in 1..n : j = 1 + i
    BY <1>8
  <2>3. k = 1 \/ \E i \in 1..n : k = 1 + i
    BY <1>8
  <2> QED
    BY <1>3, <1>10, <2>1, <2>2, <2>3
<1>11. \E k \in DOMAIN indexes :
         indexes[k].name = "primary" /\ indexes[k].columns = schema.keys
  <2>1. 1 \in DOMAIN indexes
    BY <1>1, <1>8
  <2> QED
    BY <1>5, <1>8, <2>1
<1>12. ASSUME NEW i \in ToSet(secondary)
       PROVE  \E k \in DOMAIN indexes :
                indexes[k].name = i.name /\ indexes[k].columns = i.columns
  <2>1. PICK k \in 1..n : i = secondary[k]
    BY <1>1
  <2>2. 1 + k \in DOMAIN indexes
    BY <1>1, <1>8
  <2> QED
    BY <1>5, <1>8, <2>1, <2>2
<1>13. \E m \in Nat : DOMAIN indexes = 1..m
  BY <1>1, <1>8
<1> QED
  BY <1>9, <1>10, <1>11, <1>12, <1>13 DEF indexes, secondary

LEMMA PlacesFacts ==
  ASSUME NEW indexes, NEW n \in Nat, DOMAIN indexes = 1..n,
         \A k \in 1..n : IsList(indexes[k].columns)
  PROVE  LET places == ColumnPlaces(indexes)
         IN /\ IsFiniteSet(places) /\ Orders(Leading(places), places)
            /\ \A p \in places : /\ p = <<p[1], p[2]>> /\ p[1] \in 1..n
                                 /\ p[2] \in DOMAIN indexes[p[1]].columns
            /\ \A k \in 1..n : \A c \in DOMAIN indexes[k].columns : <<k, c>> \in places
<1> DEFINE places == ColumnPlaces(indexes)
           of(k) == {k} \X DOMAIN indexes[k].columns
           f == [k \in 1..n |-> of(k)]
           T == {of(k) : k \in 1..n}
<1>1. \A k \in 1..n : /\ IsFiniteSet(DOMAIN indexes[k].columns)
                      /\ DOMAIN indexes[k].columns \subseteq Int
  <2> SUFFICES ASSUME NEW k \in 1..n
               PROVE  /\ IsFiniteSet(DOMAIN indexes[k].columns)
                      /\ DOMAIN indexes[k].columns \subseteq Int
    OBVIOUS
  <2>1. PICK m \in Nat : DOMAIN indexes[k].columns = 1..m
    BY ListFacts
  <2> QED
    BY <2>1, FS_Interval
<1>2. places = UNION T
  BY DEF ColumnPlaces
<1>3. /\ \A p \in places : /\ p = <<p[1], p[2]>> /\ p[1] \in 1..n
                           /\ p[2] \in DOMAIN indexes[p[1]].columns
      /\ \A k \in 1..n : \A c \in DOMAIN indexes[k].columns : <<k, c>> \in places
  BY DEF ColumnPlaces
<1>4. \A k \in 1..n : IsFiniteSet(of(k))
  <2> SUFFICES ASSUME NEW k \in 1..n PROVE IsFiniteSet(of(k))
    OBVIOUS
  <2>1. IsFiniteSet({k}) /\ IsFiniteSet(DOMAIN indexes[k].columns)
    BY <1>1, FS_Singleton
  <2> QED
    BY <2>1, FS_Product
<1> HIDE DEF places, of
<1>5. IsFiniteSet(T)
  <2>1. f \in Surjection(1..n, T)
    BY DEF Surjection
  <2>2. IsFiniteSet(1..n)
    BY FS_Interval
  <2> HIDE DEF f, T
  <2> QED
    BY <2>1, <2>2, FS_Surjection
<1>6. IsFiniteSet(places)
  <2>1. \A t \in T : IsFiniteSet(t)
    BY <1>4
  <2> HIDE DEF T
  <2> QED
    BY <1>2, <1>5, <2>1, FS_UNION
<1>7. \A p, q \in places : <<p, q>> \in Leading(places) <=>
        p[1] < q[1] \/ (p[1] = q[1] /\ p[2] < q[2])
  BY DEF Leading
<1>8. \A p \in places : p[1] \in Int /\ p[2] \in Int
  BY <1>1, <1>3
<1>9. Orders(Leading(places), places)
  <2>1. \A p, q \in places : p[1] = q[1] /\ p[2] = q[2] => p = q
    BY <1>3
  <2> QED
    BY <1>7, <1>8, <2>1 DEF Orders
<1> QED
  BY <1>3, <1>6, <1>9 DEF places

\* The rows of the name of an index are those of its columns, in order.
LEMMA RowsOfIndex ==
  ASSUME NEW schema, IsSchema(schema), PrimaryIsFree(schema),
         NEW k \in DOMAIN extract_indexes(schema)
  PROVE  LET rows == IndexRows(schema)
             index == extract_indexes(schema)[k]
             group == {j \in DOMAIN rows : rows[j].name = index.name}
         IN /\ {<<rows[j].seq_in_index, rows[j].column_name>> : j \in group}
                 = {<<c, index.columns[c]>> : c \in DOMAIN index.columns}
            /\ \A i, j \in group :
                 i < j => rows[i].seq_in_index < rows[j].seq_in_index
<1> DEFINE indexes == extract_indexes(schema)
           places == ColumnPlaces(indexes)
           order == Arranged(places, Leading(places))
           rows == IndexRows(schema)
           N == Cardinality(places)
           columns == indexes[k].columns
           group == {j \in DOMAIN rows : rows[j].name = indexes[k].name}
<1>1. PICK n \in Nat : DOMAIN indexes = 1..n
  BY IndexFacts
<1>2. /\ \A i \in 1..n : IsList(indexes[i].columns)
      /\ \A i, j \in 1..n : indexes[i].name = indexes[j].name => i = j
  BY <1>1, IndexFacts
<1> HIDE DEF indexes
<1>3. /\ IsFiniteSet(places) /\ Orders(Leading(places), places)
      /\ \A p \in places : /\ p = <<p[1], p[2]>> /\ p[1] \in 1..n
                           /\ p[2] \in DOMAIN indexes[p[1]].columns
      /\ \A i \in 1..n : \A c \in DOMAIN indexes[i].columns : <<i, c>> \in places
  BY <1>1, <1>2, PlacesFacts
<1> HIDE DEF places
<1>4. /\ N \in Nat /\ order \in [1..N -> places]
      /\ \A p \in places : \E i \in 1..N : order[i] = p
      /\ \A i, j \in 1..N : i < j => <<order[i], order[j]>> \in Leading(places)
  <2> DEFINE R == Leading(places)
             A == Arranged(places, R)
             M == Cardinality(places)
  <2>1. IsFiniteSet(places) /\ Orders(R, places)
    BY <1>3
  <2>2. N = M /\ order = A
    OBVIOUS
  <2> HIDE DEF R, N, order
  <2>3. /\ M \in Nat /\ A \in [1..M -> places]
        /\ \A p \in places : \E i \in 1..M : A[i] = p
        /\ \A i, j \in 1..M : i < j => <<A[i], A[j]>> \in R
    BY <2>1, ArrangedFacts
  <2> HIDE DEF A, M
  <2> QED
    BY <2>2, <2>3 DEF R
<1>5. rows = [j \in 1..N |-> IndexRow(indexes[order[j][1]], order[j][2])]
  BY DEF IndexRows, indexes, places
<1> HIDE DEF order, N
<1>6. /\ DOMAIN rows = 1..N
      /\ \A j \in 1..N : /\ rows[j].name = indexes[order[j][1]].name
                         /\ rows[j].column_name = indexes[order[j][1]].columns[order[j][2]]
                         /\ rows[j].seq_in_index = order[j][2]
  BY <1>5 DEF IndexRow
<1> HIDE DEF rows
<1>7. \A j \in 1..N : j \in group <=> order[j][1] = k
  <2>1. k \in 1..n /\ \A j \in 1..N : order[j][1] \in 1..n
    BY <1>1, <1>3, <1>4 DEF indexes
  <2> QED
    BY <1>2, <1>6, <2>1
<1>8. \A j \in group : /\ j \in 1..N /\ order[j] = <<k, order[j][2]>>
                       /\ order[j][2] \in DOMAIN columns
                       /\ rows[j].column_name = columns[order[j][2]]
                       /\ rows[j].seq_in_index = order[j][2]
  BY <1>3, <1>4, <1>6, <1>7
<1>9. \A c \in DOMAIN columns : \E j \in group : order[j][2] = c
  <2> SUFFICES ASSUME NEW c \in DOMAIN columns
               PROVE  \E j \in group : order[j][2] = c
    OBVIOUS
  <2>1. <<k, c>> \in places
    BY <1>1, <1>3 DEF indexes
  <2>2. PICK j \in 1..N : order[j] = <<k, c>>
    BY <1>4, <2>1
  <2>3. j \in group
    BY <1>7, <2>2
  <2> QED
    BY <2>2, <2>3
<1> HIDE DEF group, columns
<1>10. {<<rows[j].seq_in_index, rows[j].column_name>> : j \in group}
         = {<<c, columns[c]>> : c \in DOMAIN columns}
  BY <1>8, <1>9
<1>11. ASSUME NEW i \in group, NEW j \in group, i < j
       PROVE  rows[i].seq_in_index < rows[j].seq_in_index
  <2>1. <<order[i], order[j]>> \in Leading(places)
    BY <1>4, <1>8, <1>11
  <2>2. /\ order[i][1] = k /\ order[j][1] = k /\ k \in Int
        /\ rows[i].seq_in_index = order[i][2] /\ rows[j].seq_in_index = order[j][2]
    <3>1. k \in Int
      BY <1>1 DEF indexes
    <3> QED
      BY <1>8, <3>1
  <2>3. \/ order[i][1] < order[j][1]
        \/ order[i][1] = order[j][1] /\ order[i][2] < order[j][2]
    BY <2>1 DEF Leading
  <2> QED
    BY <2>2, <2>3
<1> QED
  BY <1>10, <1>11 DEF group, columns, rows, indexes

LEMMA IndexRowsAreRight ==
  ASSUME NEW schema, IsSchema(schema), PrimaryIsFree(schema)
  PROVE  DescriptionIsRight([kind |-> "get_indexes", of |-> schema,
                             rows |-> IndexRows(schema)])
<1> DEFINE rows == IndexRows(schema)
           r == [kind |-> "get_indexes", of |-> schema, rows |-> rows]
           group(name) == {j \in DOMAIN rows : rows[j].name = name}
           whole(name, columns) ==
             /\ {<<rows[j].seq_in_index, rows[j].column_name>> : j \in group(name)}
                  = {<<k, columns[k]>> : k \in DOMAIN columns}
             /\ \A i, j \in group(name) :
                  i < j => rows[i].seq_in_index < rows[j].seq_in_index
           indexes == extract_indexes(schema)
<1>1. \A k \in DOMAIN indexes : whole(indexes[k].name, indexes[k].columns)
  BY RowsOfIndex
<1>2. /\ \E k \in DOMAIN indexes :
           indexes[k].name = "primary" /\ indexes[k].columns = schema.keys
      /\ \A i \in ToSet(Secondary(schema)) : \E k \in DOMAIN indexes :
           indexes[k].name = i.name /\ indexes[k].columns = i.columns
  BY IndexFacts
<1> HIDE DEF whole, indexes
<1>3. whole("primary", schema.keys)
  <2>1. PICK k \in DOMAIN indexes :
          indexes[k].name = "primary" /\ indexes[k].columns = schema.keys
    BY <1>2
  <2> QED
    BY <1>1, <2>1
<1>4. \A i \in ToSet(Secondary(schema)) : whole(i.name, i.columns)
  <2> SUFFICES ASSUME NEW i \in ToSet(Secondary(schema))
               PROVE  whole(i.name, i.columns)
    OBVIOUS
  <2>1. PICK k \in DOMAIN indexes :
          indexes[k].name = i.name /\ indexes[k].columns = i.columns
    BY <1>2
  <2>2. whole(indexes[k].name, indexes[k].columns)
    BY <1>1
  <2> QED
    BY <2>1, <2>2
<1>5. r.rows = rows /\ r.of = schema /\ r.kind = "get_indexes"
  OBVIOUS
<1> HIDE DEF r, rows
<1> QED
  BY <1>3, <1>4, <1>5 DEF whole, DescriptionIsRight, r, rows

(***************************************************************************)
(* Descriptions                                                            *)
(***************************************************************************)
LEMMA ColumnRowsAreRight ==
  ASSUME NEW schema, IsSchema(schema)
  PROVE  DescriptionIsRight([kind |-> "get_columns", of |-> schema,
                             rows |-> Columns(schema)])
<1> DEFINE rows == Columns(schema)
           r == [kind |-> "get_columns", of |-> schema, rows |-> rows]
<1>1. /\ {rows[k].name : k \in {j \in DOMAIN rows : ~rows[j].is_nullable}}
           = ToSet(schema.keys)
      /\ \A j, k \in DOMAIN rows : rows[j].name = rows[k].name => j = k
  BY ColumnsAreRight
<1>2. r.rows = rows /\ r.of = schema /\ r.kind = "get_columns"
  OBVIOUS
<1> HIDE DEF r, rows
<1>3. DescriptionIsRight(r)
  BY <1>1, <1>2 DEF DescriptionIsRight
<1> QED
  BY <1>3 DEF r, rows

\* Nothing else describes a table.
LEMMA OtherAnswers ==
  \A r : r.kind \notin {"get_columns", "get_indexes"} => DescriptionIsRight(r)
BY DEF DescriptionIsRight

PrimariesAreFree ==
  \A t \in Tables : table[t].status # "absent" => PrimaryIsFree(table[t].schema)

LEMMA ActsDescribe ==
  ASSUME AccountOK, PrimariesAreFree, NEW s \in Sends, Acts(s)
  PROVE  \E r : Attempted(s, r) /\ DescriptionIsRight(r)
<1>1. CASE create_table(s)
  <2>1. \A result : CreateReport(result).kind \in {"created", "already exists"}
    BY DEF CreateReport
  <2>2. \A result : DescriptionIsRight(CreateReport(result))
    BY <2>1, OtherAnswers
  <2> QED
    BY <1>1, <2>2 DEF create_table
<1>2. CASE delete_table(s)
  <2>1. \A result \in {"ok", "in use", "not found"} :
          DropReport(result).kind \in {"dropped", "busy", "not found"}
    BY DEF DropReport
  <2>2. \A result \in {"ok", "in use", "not found"} :
          DescriptionIsRight(DropReport(result))
    BY <2>1, OtherAnswers
  <2> QED
    BY <1>2, <2>2 DEF delete_table
<1>3. CASE execute_transaction(s)
  <2>1. /\ \A n : [kind |-> "applied", rows |-> n].kind = "applied"
        /\ [kind |-> "failed"].kind = "failed"
    OBVIOUS
  <2>2. /\ \A n : DescriptionIsRight([kind |-> "applied", rows |-> n])
        /\ DescriptionIsRight([kind |-> "failed"])
    BY <2>1, OtherAnswers
  <2> QED
    BY <1>3, <2>2 DEF execute_transaction
<1>4. CASE execute_statement(s) \/ Read(s) \/ Fail(s)
  <2>1. \A kind \in {"rows", "success", "failed"} : DescriptionIsRight([kind |-> kind])
    BY OtherAnswers
  <2> QED
    BY <1>4, <2>1 DEF execute_statement, Read, Fail
<1>5. CASE describe_table(s)
  <2> DEFINE act == plan[s].act
             schema == table[plan[s].table].schema
             r == [kind |-> act, of |-> schema,
                   rows |-> IF act = "get_columns" THEN Columns(schema)
                            ELSE IndexRows(schema)]
  <2>1. /\ act \in {"get_columns", "get_indexes"} /\ plan[s].table \in Tables
        /\ \/ Attempted(s, [kind |-> "failed"])
           \/ Attempted(s, r) /\ table[plan[s].table].status # "absent"
    BY <1>5 DEF describe_table, Calls, Exists
  <2>2. DescriptionIsRight([kind |-> "failed"])
    BY OtherAnswers
  <2>3. ASSUME table[plan[s].table].status # "absent"
        PROVE  DescriptionIsRight(r)
    <3>1. IsSchema(schema) /\ PrimaryIsFree(schema)
      BY <2>1, <2>3 DEF AccountOK, IsTable, PrimariesAreFree
    <3>2. CASE act = "get_columns"
      BY <3>1, <3>2, ColumnRowsAreRight
    <3>3. CASE act = "get_indexes"
      BY <3>1, <3>3, IndexRowsAreRight
    <3> QED
      BY <2>1, <3>2, <3>3
  <2> QED
    BY <2>1, <2>2, <2>3
<1> QED
  BY <1>1, <1>2, <1>3, <1>4, <1>5 DEF Acts

\* A table becomes another one, or gets another status.
LEMMA FreeTable ==
  ASSUME AccountOK, PrimariesAreFree, NEW t \in Tables, NEW x,
         x.status # "absent" => PrimaryIsFree(x.schema),
         table' = [table EXCEPT ![t] = x]
  PROVE  PrimariesAreFree'
BY DEF AccountOK, PrimariesAreFree

LEMMA FreeStatus ==
  ASSUME AccountOK, PrimariesAreFree, NEW t \in Tables,
         table[t].status # "absent", NEW status, Become(t, status)
  PROVE  PrimariesAreFree'
<1> DEFINE x == [table[t] EXCEPT !.status = status]
<1>1. x.schema = table[t].schema /\ PrimaryIsFree(table[t].schema)
  BY DEF AccountOK, IsTable, PrimariesAreFree
<1>2. table' = [table EXCEPT ![t] = x]
  BY DEF Become
<1> HIDE DEF x
<1> QED
  BY <1>1, <1>2, FreeTable

\* The secondary indexes of the tables others make are not named primary.
PrimaryIsReserved ==
  /\ \A schema \in Schemas : PrimaryIsFree(schema)
  /\ \A cases \in Cases : \A c \in cases : \A t \in Tables :
       c.table[t].status # "absent" => PrimaryIsFree(c.table[t].schema)

LEMMA PrimariesStayFree ==
  ASSUME PrimaryIsReserved, AccountOK, PrimariesAreFree, [Next]_vars
  PROVE  PrimariesAreFree'
<1>1. ASSUME table' = table PROVE PrimariesAreFree'
  BY <1>1 DEF PrimariesAreFree
<1>2. \A schema : [status |-> "creating", schema |-> schema].schema = schema
  OBVIOUS
<1>3. ASSUME NEW s \in Sends, create_table(s)
      PROVE  PrimariesAreFree'
  <2> DEFINE schema == KeySchema(plan[s].keys)
  <2>1. /\ plan[s].table \in Tables
        /\ \/ table' = table
           \/ table' = [table EXCEPT ![plan[s].table] =
                          [status |-> "creating", schema |-> schema]]
    BY <1>3 DEF create_table
  <2>2. PrimaryIsFree(schema)
    <3>1. Secondary(schema) = <<>>
      BY DEF Secondary, KeySchema
    <3> HIDE DEF schema
    <3> QED
      BY <3>1 DEF PrimaryIsFree, ToSet
  <2> HIDE DEF schema
  <2> QED
    BY <1>1, <1>2, <2>1, <2>2, FreeTable
<1>4. ASSUME NEW s \in Sends, delete_table(s)
      PROVE  PrimariesAreFree'
  <2>1. /\ plan[s].table \in Tables
        /\ \/ table' = table
           \/ /\ table[plan[s].table].status \in {"active", "deleting"}
              /\ Become(plan[s].table, "deleting")
    BY <1>4 DEF delete_table
  <2> QED
    BY <1>1, <2>1, FreeStatus
<1>5. ASSUME NEW t \in Tables, Settle(t) \/ OthersChange(t)
      PROVE  PrimariesAreFree'
  <2>1. \/ table[t].status # "absent" /\ \E status : Become(t, status)
        \/ table' = [table EXCEPT ![t] = [status |-> "absent", schema |-> None]]
        \/ \E schema \in Schemas :
             table' = [table EXCEPT ![t] = [status |-> "creating", schema |-> schema]]
    BY <1>5 DEF Settle, OthersChange
  <2>2. [status |-> "absent", schema |-> None].status = "absent"
    OBVIOUS
  <2> QED
    BY <1>2, <2>1, <2>2, FreeStatus, FreeTable DEF PrimaryIsReserved
<1>6. ASSUME NEW s \in Sends,
             \/ RefuseArguments(s) \/ get_create_table_sql(s) \/ Receive(s)
             \/ execute_transaction(s) \/ execute_statement(s) \/ Read(s)
             \/ describe_table(s) \/ Fail(s)
      PROVE  table' = table
  BY <1>6 DEF RefuseArguments, get_create_table_sql, Receive, Decide,
     execute_transaction, execute_statement, Read, describe_table, Fail, account
<1>7. ASSUME UNCHANGED vars PROVE table' = table
  BY <1>7 DEF vars, account
<1> QED
  BY <1>1, <1>3, <1>4, <1>5, <1>6, <1>7 DEF Next

DInv == CInv /\ AccountOK /\ PrimariesAreFree /\ DescriptionsAreRight

LEMMA DescriptionsInit == PrimaryIsReserved /\ Init => DInv
<1> SUFFICES ASSUME PrimaryIsReserved, Init PROVE DInv
  OBVIOUS
<1>1. AccountOK
  BY CaseAssumption DEF Init, AccountOK
<1>2. PrimariesAreFree
  BY DEF Init, PrimariesAreFree, PrimaryIsReserved
<1>3. DescriptionsAreRight
  BY DEF Init, DescriptionsAreRight
<1> QED
  BY <1>1, <1>2, <1>3, InitHolds DEF DInv

\* A handler that decides describes nothing yet.
LEMMA DecisionsDescribe ==
  ASSUME DInv, NEW s \in Sends, Decides(s)
  PROVE  DescriptionsAreRight'
<1>1. PICK p : Decide(s, p)
  BY DEF Decides
<1>2. DOMAIN reply = Sends
  BY DEF DInv, CInv, Shape
<1>3. \/ reply' = reply
      \/ p.act \in Local /\ reply' = [reply EXCEPT ![s] = [kind |-> p.act]]
  BY <1>1 DEF Decide
<1>4. p.act \in Local => DescriptionIsRight([kind |-> p.act])
  BY OtherAnswers DEF Local
<1> QED
  BY <1>2, <1>3, <1>4 DEF DInv, DescriptionsAreRight

LEMMA ActsAreRight ==
  ASSUME DInv, NEW s \in Sends, Acts(s)
  PROVE  DescriptionsAreRight'
<1>1. PICK r : Attempted(s, r) /\ DescriptionIsRight(r)
  BY ActsDescribe DEF DInv
<1>2. Shape
  BY DEF DInv, CInv
<1>3. /\ \A u \in Sends \ {s} : reply'[u] = reply[u]
      /\ reply'[s] = r \/ reply'[s] = reply[s] \/ reply'[s].kind = "failed"
  BY <1>1, <1>2, AttemptStep
<1>4. reply'[s].kind = "failed" => DescriptionIsRight(reply'[s])
  BY OtherAnswers
<1>5. \A u \in Sends : reply'[u] # None => DescriptionIsRight(reply'[u])
  BY <1>1, <1>3, <1>4 DEF DInv, DescriptionsAreRight
<1> QED
  BY <1>5 DEF DescriptionsAreRight, DescriptionIsRight

LEMMA DescriptionsNext == PrimaryIsReserved /\ DInv /\ [Next]_vars => DInv'
<1> SUFFICES ASSUME PrimaryIsReserved, DInv, [Next]_vars PROVE DInv'
  OBVIOUS
<1>1. CInv' /\ PrimariesAreFree'
  BY NextHolds, PrimariesStayFree DEF DInv
<1>2. AccountOK'
  <2>1. CASE \E s \in Sends : Acts(s)
    BY <2>1, ActsKeepAccount DEF DInv
  <2>2. CASE \E t \in Tables : Settle(t) \/ OthersChange(t)
    BY <2>2, OthersKeepAccount DEF DInv
  <2>3. ASSUME NEW s \in Sends,
               RefuseArguments(s) \/ get_create_table_sql(s) \/ Receive(s)
        PROVE  UNCHANGED account
    BY <2>3 DEF RefuseArguments, get_create_table_sql, Receive, Decide
  <2>4. ASSUME UNCHANGED account PROVE AccountOK'
    BY <2>4 DEF account, DInv, AccountOK
  <2> QED
    BY <2>1, <2>2, <2>3, <2>4 DEF Next, Acts, vars
<1>3. DescriptionsAreRight'
  <2>1. CASE UNCHANGED reply
    BY <2>1 DEF DInv, DescriptionsAreRight
  <2> QED
    BY <2>1, Steps, DecisionsDescribe, ActsAreRight DEF handlers
<1> QED
  BY <1>1, <1>2, <1>3 DEF DInv

\* What get_columns and get_indexes answer describes the table as it was when
\* it was read: exactly the key columns are required and no column comes twice,
\* and the rows of a name are the columns of that index, in order, for every
\* table whose secondary indexes are not named "primary", as the plugin names
\* the primary one (metadata.rs:62-150 over client.rs:162-297).
THEOREM DescriptionsHold ==
  ASSUME PrimaryIsReserved
  PROVE  Spec => []DescriptionsAreRight
<1>1. Init => DInv
  BY PrimaryIsReserved, DescriptionsInit
<1>2. DInv /\ [Next]_vars => DInv'
  BY PrimaryIsReserved, DescriptionsNext
<1>3. DInv => DescriptionsAreRight
  BY DEF DInv
<1> QED
  BY <1>1, <1>2, <1>3, PTL DEF Spec

(***************************************************************************)
(* Parts of a text                                                         *)
(***************************************************************************)
\* The piece stands in the text behind the first `at' words and marks.
At(piece, text, at) ==
  /\ at \in Nat /\ at + Len(piece) <= Len(text)
  /\ \A k \in 1..Len(piece) : piece[k] = text[at + k]
IsPart(piece, text) == \E at \in Nat : At(piece, text, at)

LEMMA LengthFacts ==
  ASSUME NEW S, NEW text \in Seq(S)
  PROVE  /\ Len(text) \in Nat /\ DOMAIN text = 1..Len(text)
         /\ \A k \in 1..Len(text) : text[k] \in S
OBVIOUS

LEMMA CutFacts ==
  ASSUME NEW S, NEW text \in Seq(S), NEW i \in 1..(Len(text) + 1),
         NEW j \in (i - 1)..Len(text)
  PROVE  /\ SubSeq(text, i, j) \in Seq(S)
         /\ Len(SubSeq(text, i, j)) = j - i + 1
         /\ At(SubSeq(text, i, j), text, i - 1)
<1> DEFINE p == SubSeq(text, i, j)
<1>1. /\ Len(text) \in Nat /\ i \in Int /\ j \in Int /\ 1 <= i /\ i - 1 <= j
      /\ j <= Len(text) /\ \A k \in i..j : text[k] \in S
  BY LengthFacts
<1>2. /\ p \in Seq(S) /\ Len(p) = IF i <= j THEN j - i + 1 ELSE 0
      /\ \A k \in 1..(j - i + 1) : p[k] = text[i + k - 1]
  BY <1>1, SubSeqProperties
<1> HIDE DEF p
<1>3. Len(p) = j - i + 1
  BY <1>1, <1>2
<1>4. At(p, text, i - 1)
  BY <1>1, <1>2, <1>3 DEF At
<1> QED
  BY <1>2, <1>3, <1>4 DEF p

LEMMA CutIsPart ==
  ASSUME NEW S, NEW text \in Seq(S), NEW i \in Nat \ {0}, NEW j \in Int, j <= Len(text)
  PROVE  SubSeq(text, i, j) \in Seq(S) /\ IsPart(SubSeq(text, i, j), text)
<1>1. Len(text) \in Nat
  BY LengthFacts
<1>2. CASE i <= j + 1
  <2>1. i \in 1..(Len(text) + 1) /\ j \in (i - 1)..Len(text) /\ i - 1 \in Nat
    BY <1>1, <1>2
  <2> QED
    BY <2>1, CutFacts DEF IsPart
<1>3. CASE j + 1 < i
  <2>1. SubSeq(text, i, j) = <<>>
    BY <1>3, SubSeqEmpty
  <2>2. At(<<>>, text, 0) /\ <<>> \in Seq(S)
    BY <1>1 DEF At
  <2> QED
    BY <2>1, <2>2 DEF IsPart
<1> QED
  BY <1>2, <1>3

LEMMA PartOfPart ==
  ASSUME NEW S, NEW text \in Seq(S), NEW middle \in Seq(S), NEW piece \in Seq(S),
         NEW a, NEW b, At(middle, text, a), At(piece, middle, b)
  PROVE  At(piece, text, a + b)
<1>1. Len(text) \in Nat /\ Len(middle) \in Nat /\ Len(piece) \in Nat
  BY LengthFacts
<1>2. /\ a \in Nat /\ a + Len(middle) <= Len(text)
      /\ \A k \in 1..Len(middle) : middle[k] = text[a + k]
      /\ b \in Nat /\ b + Len(piece) <= Len(middle)
      /\ \A k \in 1..Len(piece) : piece[k] = middle[b + k]
  BY DEF At
<1>3. ASSUME NEW k \in 1..Len(piece) PROVE piece[k] = text[(a + b) + k]
  <2>1. b + k \in 1..Len(middle) /\ a + (b + k) = (a + b) + k
    BY <1>1, <1>2
  <2> QED
    BY <1>2, <2>1
<1> QED
  BY <1>1, <1>2, <1>3 DEF At

LEMMA PartsOfParts ==
  ASSUME NEW S, NEW text \in Seq(S), NEW middle \in Seq(S), NEW piece \in Seq(S),
         IsPart(middle, text), IsPart(piece, middle)
  PROVE  IsPart(piece, text)
<1>1. PICK a \in Nat : At(middle, text, a)
  BY DEF IsPart
<1>2. PICK b \in Nat : At(piece, middle, b)
  BY DEF IsPart
<1>3. a + b \in Nat /\ At(piece, text, a + b)
  BY <1>1, <1>2, PartOfPart
<1> QED
  BY <1>3 DEF IsPart

LEMMA WholeIsPart ==
  ASSUME NEW S, NEW text \in Seq(S)
  PROVE  IsPart(text, text)
<1>1. At(text, text, 0)
  BY LengthFacts DEF At
<1> QED
  BY <1>1 DEF IsPart

LEMMA LeastAndGreatest ==
  ASSUME NEW P, IsFiniteSet(P), P \subseteq Int, P # {}
  PROVE  /\ Min(P) \in P /\ \A p \in P : Min(P) <= p
         /\ Max(P) \in P /\ \A p \in P : p <= Max(P)
<1> DEFINE n == Cardinality(P)
           order == Ascending(P)
<1>1. /\ n \in Nat /\ order \in [1..n -> P]
      /\ \A p \in P : \E i \in 1..n : order[i] = p
      /\ \A i, j \in 1..n : i < j => order[i] < order[j]
  BY AscendingFacts
<1> HIDE DEF n, order
<1>2. n >= 1
  <2>1. PICK p \in P : TRUE
    OBVIOUS
  <2>2. PICK i \in 1..n : order[i] = p
    BY <1>1
  <2> QED
    BY <1>1
<1>3. order[1] \in P /\ order[n] \in P
  BY <1>1, <1>2
<1>4. \A i \in 1..n : order[1] <= order[i] /\ order[i] <= order[n]
  <2> SUFFICES ASSUME NEW i \in 1..n
               PROVE  order[1] <= order[i] /\ order[i] <= order[n]
    OBVIOUS
  <2>1. order[i] \in Int /\ order[1] \in Int /\ order[n] \in Int
    BY <1>1, <1>3
  <2>2. (i = 1 \/ 1 < i) /\ (i = n \/ i < n) /\ 1 \in 1..n /\ n \in 1..n
    BY <1>1, <1>2
  <2>3. order[1] = order[i] \/ order[1] < order[i]
    BY <1>1, <2>2
  <2>4. order[i] = order[n] \/ order[i] < order[n]
    BY <1>1, <2>2
  <2> QED
    BY <2>1, <2>3, <2>4
<1>5. \A p \in P : order[1] <= p /\ p <= order[n]
  BY <1>1, <1>4
<1>6. \E x \in P : \A y \in P : x =< y
  BY <1>3, <1>5
<1>7. \E x \in P : \A y \in P : x >= y
  BY <1>3, <1>5
<1>8. Min(P) \in P /\ \A y \in P : Min(P) =< y
  BY <1>6, Zenon DEF Min
<1>9. Max(P) \in P /\ \A y \in P : Max(P) >= y
  BY <1>7, Zenon DEF Max
<1> QED
  BY <1>8, <1>9

\* The positions in a text, and one at either end of it.
LEMMA PositionFacts ==
  ASSUME NEW S, NEW text \in Seq(S), NEW P, P \subseteq DOMAIN text
  PROVE  /\ IsFiniteSet(P) /\ P \subseteq 1..Len(text)
         /\ P # {} => Min(P) \in 1..Len(text) /\ Max(P) \in 1..Len(text)
                      /\ Min(P) \in P /\ Max(P) \in P
         /\ Min(P \union {Len(text) + 1}) \in 1..(Len(text) + 1)
         /\ Max(P \union {0}) \in 0..Len(text)
<1> DEFINE n == Len(text)
           Q == P \union {n + 1}
           R == P \union {0}
<1>1. n \in Nat /\ P \subseteq 1..n
  BY LengthFacts
<1>2. Q \subseteq 1..(n + 1) /\ R \subseteq 0..n
  BY <1>1
<1>3. IsFiniteSet(1..n) /\ IsFiniteSet(1..(n + 1)) /\ IsFiniteSet(0..n)
  BY <1>1, FS_Interval
<1>4. Q # {} /\ R # {}
  OBVIOUS
<1> HIDE DEF n, Q, R
<1>5. IsFiniteSet(P) /\ IsFiniteSet(Q) /\ IsFiniteSet(R)
  BY <1>1, <1>2, <1>3, FS_Subset
<1>6. P \subseteq Int /\ Q \subseteq Int /\ R \subseteq Int
  BY <1>1, <1>2
<1>7. P # {} => Min(P) \in P /\ Max(P) \in P
  BY <1>5, <1>6, LeastAndGreatest
<1>8. Min(Q) \in Q /\ Max(R) \in R
  BY <1>4, <1>5, <1>6, LeastAndGreatest
<1> QED
  BY <1>1, <1>2, <1>5, <1>7, <1>8 DEF n, Q, R

LEMMA FromFacts ==
  ASSUME NEW S, NEW text \in Seq(S), NEW i \in Nat \ {0}
  PROVE  /\ From(text, i) \in Seq(S) /\ IsPart(From(text, i), text)
         /\ i <= Len(text) + 1 => Len(From(text, i)) = Len(text) + 1 - i
<1>1. Len(text) \in Nat
  BY LengthFacts
<1>2. From(text, i) \in Seq(S) /\ IsPart(From(text, i), text)
  BY <1>1, CutIsPart DEF From
<1>3. ASSUME i <= Len(text) + 1 PROVE Len(From(text, i)) = Len(text) + 1 - i
  <2>1. i \in 1..(Len(text) + 1) /\ Len(text) \in (i - 1)..Len(text)
    BY <1>1, <1>3
  <2>2. Len(SubSeq(text, i, Len(text))) = Len(text) - i + 1
    BY <2>1, CutFacts
  <2> QED
    BY <1>1, <2>2 DEF From
<1> QED
  BY <1>2, <1>3

LEMMA UpToFacts ==
  ASSUME NEW S, NEW text \in Seq(S), NEW j \in 0..Len(text)
  PROVE  /\ UpTo(text, j) \in Seq(S) /\ IsPart(UpTo(text, j), text)
         /\ Len(UpTo(text, j)) = j
<1>1. Len(text) \in Nat
  BY LengthFacts
<1>2. 1 \in 1..(Len(text) + 1) /\ j \in (1 - 1)..Len(text) /\ j - 1 + 1 = j
  BY <1>1
<1>3. /\ SubSeq(text, 1, j) \in Seq(S) /\ Len(SubSeq(text, 1, j)) = j - 1 + 1
      /\ At(SubSeq(text, 1, j), text, 1 - 1)
  BY <1>2, CutFacts
<1> QED
  BY <1>2, <1>3 DEF UpTo, IsPart

LEMMA TrimFacts ==
  ASSUME NEW S, NEW text \in Seq(S)
  PROVE  /\ TrimStart(text) \in Seq(S) /\ IsPart(TrimStart(text), text)
         /\ Len(TrimStart(text)) \in 0..Len(text)
         /\ \A T : TrimEnd(text, T) \in Seq(S) /\ IsPart(TrimEnd(text, T), text)
         /\ Trim(text) \in Seq(S) /\ IsPart(Trim(text), text)
         /\ TrimTail(text) \in Seq(S) /\ IsPart(TrimTail(text), text)
         /\ \A T : /\ Before(text, T) \in Seq(S) /\ IsPart(Before(text, T), text)
                   /\ Len(Before(text, T)) \in 0..Len(text)
<1>1. Len(text) \in Nat
  BY LengthFacts
<1>2. ASSUME NEW t \in Seq(S)
      PROVE  /\ TrimStart(t) \in Seq(S) /\ IsPart(TrimStart(t), t)
             /\ Len(TrimStart(t)) \in 0..Len(t)
  <2> DEFINE P == {i \in DOMAIN t : t[i] \notin Blanks}
             i == Min(P \union {Len(t) + 1})
  <2>1. i \in 1..(Len(t) + 1) /\ Len(t) \in Nat
    BY LengthFacts, PositionFacts
  <2>2. TrimStart(t) = From(t, i)
    BY DEF TrimStart
  <2> HIDE DEF P, i
  <2>3. i \in Nat \ {0} /\ i <= Len(t) + 1
    BY <2>1
  <2>4. /\ From(t, i) \in Seq(S) /\ IsPart(From(t, i), t)
        /\ Len(From(t, i)) = Len(t) + 1 - i
    BY <2>3, FromFacts
  <2> QED
    BY <2>1, <2>2, <2>4
<1>3. ASSUME NEW t \in Seq(S), NEW T
      PROVE  TrimEnd(t, T) \in Seq(S) /\ IsPart(TrimEnd(t, T), t)
  <2> DEFINE P == {i \in DOMAIN t : t[i] \notin T}
  <2>1. Max(P \union {0}) \in 0..Len(t)
    BY PositionFacts
  <2> QED
    BY <2>1, UpToFacts DEF TrimEnd
<1>4. Trim(text) \in Seq(S) /\ IsPart(Trim(text), text)
  <2> DEFINE t == TrimEnd(text, Blanks)
  <2>1. t \in Seq(S) /\ IsPart(t, text)
    BY <1>3
  <2>2. TrimStart(t) \in Seq(S) /\ IsPart(TrimStart(t), t)
    BY <1>2, <2>1
  <2> HIDE DEF t
  <2>3. IsPart(TrimStart(t), text)
    BY <2>1, <2>2, PartsOfParts
  <2> QED
    BY <2>2, <2>3 DEF Trim, t
<1>5. TrimTail(text) \in Seq(S) /\ IsPart(TrimTail(text), text)
  <2> DEFINE t == TrimEnd(text, Blanks)
             u == TrimEnd(t, {";"})
             v == TrimEnd(u, Blanks)
  <2>1. TrimTail(text) = v
    BY DEF TrimTail
  <2>2. t \in Seq(S) /\ IsPart(t, text)
    BY <1>3
  <2>3. u \in Seq(S) /\ IsPart(u, t)
    BY <1>3, <2>2
  <2>4. v \in Seq(S) /\ IsPart(v, u)
    BY <1>3, <2>3
  <2> HIDE DEF t, u, v
  <2>5. IsPart(u, text)
    BY <2>2, <2>3, PartsOfParts
  <2>6. IsPart(v, text)
    BY <2>3, <2>4, <2>5, PartsOfParts
  <2> QED
    BY <2>1, <2>4, <2>6
<1>6. ASSUME NEW T
      PROVE  /\ Before(text, T) \in Seq(S) /\ IsPart(Before(text, T), text)
             /\ Len(Before(text, T)) \in 0..Len(text)
  <2> DEFINE P == {i \in DOMAIN text : text[i] \in T}
             j == Min(P \union {Len(text) + 1}) - 1
  <2>1. Min(P \union {Len(text) + 1}) \in 1..(Len(text) + 1)
    BY PositionFacts
  <2>2. j \in 0..Len(text)
    BY <1>1, <2>1
  <2>3. Before(text, T) = UpTo(text, j)
    BY DEF Before
  <2> HIDE DEF P, j
  <2> QED
    BY <1>1, <2>2, <2>3, UpToFacts
<1> QED
  BY <1>2, <1>3, <1>4, <1>5, <1>6

(***************************************************************************)
(* What the functions of a query cut out of it                             *)
(***************************************************************************)
LEMMA QueryIsPart ==
  ASSUME NEW S, NEW text \in Seq(S)
  PROVE  Query(text).body \in Seq(S) /\ IsPart(Query(text).body, text)
<1> DEFINE t == TrimStart(text)
           n == Len(Before(t, {"newline"}))
           rest == From(t, n + 2)
           b == TrimStart(rest)
<1>1. Query(text).body = t \/ Query(text).body = b
  BY DEF Query
<1>2. t \in Seq(S) /\ IsPart(t, text)
  BY TrimFacts
<1> HIDE DEF t
<1>3. n + 2 \in Nat \ {0}
  <2>1. n \in 0..Len(t) /\ Len(t) \in Nat
    BY <1>2, TrimFacts, LengthFacts
  <2> QED
    BY <2>1
<1> HIDE DEF n
<1>4. rest \in Seq(S) /\ IsPart(rest, t)
  BY <1>2, <1>3, FromFacts
<1> HIDE DEF rest
<1>5. b \in Seq(S) /\ IsPart(b, rest)
  BY <1>4, TrimFacts
<1> HIDE DEF b
<1>6. IsPart(rest, text)
  BY <1>2, <1>4, PartsOfParts
<1>7. IsPart(b, text)
  BY <1>4, <1>5, <1>6, PartsOfParts
<1> QED
  BY <1>1, <1>2, <1>5, <1>7

LEMMA UnwrappedIsPart ==
  ASSUME NEW S, NEW body \in Seq(S)
  PROVE  /\ unwrap_derived_table(body) \in Seq(S)
         /\ IsPart(unwrap_derived_table(body), body)
<1> DEFINE text == Trim(body)
           from == find_keyword(text, "FROM")
           rest == From(text, from + 1)
           open == from + 1 + Len(rest) - Len(TrimStart(rest))
           inside(i) == ~Quoted(From(text, open + 1), i - open)
           count(mark, i) == Cardinality({j \in open + 1 .. i : text[j] = mark /\ inside(j)})
           closes == {i \in open + 1 .. Len(text) :
                        text[i] = ")" /\ inside(i) /\ count(")", i) = count("(", i) + 1}
           close == Min(closes)
           cut == SubSeq(text, open + 1, close - 1)
           unwrapped == unwrap_derived_table(body)
<1>1. \/ unwrapped = body
      \/ from # None /\ open <= Len(text) /\ closes # {} /\ unwrapped = Trim(cut)
  BY DEF unwrap_derived_table
<1>2. text \in Seq(S) /\ IsPart(text, body) /\ Len(text) \in Nat
  BY TrimFacts, LengthFacts
<1>3. ASSUME from # None PROVE from \in Nat \ {0}
  <2> DEFINE P == {i \in DOMAIN text : text[i] = "FROM"}
  <2>1. P # {} /\ from = Min(P)
    BY <1>3 DEF find_keyword
  <2>2. P \subseteq DOMAIN text
    OBVIOUS
  <2> HIDE DEF P, text, from
  <2>3. Min(P) \in 1..Len(text)
    BY <1>2, <2>1, <2>2, PositionFacts
  <2> QED
    BY <1>2, <2>1, <2>3
<1>4. closes \subseteq open + 1 .. Len(text)
  OBVIOUS
<1> HIDE DEF text, from, closes, unwrapped
<1>5. ASSUME from # None, open <= Len(text), closes # {}
      PROVE  cut \in Seq(S) /\ IsPart(cut, text)
  <2>1. from + 1 \in Nat \ {0}
    BY <1>3, <1>5
  <2>2. rest \in Seq(S)
    BY <1>2, <2>1, FromFacts
  <2> HIDE DEF rest
  <2>3. Len(TrimStart(rest)) \in 0..Len(rest) /\ Len(rest) \in Nat
    BY <2>2, TrimFacts, LengthFacts
  <2>4. open \in Nat \ {0}
    BY <1>3, <1>5, <2>3
  <2> HIDE DEF open
  <2>5. closes \subseteq 1..Len(text) /\ DOMAIN text = 1..Len(text)
    BY <1>2, <1>4, <2>4, LengthFacts
  <2>6. close \in 1..Len(text)
    BY <1>2, <1>5, <2>5, PositionFacts
  <2> HIDE DEF close
  <2>7. open + 1 \in Nat \ {0} /\ close - 1 \in Int /\ close - 1 <= Len(text)
    BY <1>2, <2>4, <2>6
  <2> QED
    BY <1>2, <2>7, CutIsPart
<1> HIDE DEF cut, open
<1>6. CASE unwrapped = body
  BY <1>6, WholeIsPart DEF unwrapped
<1>7. CASE from # None /\ open <= Len(text) /\ closes # {} /\ unwrapped = Trim(cut)
  <2>1. cut \in Seq(S) /\ IsPart(cut, text)
    BY <1>5, <1>7
  <2>2. Trim(cut) \in Seq(S) /\ IsPart(Trim(cut), cut)
    BY <2>1, TrimFacts
  <2>3. IsPart(Trim(cut), text)
    BY <1>2, <2>1, <2>2, PartsOfParts
  <2>4. IsPart(Trim(cut), body)
    BY <1>2, <2>2, <2>3, PartsOfParts
  <2> QED
    BY <1>7, <2>2, <2>4 DEF unwrapped
<1> QED
  BY <1>1, <1>6, <1>7

\* What is before the last of some positions, without the blanks behind it.
LEMMA BeginningIsPart ==
  ASSUME NEW S, NEW body \in Seq(S), NEW found, found \subseteq DOMAIN TrimTail(body),
         found # {}
  PROVE  LET beginning == TrimEnd(UpTo(TrimTail(body), Max(found) - 1), Blanks)
         IN beginning \in Seq(S) /\ IsPart(beginning, body)
<1> DEFINE text == TrimTail(body)
           cut == UpTo(text, Max(found) - 1)
           beginning == TrimEnd(cut, Blanks)
<1>1. text \in Seq(S) /\ IsPart(text, body)
  BY TrimFacts
<1>2. found \subseteq DOMAIN text
  OBVIOUS
<1> HIDE DEF text
<1>3. Max(found) - 1 \in 0..Len(text)
  <2>1. Max(found) \in 1..Len(text) /\ Len(text) \in Nat
    BY <1>1, <1>2, PositionFacts, LengthFacts
  <2> QED
    BY <2>1
<1>4. cut \in Seq(S) /\ IsPart(cut, text)
  BY <1>1, <1>3, UpToFacts
<1> HIDE DEF cut
<1>5. beginning \in Seq(S) /\ IsPart(beginning, cut)
  BY <1>4, TrimFacts
<1> HIDE DEF beginning
<1>6. IsPart(cut, body)
  BY <1>1, <1>4, PartsOfParts
<1>7. IsPart(beginning, body)
  BY <1>4, <1>5, <1>6, PartsOfParts
<1> QED
  BY <1>5, <1>7 DEF beginning, cut, text

LEMMA StrippedIsPart ==
  ASSUME NEW S, NEW body \in Seq(S)
  PROVE  /\ strip_partiql_limit(body).statement \in Seq(S)
         /\ IsPart(strip_partiql_limit(body).statement, body)
         /\ strip_partiql_order_by(body).statement \in Seq(S)
         /\ IsPart(strip_partiql_order_by(body).statement, body)
<1> DEFINE text == TrimTail(body)
           beginning(found) == TrimEnd(UpTo(text, Max(found) - 1), Blanks)
<1>1. ASSUME NEW part
      PROVE  Occurrences(part, text) \subseteq DOMAIN text
  BY DEF Occurrences
<1>2. ASSUME NEW found, found \subseteq DOMAIN text, found # {}
      PROVE  beginning(found) \in Seq(S) /\ IsPart(beginning(found), body)
  BY <1>2, BeginningIsPart
<1>3. LET found == Occurrences(<<" ", "LIMIT", " ">>, text)
          statement == strip_partiql_limit(body).statement
      IN statement = body \/ (found # {} /\ statement = beginning(found))
  BY DEF strip_partiql_limit
<1>4. LET found == Occurrences(<<" ", "ORDER", " ", "BY", " ">>, text)
          statement == strip_partiql_order_by(body).statement
      IN statement = body \/ (found # {} /\ statement = beginning(found))
  BY DEF strip_partiql_order_by
<1>5. IsPart(body, body)
  BY WholeIsPart
<1> HIDE DEF text, beginning
<1> QED
  BY <1>1, <1>2, <1>3, <1>4, <1>5

(***************************************************************************)
(* The statements of a body                                                *)
(***************************************************************************)
\* What stands between two positions.
LEMMA BetweenFacts ==
  ASSUME NEW S, NEW text \in Seq(S), NEW a \in 0..(Len(text) + 1),
         NEW b \in 0..(Len(text) + 1), a < b
  PROVE  /\ SubSeq(text, a + 1, b - 1) \in Seq(S)
         /\ At(SubSeq(text, a + 1, b - 1), text, a)
         /\ a + Len(SubSeq(text, a + 1, b - 1)) = b - 1
<1>1. Len(text) \in Nat
  BY LengthFacts
<1>2. PICK i : i = a + 1
  OBVIOUS
<1>3. PICK j : j = b - 1
  OBVIOUS
<1>4. /\ i \in 1..(Len(text) + 1) /\ j \in (i - 1)..Len(text)
      /\ i - 1 = a /\ a + (j - i + 1) = b - 1
  BY <1>1, <1>2, <1>3
<1>5. /\ SubSeq(text, i, j) \in Seq(S) /\ Len(SubSeq(text, i, j)) = j - i + 1
      /\ At(SubSeq(text, i, j), text, i - 1)
  BY <1>4, CutFacts
<1> QED
  BY <1>2, <1>3, <1>4, <1>5

\* The pieces stand in the text one after the other, and none at another's end.
Consecutive(pieces, text) ==
  \E at \in [DOMAIN pieces -> Nat] :
    /\ \A k \in DOMAIN pieces : At(pieces[k], text, at[k])
    /\ \A j, k \in DOMAIN pieces : j < k => at[j] + Len(pieces[j]) < at[k]

\* The pieces between cuts have a cut between them.
LEMMA PiecesFacts ==
  ASSUME NEW S, NEW text \in Seq(S), NEW cuts, cuts \subseteq DOMAIN text
  PROVE  LET pieces == Pieces(text, cuts)
             n == Cardinality(cuts)
         IN /\ n \in Nat /\ DOMAIN pieces = 1..(n + 1)
            /\ \A k \in 1..(n + 1) : pieces[k] \in Seq(S)
            /\ Consecutive(pieces, text)
<1> DEFINE pieces == Pieces(text, cuts)
           n == Cardinality(cuts)
           m == Len(text)
           order == Ascending(cuts)
           cut(k) == CASE k = 0 -> 0 [] k = n + 1 -> m + 1 [] OTHER -> order[k]
           at == [k \in 1..(n + 1) |-> cut(k - 1)]
<1>1. m \in Nat /\ cuts \subseteq 1..m /\ IsFiniteSet(cuts) /\ cuts \subseteq Int
  <2>1. IsFiniteSet(cuts) /\ cuts \subseteq 1..Len(text)
    BY PositionFacts
  <2>2. Len(text) \in Nat
    BY LengthFacts
  <2> QED
    BY <2>1, <2>2
<1>2. /\ n \in Nat /\ order \in [1..n -> cuts]
      /\ \A i, j \in 1..n : i < j => order[i] < order[j]
  BY <1>1, AscendingFacts
<1>3. pieces = [k \in 1..(n + 1) |-> SubSeq(text, cut(k - 1) + 1, cut(k) - 1)]
  BY DEF Pieces
<1>0. m = Len(text)
  OBVIOUS
<1> HIDE DEF n, m, order, pieces
<1>4. /\ cut(0) = 0 /\ cut(n + 1) = m + 1
      /\ \A k \in 1..n : cut(k) = order[k] /\ cut(k) \in 1..m
  BY <1>1, <1>2
<1> HIDE DEF cut
<1>5. \A k \in 0..(n + 1) : cut(k) \in 0..(m + 1)
  <2>1. \A k \in 0..(n + 1) : k = 0 \/ k = n + 1 \/ k \in 1..n
    BY <1>2
  <2>2. 0 \in 0..(m + 1) /\ m + 1 \in 0..(m + 1) /\ 1..m \subseteq 0..(m + 1)
    BY <1>1
  <2> QED
    BY <1>4, <2>1, <2>2
<1>6. \A j, k \in 0..(n + 1) : j < k => cut(j) < cut(k)
  <2> SUFFICES ASSUME NEW j \in 0..(n + 1), NEW k \in 0..(n + 1), j < k
               PROVE  cut(j) < cut(k)
    OBVIOUS
  <2>1. /\ j = 0 \/ j \in 1..n
        /\ k = n + 1 \/ k \in 1..n
    BY <1>2
  <2>2. CASE j = 0
    BY <1>1, <1>4, <2>1, <2>2
  <2>3. CASE j \in 1..n /\ k = n + 1
    BY <1>1, <1>4, <2>3
  <2>4. CASE j \in 1..n /\ k \in 1..n
    BY <1>2, <1>4, <2>4
  <2> QED
    BY <2>1, <2>2, <2>3, <2>4
<1>7. ASSUME NEW k \in 1..(n + 1)
      PROVE  /\ pieces[k] \in Seq(S)
             /\ At(pieces[k], text, cut(k - 1))
             /\ cut(k - 1) + Len(pieces[k]) = cut(k) - 1
  <2> DEFINE a == cut(k - 1)
             b == cut(k)
  <2>1. k - 1 \in 0..(n + 1) /\ k \in 0..(n + 1) /\ k - 1 < k
    BY <1>2
  <2>2. a \in 0..(m + 1) /\ b \in 0..(m + 1) /\ a < b
    BY <1>5, <1>6, <2>1
  <2>3. pieces[k] = SubSeq(text, a + 1, b - 1)
    BY <1>3
  <2> HIDE DEF a, b
  <2> QED
    BY <1>0, <2>2, <2>3, BetweenFacts DEF a, b
<1>8. at \in [1..(n + 1) -> Nat] /\ \A k \in 1..(n + 1) : at[k] = cut(k - 1)
  <2>1. \A k \in 1..(n + 1) : cut(k - 1) \in Nat
    BY <1>1, <1>2, <1>5
  <2> QED
    BY <2>1
<1> HIDE DEF at
<1>9. ASSUME NEW j \in 1..(n + 1), NEW k \in 1..(n + 1), j < k
      PROVE  at[j] + Len(pieces[j]) < at[k]
  <2>1. /\ j \in 0..(n + 1) /\ k - 1 \in 0..(n + 1)
        /\ j = k - 1 \/ j < k - 1
    BY <1>2, <1>9
  <2>2. cut(j) <= cut(k - 1) /\ cut(j) \in Int /\ cut(k - 1) \in Int
    BY <1>5, <1>6, <2>1
  <2>3. at[j] + Len(pieces[j]) = cut(j) - 1 /\ at[k] = cut(k - 1)
    BY <1>7, <1>8
  <2> QED
    BY <2>2, <2>3
<1>10. DOMAIN pieces = 1..(n + 1)
  BY <1>3
<1>11. Consecutive(pieces, text)
  BY <1>7, <1>8, <1>9, <1>10 DEF Consecutive
<1> QED
  BY <1>2, <1>7, <1>10, <1>11 DEF n, pieces

LEMMA TrimmedFacts ==
  ASSUME NEW S, NEW text \in Seq(S), NEW cuts, cuts \subseteq DOMAIN text
  PROVE  LET pieces == TrimmedPieces(text, cuts)
         IN /\ DOMAIN pieces \subseteq Int
            /\ \A k \in DOMAIN pieces : pieces[k] \in Seq(S)
            /\ Consecutive(pieces, text)
<1> DEFINE raw == Pieces(text, cuts)
           trimmed == [k \in DOMAIN raw |-> Trim(raw[k])]
           places == {k \in DOMAIN trimmed : trimmed[k] # <<>>}
           order == Ascending(places)
           m == Cardinality(places)
           pieces == TrimmedPieces(text, cuts)
<1>1. PICK n \in Nat : DOMAIN raw = 1..n
  <2>1. Cardinality(cuts) \in Nat /\ DOMAIN raw = 1..(Cardinality(cuts) + 1)
    BY PiecesFacts
  <2> QED
    BY <2>1
<1>2. (\A k \in 1..n : raw[k] \in Seq(S)) /\ Consecutive(raw, text)
  BY <1>1, PiecesFacts
<1>3. pieces = Kept(trimmed, places)
  BY DEF TrimmedPieces, NotEmpty, Trimmed
<1> HIDE DEF raw, pieces
<1>4. PICK at \in [1..n -> Nat] :
        /\ \A k \in 1..n : At(raw[k], text, at[k])
        /\ \A j, k \in 1..n : j < k => at[j] + Len(raw[j]) < at[k]
  BY <1>1, <1>2 DEF Consecutive
<1>5. DOMAIN trimmed = 1..n /\ \A k \in 1..n : trimmed[k] = Trim(raw[k])
  BY <1>1
<1> HIDE DEF trimmed
<1>6. places \subseteq 1..n /\ places \subseteq Int /\ IsFiniteSet(places)
  <2>1. IsFiniteSet(1..n) /\ places \subseteq 1..n
    BY <1>5, FS_Interval
  <2> HIDE DEF places
  <2>2. IsFiniteSet(places)
    BY <2>1, FS_Subset
  <2> QED
    BY <1>1, <2>1, <2>2
<1> HIDE DEF places
<1>7. /\ m \in Nat /\ order \in [1..m -> places]
      /\ \A i, j \in 1..m : i < j => order[i] < order[j]
  BY <1>6, AscendingFacts
<1>8. DOMAIN pieces = 1..m /\ \A i \in 1..m : pieces[i] = trimmed[order[i]]
  BY <1>3, KeptFacts
<1> HIDE DEF order, m
<1>9. ASSUME NEW k \in 1..n
      PROVE  /\ trimmed[k] \in Seq(S)
             /\ \E c \in Nat : /\ At(trimmed[k], text, c) /\ at[k] <= c
                               /\ c + Len(trimmed[k]) <= at[k] + Len(raw[k])
  <2>1. raw[k] \in Seq(S) /\ at[k] \in Nat /\ At(raw[k], text, at[k])
    BY <1>2, <1>4
  <2>2. trimmed[k] \in Seq(S) /\ IsPart(trimmed[k], raw[k])
    BY <1>5, <2>1, TrimFacts
  <2>3. PICK b \in Nat : At(trimmed[k], raw[k], b)
    BY <2>2 DEF IsPart
  <2>4. At(trimmed[k], text, at[k] + b)
    BY <2>1, <2>2, <2>3, PartOfPart
  <2>5. b + Len(trimmed[k]) <= Len(raw[k])
    BY <2>3 DEF At
  <2>6. Len(trimmed[k]) \in Nat /\ Len(raw[k]) \in Nat
    BY <2>1, <2>2, LengthFacts
  <2>7. /\ at[k] + b \in Nat /\ at[k] <= at[k] + b
        /\ (at[k] + b) + Len(trimmed[k]) <= at[k] + Len(raw[k])
    BY <2>1, <2>5, <2>6
  <2> QED
    BY <2>2, <2>4, <2>7
<1> DEFINE Place(k, c) == /\ At(trimmed[k], text, c) /\ at[k] <= c
                          /\ c + Len(trimmed[k]) <= at[k] + Len(raw[k])
           place == [k \in 1..n |-> CHOOSE c \in Nat : Place(k, c)]
<1>10. \A k \in 1..n : place[k] \in Nat /\ Place(k, place[k])
  <2>1. \A k \in 1..n : \E c \in Nat : Place(k, c)
    BY <1>9
  <2> HIDE DEF Place
  <2> QED
    BY <2>1
<1> HIDE DEF place
<1> DEFINE to == [i \in 1..m |-> place[order[i]]]
<1>11. \A i \in 1..m : order[i] \in 1..n /\ to[i] = place[order[i]]
  BY <1>6, <1>7
<1>12. to \in [1..m -> Nat]
  BY <1>10, <1>11
<1> HIDE DEF to
<1>13. \A i \in 1..m : pieces[i] \in Seq(S) /\ At(pieces[i], text, to[i])
  BY <1>8, <1>9, <1>10, <1>11
<1>14. ASSUME NEW i \in 1..m, NEW j \in 1..m, i < j
       PROVE  to[i] + Len(pieces[i]) < to[j]
  <2> DEFINE a == order[i]
             b == order[j]
  <2>1. a \in 1..n /\ b \in 1..n /\ a < b
    BY <1>7, <1>11, <1>14
  <2>2. to[i] = place[a] /\ to[j] = place[b] /\ pieces[i] = trimmed[a]
    BY <1>8, <1>11
  <2> HIDE DEF a, b
  <2>3. place[a] + Len(trimmed[a]) <= at[a] + Len(raw[a]) /\ at[b] <= place[b]
    BY <1>10, <2>1
  <2>4. at[a] + Len(raw[a]) < at[b]
    BY <1>4, <2>1
  <2>5. /\ place[a] \in Nat /\ place[b] \in Nat /\ at[a] \in Nat /\ at[b] \in Nat
        /\ Len(raw[a]) \in Nat /\ Len(trimmed[a]) \in Nat
    BY <1>2, <1>4, <1>9, <1>10, <2>1, LengthFacts
  <2>6. \A p, q, r, s, t, u \in Nat :
          p + q <= r + s /\ r + s < t /\ t <= u => p + q < u
    OBVIOUS
  <2>7. place[a] + Len(trimmed[a]) < place[b]
    <3> HIDE DEF Place
    <3> QED
      BY <2>3, <2>4, <2>5, <2>6
  <2> QED
    BY <2>2, <2>7
<1>15. Consecutive(pieces, text)
  BY <1>8, <1>12, <1>13, <1>14 DEF Consecutive
<1> QED
  BY <1>7, <1>8, <1>13, <1>15 DEF pieces

LEMMA ConsecutiveInPart ==
  ASSUME NEW S, NEW text \in Seq(S), NEW middle \in Seq(S), IsPart(middle, text),
         NEW pieces, \A k \in DOMAIN pieces : pieces[k] \in Seq(S),
         Consecutive(pieces, middle), DOMAIN pieces \subseteq Int
  PROVE  Consecutive(pieces, text)
<1>1. PICK a \in Nat : At(middle, text, a)
  BY DEF IsPart
<1>2. PICK at \in [DOMAIN pieces -> Nat] :
        /\ \A k \in DOMAIN pieces : At(pieces[k], middle, at[k])
        /\ \A j, k \in DOMAIN pieces : j < k => at[j] + Len(pieces[j]) < at[k]
  BY DEF Consecutive
<1> DEFINE to == [k \in DOMAIN pieces |-> a + at[k]]
<1>3. to \in [DOMAIN pieces -> Nat]
  BY <1>2
<1>4. \A k \in DOMAIN pieces : to[k] = a + at[k] /\ at[k] \in Nat /\ Len(pieces[k]) \in Nat
  BY <1>2, LengthFacts
<1> HIDE DEF to
<1>5. \A k \in DOMAIN pieces : At(pieces[k], text, to[k])
  BY <1>1, <1>2, <1>4, PartOfPart
<1>6. \A j, k \in DOMAIN pieces : j < k => to[j] + Len(pieces[j]) < to[k]
  BY <1>2, <1>4
<1> QED
  BY <1>3, <1>5, <1>6 DEF Consecutive

(***************************************************************************)
(* What is sent                                                            *)
(***************************************************************************)
\* What of a text a plan sends.
SentFrom(p, text) ==
  /\ p.act \in {"statement", "ordered"} => IsPart(p.statement, text)
  /\ p.act = "transaction" => Consecutive(p.statements, text)

LEMMA SingleFrom ==
  ASSUME NEW S, NEW text \in Seq(S), NEW body \in Seq(S), IsPart(body, text), NEW r
  PROVE  SentFrom(Single(r, body), text)
<1> DEFINE limited == strip_partiql_limit(body)
           ordered == strip_partiql_order_by(limited.statement)
           p == Single(r, body)
<1>1. /\ limited.statement \in Seq(S) /\ IsPart(limited.statement, body)
  BY StrippedIsPart
<1>2. /\ ordered.statement \in Seq(S) /\ IsPart(ordered.statement, limited.statement)
  BY <1>1, StrippedIsPart
<1>3. \/ p.act \in {"warn", "create", "drop", "aggregate"}
      \/ p.act \in {"statement", "ordered"} /\ p.statement = ordered.statement
  BY DEF Single, Warn, execute_ddl
<1> HIDE DEF limited, ordered, p
<1>4. IsPart(limited.statement, text)
  BY <1>1, PartsOfParts
<1>5. IsPart(ordered.statement, text)
  BY <1>1, <1>2, <1>4, PartsOfParts
<1>6. SentFrom(p, text)
  BY <1>3, <1>5 DEF SentFrom
<1> QED
  BY <1>6 DEF p

LEMMA PartiqlFrom ==
  ASSUME NEW S, NEW text \in Seq(S), NEW query \in Seq(S), IsPart(query, text), NEW r
  PROVE  SentFrom(Partiql(r, query), text)
<1> DEFINE body == unwrap_derived_table(query)
           statements == split_statements(body)
           p == Partiql(r, query)
<1>1. body \in Seq(S) /\ IsPart(body, query)
  BY UnwrappedIsPart
<1>2. \/ p = Single(r, body)
      \/ p.act \in {"warn", "refuse"}
      \/ p.act = "transaction" /\ p.statements = statements
  BY DEF Partiql, Warn, Transaction, Refuse
<1> HIDE DEF body
<1>3. /\ DOMAIN statements \subseteq Int
      /\ \A k \in DOMAIN statements : statements[k] \in Seq(S)
      /\ Consecutive(statements, body)
  <2> DEFINE cuts == {i \in DOMAIN body : body[i] = ";" /\ ~Quoted(body, i)}
  <2>1. cuts \subseteq DOMAIN body /\ statements = TrimmedPieces(body, cuts)
    BY DEF split_statements
  <2> HIDE DEF cuts, statements
  <2> QED
    BY <1>1, <2>1, TrimmedFacts
<1> HIDE DEF statements, p
<1>4. IsPart(body, text)
  BY <1>1, PartsOfParts
<1>5. ASSUME p = Single(r, body) PROVE SentFrom(p, text)
  BY <1>1, <1>4, <1>5, SingleFrom
<1>6. ASSUME p.act \in {"warn", "refuse"} PROVE SentFrom(p, text)
  BY <1>6 DEF SentFrom
<1>7. ASSUME p.act = "transaction", p.statements = statements PROVE SentFrom(p, text)
  <2>1. Consecutive(statements, text)
    BY <1>1, <1>3, <1>4, ConsecutiveInPart
  <2> QED
    BY <1>7, <2>1 DEF SentFrom
<1>8. SentFrom(p, text)
  BY <1>2, <1>5, <1>6, <1>7
<1> QED
  BY <1>8 DEF p

LEMMA DecisionFrom ==
  ASSUME NEW r, r.method = "execute_query" => IsList(extract_query(r))
  PROVE  SentFrom(Decision(r), extract_query(r))
<1> DEFINE text == extract_query(r)
           query == Query(text)
           req == parse_native_body(r.fields)
<1>1. CASE r.method = "execute_query"
  <2>1. Decision(r) = execute_query(r)
    BY <1>1 DEF Decision
  <2>2. query.mode \in Modes
    BY DEF Query, Modes
  <2>3. CASE query.mode = "#!partiql"
    <3> DEFINE S == ToSet(text)
    <3>1. text \in Seq(S)
      BY <1>1 DEF IsList
    <3>2. execute_query(r) = Partiql(r, query.body)
      BY <2>3 DEF execute_query
    <3> HIDE DEF S, text
    <3>3. query.body \in Seq(S) /\ IsPart(query.body, text)
      BY <3>1, QueryIsPart
    <3> HIDE DEF query
    <3>4. SentFrom(Partiql(r, query.body), text)
      BY <3>1, <3>3, PartiqlFrom
    <3> QED
      BY <2>1, <3>2, <3>4 DEF text
  <2>4. CASE query.mode # "#!partiql"
    <3> HIDE DEF query, req
    <3>1. \/ execute_query(r) = Refuse
          \/ execute_query(r) = Scan(r, req)
          \/ execute_query(r) = KeyQuery(r, req)
          \/ execute_query(r) = Get(req)
      BY <2>2, <2>4 DEF execute_query, Modes, query, req
    <3>2. execute_query(r).act \in {"refuse", "scan", "query", "get"}
      BY <3>1 DEF Refuse, Scan, KeyQuery, Get
    <3> QED
      BY <2>1, <3>2 DEF SentFrom
  <2> QED
    BY <2>3, <2>4
<1>2. CASE r.method # "execute_query"
  <2>1. Decision(r).act \in {"drop", "get_columns", "get_indexes", "ping"}
    BY <1>2 DEF Decision, drop_table, test_connection
  <2> QED
    BY <2>1 DEF SentFrom
<1> QED
  BY <1>1, <1>2

IsText(r) ==
  Argument(r) # None /\ r.method = "execute_query" => IsList(extract_query(r))

SentAsWritten ==
  \A s \in Sends : plan[s] # None => SentFrom(plan[s], extract_query(request[s]))

WInv ==
  /\ CInv /\ SentAsWritten
  /\ \A s \in Sends : stage[s] = "received" => IsText(request[s])

LEMMA WrittenNext == WInv /\ [Next]_vars => WInv'
<1> SUFFICES ASSUME WInv, [Next]_vars PROVE WInv'
  OBVIOUS
<1>1. CInv'
  BY NextHolds DEF WInv
<1>2. Shape
  BY DEF WInv, CInv
<1>3. ASSUME NEW s \in Sends, Decides(s) PROVE WInv'
  <2>1. PICK p : stage[s] = "received" /\ Planned(request[s], p) /\ Decide(s, p)
    BY <1>3 DEF Decides
  <2>2. SentFrom(p, extract_query(request[s]))
    <3>1. CASE p = Refuse \/ p.act = "sql"
      BY <3>1 DEF Refuse, SentFrom
    <3>2. CASE Argument(request[s]) # None /\ p = Decision(request[s])
      BY <2>1, <3>2, DecisionFrom DEF WInv, IsText
    <3> QED
      BY <2>1, <3>1, <3>2 DEF Planned
  <2>3. /\ request' = request
        /\ \A u \in Sends : plan'[u] = IF u = s THEN p ELSE plan[u]
        /\ \A u \in Sends : u # s => stage'[u] = stage[u]
        /\ stage'[s] # "received"
    BY <1>2, <2>1 DEF Decide, Shape
  <2>4. SentAsWritten'
    BY <2>2, <2>3 DEF WInv, SentAsWritten
  <2>5. \A u \in Sends : stage'[u] = "received" => IsText(request'[u])
    BY <2>3 DEF WInv
  <2> QED
    BY <1>1, <2>4, <2>5 DEF WInv, IsText
<1>4. ASSUME NEW s \in Sends, Acts(s) PROVE WInv'
  <2>1. /\ plan' = plan /\ request' = request
        /\ \A u \in Sends : stage'[u] = "received" => stage[u] = "received"
    BY <1>4, ActStep DEF WInv
  <2> QED
    BY <1>1, <2>1 DEF WInv, SentAsWritten, IsText
<1>5. CASE UNCHANGED <<request, handlers, remembered>>
  BY <1>1, <1>5 DEF handlers, WInv, SentAsWritten, IsText
<1> QED
  BY <1>3, <1>4, <1>5, Steps

\* The rewritings of execute_query only cut: what is sent as a statement
\* stands in the query as it is sent, word for word, and the statements of a
\* transaction stand there one after the other, so that none is sent twice, or
\* in another order, or with a word from another (query.rs:1130-1277).
THEOREM TextsAreSentAsWritten == Spec => []SentAsWritten
<1>1. Init => WInv
  <2> SUFFICES ASSUME Init PROVE WInv
    OBVIOUS
  <2>1. \A s \in Sends : stage[s] = "received" => IsText(request[s])
    BY TextAssumption DEF Init, IsText
  <2>2. SentAsWritten
    BY DEF Init, SentAsWritten
  <2> QED
    BY <2>1, <2>2, InitHolds DEF WInv
<1>2. WInv => SentAsWritten
  BY DEF WInv
<1> QED
  BY <1>1, <1>2, WrittenNext, PTL DEF Spec
=============================================================================
