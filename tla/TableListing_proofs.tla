------------------------ MODULE TableListing_proofs ------------------------
(***************************************************************************)
(* Proofs about TableListing, for every set of names, page size, number of *)
(* calls in flight and number of changes to the account.                   *)
(***************************************************************************)
EXTENDS TableListing, SequenceTheorems, FiniteSetTheorems, TLAPS

Typed ==
  /\ tables \in SUBSET Names /\ steady \in SUBSET tables
  /\ phase \in {"listing", "describing", "done", "failed"}
  /\ last \in Names \union {0}
  /\ listed \in Seq(Names)
  /\ started \in 0..Len(listed)
  /\ inflight \in SUBSET Names
  /\ results \in Seq(Row)

\* What list_tables has collected: names up to last, each once, none of the
\* steady tables left out.
Increasing(seq) == \A i, j \in DOMAIN seq : i < j => seq[i] < seq[j]

ListedInOrder ==
  /\ Increasing(listed)
  /\ phase = "listing" =>
       /\ \A i \in DOMAIN listed : listed[i] <= last
       /\ \A n \in steady : n > last \/ n \in Range(listed)
  /\ phase \in {"describing", "done"} => steady \subseteq Range(listed)

\* Every name the stream has started is in flight or has one row.
StartedNames == {listed[i] : i \in 1..started}

DescribedOnce ==
  /\ phase = "listing" => started = 0
  /\ inflight \union NamesOf(results) = StartedNames
  /\ inflight \intersect NamesOf(results) = {}
  /\ \A i, j \in DOMAIN results : results[i].name = results[j].name => i = j

IInv ==
  Typed /\ ListedInOrder /\ DescribedOnce /\ SteadyTablesListed /\ OneRowPerTable

LEMMA NamesAreNumbers == \A n \in Names : n \in Int /\ n > 0
BY NamesAssumption

LEMMA InitHolds == Init => IInv
BY NamesAssumption
   DEF Init, IInv, Typed, ListedInOrder, Increasing, DescribedOnce, Range,
       StartedNames, NamesOf, SteadyTablesListed, OneRowPerTable

\* A page that follows an ordered list makes a longer ordered list.
LEMMA PageKeepsOrder ==
  ASSUME NEW s \in Seq(Names), NEW t \in Seq(Names), NEW l \in Int,
         Increasing(s), Increasing(t),
         \A i \in DOMAIN s : s[i] <= l,
         \A i \in DOMAIN t : l < t[i]
  PROVE  /\ s \o t \in Seq(Names)
         /\ Increasing(s \o t)
         /\ Len(s \o t) = Len(s) + Len(t)
         /\ Range(s \o t) = Range(s) \union Range(t)
         /\ t # <<>> => (s \o t)[Len(s \o t)] = t[Len(t)]
<1> DEFINE u == s \o t
<1>1. /\ u \in Seq(Names)
      /\ Len(u) = Len(s) + Len(t)
      /\ \A i \in 1..(Len(s) + Len(t)) :
           u[i] = IF i <= Len(s) THEN s[i] ELSE t[i - Len(s)]
  BY ConcatProperties
<1> HIDE DEF u
<1>2. /\ DOMAIN s = 1..Len(s) /\ DOMAIN t = 1..Len(t)
      /\ DOMAIN u = 1..(Len(s) + Len(t))
      /\ Len(s) \in Nat /\ Len(t) \in Nat
  BY <1>1
<1>3. /\ \A i \in DOMAIN s : s[i] \in Int
      /\ \A i \in DOMAIN t : t[i] \in Int
  <2>1. /\ \A i \in DOMAIN s : s[i] \in Names
        /\ \A i \in DOMAIN t : t[i] \in Names
    BY <1>2
  <2> QED
    BY <2>1, NamesAreNumbers
<1>4. \A i \in DOMAIN s : i \in DOMAIN u /\ u[i] = s[i]
  BY <1>1, <1>2
<1>5. \A i \in DOMAIN t : i + Len(s) \in DOMAIN u /\ u[i + Len(s)] = t[i]
  BY <1>1, <1>2
<1>6. \A i \in DOMAIN u : i \in DOMAIN s \/ (i - Len(s) \in DOMAIN t /\ i - Len(s) + Len(s) = i)
  BY <1>2
<1>7. Increasing(u)
  <2> SUFFICES ASSUME NEW i \in DOMAIN u, NEW j \in DOMAIN u, i < j
               PROVE  u[i] < u[j]
    BY DEF Increasing
  <2>1. CASE j <= Len(s)
    <3>1. i \in DOMAIN s /\ j \in DOMAIN s
      BY <2>1, <1>2
    <3> QED
      BY <3>1, <1>4 DEF Increasing
  <2>2. CASE i > Len(s)
    <3>1. /\ i - Len(s) \in DOMAIN t /\ j - Len(s) \in DOMAIN t
          /\ i - Len(s) < j - Len(s)
      BY <2>2, <1>2
    <3>2. t[i - Len(s)] < t[j - Len(s)]
      BY <3>1 DEF Increasing
    <3>3. u[i] = t[i - Len(s)] /\ u[j] = t[j - Len(s)]
      BY <2>2, <1>1, <1>2
    <3> QED
      BY <3>2, <3>3
  <2>3. CASE i <= Len(s) /\ j > Len(s)
    <3>1. i \in DOMAIN s /\ j - Len(s) \in DOMAIN t
      BY <2>3, <1>2
    <3>2. u[i] = s[i] /\ u[j] = t[j - Len(s)]
      BY <2>3, <1>1, <1>2
    <3>3. s[i] <= l /\ l < t[j - Len(s)] /\ s[i] \in Int /\ t[j - Len(s)] \in Int
      BY <3>1, <1>3
    <3> QED
      BY <3>2, <3>3
  <2> QED
    BY <2>1, <2>2, <2>3, <1>2
<1>8. Range(u) = Range(s) \union Range(t)
  <2>1. Range(u) \subseteq Range(s) \union Range(t)
    <3> SUFFICES ASSUME NEW i \in DOMAIN u
                 PROVE  u[i] \in Range(s) \union Range(t)
      BY DEF Range
    <3> QED
      BY <1>4, <1>5, <1>6 DEF Range
  <2>2. Range(s) \union Range(t) \subseteq Range(u)
    BY <1>4, <1>5 DEF Range
  <2> QED
    BY <2>1, <2>2
<1>9. ASSUME t # <<>> PROVE u[Len(u)] = t[Len(t)]
  <2>1. Len(t) \in DOMAIN t
    BY <1>9, <1>2, EmptySeq
  <2> QED
    BY <2>1, <1>1, <1>2, <1>5
<1> QED
  BY <1>1, <1>7, <1>8, <1>9 DEF u

\* Sorting rows of different names orders them strictly and loses none.
LEMMA SortedRows ==
  ASSUME NEW rows \in Seq(Row),
         \A i, j \in DOMAIN rows : rows[i].name = rows[j].name => i = j,
         NEW p \in [DOMAIN rows -> DOMAIN rows], IsInjective(p),
         NEW sorted, DOMAIN sorted = DOMAIN rows,
         \A i \in DOMAIN rows : sorted[i] = rows[p[i]],
         \A i, j \in DOMAIN sorted : i < j => sorted[i].name <= sorted[j].name
  PROVE  /\ NamesOf(sorted) = NamesOf(rows)
         /\ \A i, j \in DOMAIN sorted : i < j => sorted[i].name < sorted[j].name
<1>1. DOMAIN rows = 1..Len(rows) /\ Len(rows) \in Nat
  OBVIOUS
<1>2. DOMAIN sorted = DOMAIN rows /\ \A i \in DOMAIN rows : sorted[i] = rows[p[i]]
  OBVIOUS
<1>3. \A i \in DOMAIN rows : rows[i].name \in Int
  <2>1. \A i \in DOMAIN rows : rows[i] \in Row
    BY <1>1
  <2>2. \A i \in DOMAIN rows : rows[i].name \in Names
    BY <2>1 DEF Row
  <2> QED
    BY <2>2, NamesAreNumbers
<1>4. p \in Surjection(DOMAIN rows, DOMAIN rows)
  <2>1. IsFiniteSet(DOMAIN rows)
    <3>1. 1 \in Int /\ Len(rows) \in Int
      BY <1>1
    <3>2. IsFiniteSet(1..Len(rows))
      BY <3>1, FS_Interval, Zenon
    <3> QED
      BY <3>2, <1>1, Zenon
  <2>2. p \in Injection(DOMAIN rows, DOMAIN rows)
    BY DEF Injection
  <2> QED
    BY <2>1, <2>2, FS_Injection
<1>5. \A j \in DOMAIN rows : \E i \in DOMAIN rows : p[i] = j
  BY <1>4 DEF Surjection
<1>6. NamesOf(sorted) = NamesOf(rows)
  <2>1. NamesOf(sorted) = {rows[p[i]].name : i \in DOMAIN rows}
    BY <1>2 DEF NamesOf
  <2>2. ASSUME NEW j \in DOMAIN rows
        PROVE  rows[j].name \in {rows[p[i]].name : i \in DOMAIN rows}
    <3>1. PICK i \in DOMAIN rows : p[i] = j
      BY <1>5
    <3> QED
      BY <3>1
  <2>3. ASSUME NEW i \in DOMAIN rows
        PROVE  rows[p[i]].name \in NamesOf(rows)
    BY DEF NamesOf
  <2>4. NamesOf(sorted) \subseteq NamesOf(rows)
    BY <2>1, <2>3
  <2>5. NamesOf(rows) \subseteq NamesOf(sorted)
    <3> SUFFICES ASSUME NEW n \in NamesOf(rows)
                 PROVE  n \in NamesOf(sorted)
      OBVIOUS
    <3>1. PICK j \in DOMAIN rows : n = rows[j].name
      BY DEF NamesOf
    <3> QED
      BY <3>1, <2>1, <2>2
  <2> QED
    BY <2>4, <2>5
<1>7. ASSUME NEW i \in DOMAIN sorted, NEW j \in DOMAIN sorted, i < j
      PROVE  sorted[i].name < sorted[j].name
  <2>1. p[i] \in DOMAIN rows /\ p[j] \in DOMAIN rows /\ i \in DOMAIN rows /\ j \in DOMAIN rows
    BY <1>2
  <2>2. i # j
    BY <1>7, <1>1, <1>2
  <2>3. p[i] # p[j]
    BY <2>1, <2>2 DEF IsInjective
  <2>4. sorted[i].name # sorted[j].name
    BY <1>2, <2>1, <2>3
  <2>5. sorted[i].name \in Int /\ sorted[j].name \in Int
    BY <1>2, <1>3, <2>1
  <2>6. sorted[i].name <= sorted[j].name
    BY <1>7
  <2> QED
    BY <2>4, <2>5, <2>6
<1> QED
  BY <1>6, <1>7

(***************************************************************************)
(* One lemma per action                                                    *)
(***************************************************************************)

\* Tables that come and go take steady tables away and add none.
LEMMA AccountKeeps ==
  ASSUME IInv, Account
  PROVE  IInv'
<1>1. /\ tables' \in SUBSET Names
      /\ steady' \subseteq steady /\ steady' \subseteq tables'
      /\ UNCHANGED <<phase, last, listed, started, inflight, results, response>>
  BY DEF Account, CreateTable, DropTable, IInv, Typed
<1>2. Typed' /\ OneRowPerTable' /\ SteadyTablesListed'
  BY <1>1 DEF IInv, Typed, OneRowPerTable, SteadyTablesListed
<1>3. ListedInOrder'
  BY <1>1 DEF IInv, ListedInOrder
<1>4. DescribedOnce'
  BY <1>1 DEF IInv, DescribedOnce, StartedNames
<1> QED
  BY <1>2, <1>3, <1>4 DEF IInv

LEMMA ListPageKeeps ==
  ASSUME IInv, ListPage
  PROVE  IInv'
<1>1. PICK seq \in Pages, more \in BOOLEAN :
        /\ Page(seq, more)
        /\ listed' = listed \o seq
        /\ last' = IF more THEN seq[Len(seq)] ELSE 0
        /\ phase' = IF more THEN "listing" ELSE "describing"
  BY DEF ListPage
<1>2. seq \in Seq(Names)
  <2>1. PICK k \in 0..PageLimit : seq \in [1..k -> Names]
    BY <1>1 DEF Pages
  <2>2. k \in Nat
    BY <2>1, LimitsAssumption
  <2> QED
    BY <2>1, <2>2
<1>3. /\ phase = "listing"
      /\ UNCHANGED <<tables, started, inflight, results, response, steady>>
  BY DEF ListPage
<1>4. /\ listed \in Seq(Names) /\ last \in Int
      /\ Increasing(listed)
      /\ \A i \in DOMAIN listed : listed[i] <= last
      /\ \A n \in steady : n > last \/ n \in Range(listed)
      /\ started = 0 /\ steady \subseteq tables /\ tables \subseteq Names
  <2>1. last \in Int
    BY NamesAreNumbers DEF IInv, Typed
  <2> QED
    BY <1>3, <2>1 DEF IInv, Typed, ListedInOrder, DescribedOnce
<1>5. /\ Increasing(seq)
      /\ Range(seq) \subseteq tables
      /\ \A i \in DOMAIN seq : last < seq[i]
  BY <1>1 DEF Page, Increasing, Range
<1>6. /\ listed' \in Seq(Names)
      /\ Increasing(listed')
      /\ Len(listed') = Len(listed) + Len(seq)
      /\ Range(listed') = Range(listed) \union Range(seq)
      /\ seq # <<>> => listed'[Len(listed')] = seq[Len(seq)]
  BY <1>1, <1>2, <1>4, <1>5, PageKeepsOrder
<1>7. more => seq # <<>> /\ Len(seq) \in DOMAIN seq
  <2>1. more => seq # <<>>
    BY <1>1 DEF Page
  <2> QED
    BY <2>1, <1>2, EmptySeq
<1>8. Typed'
  <2>1. phase' \in {"listing", "describing", "done", "failed"}
    BY <1>1
  <2>2. last' \in Names \union {0}
    BY <1>1, <1>2, <1>7
  <2>3. started' \in 0..Len(listed')
    BY <1>2, <1>3, <1>4, <1>6
  <2> QED
    BY <2>1, <2>2, <2>3, <1>3, <1>6 DEF IInv, Typed
<1>9. ListedInOrder'
  <2>1. CASE more
    <3>1. /\ phase' = "listing" /\ last' = seq[Len(seq)]
      BY <1>1, <2>1
    <3>2. ASSUME NEW i \in DOMAIN listed' PROVE listed'[i] <= last'
      <4>1. Len(listed') \in DOMAIN listed' /\ i \in 1..Len(listed')
        BY <1>2, <1>4, <1>6, <1>7, <2>1
      <4>2. i = Len(listed') \/ listed'[i] < listed'[Len(listed')]
        BY <4>1, <1>6 DEF Increasing
      <4>3. listed'[i] \in Int /\ listed'[Len(listed')] \in Int
        BY <4>1, <1>6, NamesAreNumbers
      <4>4. listed'[Len(listed')] = last'
        BY <3>1, <1>6, <1>7, <2>1
      <4> QED
        BY <4>2, <4>3, <4>4
    <3>3. ASSUME NEW n \in steady PROVE n > last' \/ n \in Range(listed')
      <4>1. CASE n \in Range(listed)
        BY <4>1, <1>6
      <4>2. CASE n \in Range(seq)
        BY <4>2, <1>6
      <4>3. CASE n > last /\ n \notin Range(seq)
        <5>1. n \in {m \in tables : m > last} \ Range(seq)
          BY <4>3, <1>4
        <5>2. last' \in Range(seq)
          BY <3>1, <1>7, <2>1 DEF Range
        <5>3. last' < n
          BY <5>1, <5>2, <1>1 DEF Page
        <5> QED
          BY <5>3, <5>2, <1>4, <1>5, NamesAreNumbers
      <4> QED
        BY <4>1, <4>2, <4>3, <1>4
    <3> QED
      BY <3>1, <3>2, <3>3, <1>3, <1>6 DEF ListedInOrder
  <2>2. CASE ~more
    <3>1. phase' = "describing"
      BY <1>1, <2>2
    <3>2. \A n \in tables : n > last => n \in Range(seq)
      BY <1>1, <2>2 DEF Page
    <3>3. steady \subseteq Range(listed')
      BY <3>2, <1>4, <1>6
    <3> QED
      BY <3>1, <3>3, <1>3, <1>6 DEF ListedInOrder
  <2> QED
    BY <2>1, <2>2
<1>10. DescribedOnce'
  <2>1. StartedNames = {} /\ StartedNames' = {}
    BY <1>3, <1>4 DEF StartedNames
  <2> QED
    BY <2>1, <1>3, <1>4 DEF IInv, DescribedOnce
<1>11. OneRowPerTable' /\ SteadyTablesListed'
  BY <1>1, <1>3 DEF IInv, OneRowPerTable, SteadyTablesListed
<1> QED
  BY <1>8, <1>9, <1>10, <1>11 DEF IInv

LEMMA ListFailsKeeps ==
  ASSUME IInv, ListFails
  PROVE  IInv'
BY DEF ListFails, IInv, Typed, ListedInOrder, DescribedOnce, StartedNames,
       SteadyTablesListed, OneRowPerTable

\* The next name of the list is none of those before it.
LEMMA StartDescribeKeeps ==
  ASSUME IInv, StartDescribe
  PROVE  IInv'
<1>1. /\ phase = "describing" /\ started < Len(listed)
      /\ started' = started + 1
      /\ inflight' = inflight \union {listed[started + 1]}
      /\ UNCHANGED <<tables, phase, last, listed, results, response, steady>>
  BY DEF StartDescribe, StartWithin
<1>2. /\ listed \in Seq(Names) /\ started \in 0..Len(listed)
      /\ started + 1 \in DOMAIN listed /\ Len(listed) \in Nat
  BY <1>1 DEF IInv, Typed
<1>3. Typed'
  <2>1. listed[started + 1] \in Names
    BY <1>2
  <2>2. started' \in 0..Len(listed)
    BY <1>1, <1>2
  <2> QED
    BY <1>1, <2>1, <2>2 DEF IInv, Typed
<1>4. StartedNames' = StartedNames \union {listed[started + 1]}
  <2>1. 1..(started + 1) = (1..started) \union {started + 1}
    BY <1>2
  <2> QED
    BY <1>1, <2>1 DEF StartedNames
<1>5. listed[started + 1] \notin StartedNames
  <2> SUFFICES ASSUME NEW i \in 1..started PROVE listed[i] # listed[started + 1]
    BY DEF StartedNames
  <2>1. i \in DOMAIN listed /\ i < started + 1
    BY <1>2
  <2>2. listed[i] < listed[started + 1]
    BY <1>2, <2>1 DEF IInv, ListedInOrder, Increasing
  <2>3. listed[i] \in Int
    BY <1>2, <2>1, NamesAreNumbers
  <2> QED
    BY <2>2, <2>3
<1>6. DescribedOnce'
  <2>1. NamesOf(results') = NamesOf(results)
    BY <1>1
  <2>2. inflight' \union NamesOf(results') = StartedNames'
    BY <1>1, <1>4, <2>1 DEF IInv, DescribedOnce
  <2>3. inflight' \intersect NamesOf(results') = {}
    BY <1>1, <1>5, <2>1 DEF IInv, DescribedOnce
  <2>4. \A i, j \in DOMAIN results' : results'[i].name = results'[j].name => i = j
    BY <1>1 DEF IInv, DescribedOnce
  <2> QED
    BY <1>1, <2>1, <2>2, <2>3, <2>4 DEF DescribedOnce, NamesOf
<1>7. ListedInOrder' /\ OneRowPerTable' /\ SteadyTablesListed'
  BY <1>1 DEF IInv, ListedInOrder, OneRowPerTable, SteadyTablesListed
<1> QED
  BY <1>3, <1>6, <1>7 DEF IInv

\* A row takes the place of a call in flight, under the same name.
LEMMA DescribedKeeps ==
  ASSUME IInv, NEW n \in Names, Described(n)
  PROVE  IInv'
<1>1. PICK row \in Row :
        /\ row.name = n
        /\ n \in inflight
        /\ inflight' = inflight \ {n}
        /\ results' = results \o <<row>>
        /\ UNCHANGED <<tables, phase, last, listed, started, response, steady>>
  BY DEF Described, Complete, Row, Statuses
<1>2. results \in Seq(Row)
  BY DEF IInv, Typed
<1>3. /\ results' \in Seq(Row)
      /\ Len(results') = Len(results) + 1 /\ Len(results) \in Nat
      /\ \A i \in 1..Len(results) : results'[i] = results[i]
      /\ results'[Len(results) + 1] = row
  <2>1. results' = Append(results, row)
    BY <1>1, <1>2, AppendIsConcat
  <2> QED
    BY <1>2, <2>1, AppendProperties
<1>4. /\ DOMAIN results = 1..Len(results)
      /\ DOMAIN results' = (1..Len(results)) \union {Len(results) + 1}
  <2>1. DOMAIN results' = 1..(Len(results) + 1)
    BY <1>3
  <2> QED
    BY <1>2, <1>3, <2>1
<1>5. NamesOf(results)' = NamesOf(results) \union {n}
  <2>1. NamesOf(results)' = {results'[i].name : i \in DOMAIN results'}
    BY DEF NamesOf
  <2>2. {results'[i].name : i \in DOMAIN results'}
          = {results'[i].name : i \in DOMAIN results} \union {results'[Len(results) + 1].name}
    BY <1>4
  <2>3. \A i \in DOMAIN results : results'[i].name = results[i].name
    BY <1>3, <1>4
  <2> QED
    BY <2>1, <2>2, <2>3, <1>1, <1>3 DEF NamesOf
<1>6. n \notin NamesOf(results)
  BY <1>1 DEF IInv, DescribedOnce
<1>7. DescribedOnce'
  <2>1. StartedNames' = StartedNames
    BY <1>1 DEF StartedNames
  <2>2. inflight' \union NamesOf(results)' = StartedNames'
    BY <1>1, <1>5, <2>1 DEF IInv, DescribedOnce
  <2>3. inflight' \intersect NamesOf(results)' = {}
    BY <1>1, <1>5 DEF IInv, DescribedOnce
  <2>4. ASSUME NEW i \in DOMAIN results', NEW j \in DOMAIN results',
               results'[i].name = results'[j].name
        PROVE  i = j
    <3>1. \A k \in DOMAIN results : results'[k].name = results[k].name
      BY <1>3, <1>4
    <3>2. \A k \in DOMAIN results : results'[k].name # n
      BY <1>6, <3>1 DEF NamesOf
    <3>3. results'[Len(results) + 1].name = n
      BY <1>1, <1>3
    <3>4. \A k \in DOMAIN results' : k \in DOMAIN results \/ k = Len(results) + 1
      BY <1>4
    <3> QED
      BY <2>4, <3>1, <3>2, <3>3, <3>4 DEF IInv, DescribedOnce
  <2> QED
    BY <1>1, <2>2, <2>3, <2>4 DEF IInv, DescribedOnce
<1>8. Typed'
  BY <1>1, <1>3 DEF IInv, Typed
<1>9. ListedInOrder' /\ OneRowPerTable' /\ SteadyTablesListed'
  BY <1>1 DEF IInv, ListedInOrder, OneRowPerTable, SteadyTablesListed
<1> QED
  BY <1>7, <1>8, <1>9 DEF IInv

\* When nothing is in flight the rows are those of the whole list.
LEMMA RespondKeeps ==
  ASSUME IInv, Respond
  PROVE  IInv'
<1>1. PICK p \in [DOMAIN results -> DOMAIN results] :
        LET rows == [i \in DOMAIN results |-> results[p[i]]] IN
        /\ IsInjective(p)
        /\ \A i, j \in DOMAIN rows : i < j => rows[i].name <= rows[j].name
        /\ Finish(rows)
  BY DEF Respond
<1>2. /\ response' = [i \in DOMAIN results |-> results[p[i]]]
      /\ \A i, j \in DOMAIN response' :
           i < j => response'[i].name <= response'[j].name
      /\ phase' = "done"
      /\ UNCHANGED <<tables, last, listed, started, inflight, results, steady>>
  BY <1>1 DEF Finish
<1>3. phase = "describing" /\ started = Len(listed) /\ inflight = {}
  BY DEF Respond, Collected
<1>4. /\ results \in Seq(Row) /\ listed \in Seq(Names)
      /\ \A i, j \in DOMAIN results : results[i].name = results[j].name => i = j
  BY DEF IInv, Typed, DescribedOnce
<1>5. /\ NamesOf(response') = NamesOf(results)
      /\ \A i, j \in DOMAIN response' : i < j => response'[i].name < response'[j].name
  <2> DEFINE rows == [i \in DOMAIN results |-> results[p[i]]]
  <2>1. /\ IsInjective(p)
        /\ \A i, j \in DOMAIN rows : i < j => rows[i].name <= rows[j].name
    BY <1>1
  <2>2. /\ DOMAIN rows = DOMAIN results
        /\ \A i \in DOMAIN results : rows[i] = results[p[i]]
    OBVIOUS
  <2>3. response' = rows
    BY <1>2
  <2> HIDE DEF rows
  <2>4. /\ NamesOf(rows) = NamesOf(results)
        /\ \A i, j \in DOMAIN rows : i < j => rows[i].name < rows[j].name
    BY <1>1, <1>4, <2>1, <2>2, SortedRows, Zenon
  <2> QED
    BY <2>3, <2>4
<1>6. steady \subseteq NamesOf(results)
  <2>1. steady \subseteq Range(listed)
    BY <1>3 DEF IInv, ListedInOrder
  <2>2. Range(listed) = StartedNames
    BY <1>3, <1>4 DEF Range, StartedNames
  <2>3. NamesOf(results) = StartedNames
    BY <1>3 DEF IInv, DescribedOnce
  <2> QED
    BY <2>1, <2>2, <2>3
<1>7. SteadyTablesListed'
  BY <1>2, <1>5, <1>6 DEF SteadyTablesListed, NamesOf
<1>8. OneRowPerTable'
  BY <1>5 DEF OneRowPerTable
<1>9. Typed'
  BY <1>2 DEF IInv, Typed
<1>10. ListedInOrder'
  BY <1>2, <1>3 DEF IInv, ListedInOrder
<1>11. DescribedOnce'
  <2>1. StartedNames' = StartedNames /\ NamesOf(results)' = NamesOf(results)
    BY <1>2 DEF StartedNames, NamesOf
  <2> QED
    BY <1>2, <2>1 DEF IInv, DescribedOnce
<1> QED
  BY <1>7, <1>8, <1>9, <1>10, <1>11 DEF IInv

LEMMA StepKeeps == IInv /\ [Next]_vars => IInv'
<1> SUFFICES ASSUME IInv, [Next]_vars PROVE IInv'
  OBVIOUS
<1>1. CASE Account
  BY <1>1, AccountKeeps
<1>2. CASE ListPage
  BY <1>2, ListPageKeeps
<1>3. CASE ListFails
  BY <1>3, ListFailsKeeps
<1>4. CASE StartDescribe
  BY <1>4, StartDescribeKeeps
<1>5. CASE \E n \in Names : Described(n)
  BY <1>5, DescribedKeeps
<1>6. CASE Respond
  BY <1>6, RespondKeeps
<1>7. CASE UNCHANGED vars
  <2>1. UNCHANGED <<tables, phase, last, listed, started, inflight, results,
                    response, steady>>
    BY <1>7 DEF vars
  <2>2. /\ StartedNames' = StartedNames
        /\ NamesOf(results)' = NamesOf(results)
        /\ NamesOf(response)' = NamesOf(response)
    BY <2>1 DEF StartedNames, NamesOf
  <2>3. Typed' /\ ListedInOrder' /\ OneRowPerTable'
    BY <2>1 DEF IInv, Typed, ListedInOrder, OneRowPerTable
  <2>4. DescribedOnce' /\ SteadyTablesListed'
    BY <2>1, <2>2 DEF IInv, DescribedOnce, SteadyTablesListed
  <2> QED
    BY <2>3, <2>4 DEF IInv
<1> QED
  BY <1>1, <1>2, <1>3, <1>4, <1>5, <1>6, <1>7 DEF Next, Request

(***************************************************************************)
(* The bounds                                                              *)
(***************************************************************************)

\* What TypeOK says beyond the types above: the account changes at most
\* MaxChanges times, the stream keeps to its bound, and the response has rows.
Bounded ==
  /\ changes \in 0..MaxChanges
  /\ Cardinality(inflight) <= Concurrency
  /\ response \in Seq(Row)

LEMMA BoundedInit == Init => Bounded
<1>1. Cardinality({}) = 0 /\ Concurrency \in Nat /\ MaxChanges \in Nat
  BY FS_EmptySet, LimitsAssumption
<1>2. Init => changes = 0 /\ inflight = {} /\ response = <<>>
  BY DEF Init
<1>3. <<>> \in Seq(Row) /\ 0 \in 0..MaxChanges
  BY <1>1
<1>4. Init => changes \in 0..MaxChanges /\ response \in Seq(Row)
  BY <1>2, <1>3
<1>5. Init => Cardinality(inflight) <= Concurrency
  <2>1. Init => Cardinality(inflight) = 0
    BY <1>1, <1>2, Zenon
  <2> QED
    BY <1>1, <2>1
<1> QED
  BY <1>4, <1>5 DEF Bounded

\* The stream starts a describe when fewer than its bound are in flight, and a
\* row leaves them as it arrives; the sorted rows are the rows.
LEMMA BoundedKeeps == IInv /\ Bounded /\ [Next]_vars => Bounded'
<1> SUFFICES ASSUME IInv, Bounded, [Next]_vars PROVE Bounded'
  OBVIOUS
<1>1. IsFiniteSet(inflight) /\ Cardinality(inflight) \in Nat
  <2>1. inflight \subseteq Names /\ IsFiniteSet(Names)
    BY NamesAssumption DEF IInv, Typed
  <2> QED
    BY <2>1, FS_Subset, FS_CardinalityType
<1>2. Concurrency \in Nat \ {0} /\ MaxChanges \in Nat
  BY LimitsAssumption
<1>3. CASE Account
  <2>1. /\ changes < MaxChanges /\ changes' = changes + 1
        /\ UNCHANGED <<inflight, response>>
    BY <1>3 DEF Account, CreateTable, DropTable
  <2>2. changes' \in 0..MaxChanges
    BY <1>2, <2>1 DEF Bounded
  <2> QED
    BY <2>1, <2>2 DEF Bounded
<1>4. CASE ListPage \/ ListFails \/ UNCHANGED vars
  <2>1. UNCHANGED <<changes, inflight, response>>
    BY <1>4 DEF ListPage, ListFails, vars
  <2> QED
    BY <2>1 DEF Bounded
<1>5. CASE StartDescribe
  <2>1. /\ Cardinality(inflight) < Concurrency
        /\ inflight' = inflight \union {listed[started + 1]}
        /\ UNCHANGED <<changes, response>>
    BY <1>5 DEF StartDescribe, StartWithin
  <2>2. \/ Cardinality(inflight') = Cardinality(inflight)
        \/ Cardinality(inflight') = Cardinality(inflight) + 1
    BY <1>1, <2>1, FS_AddElement
  <2>3. Cardinality(inflight') <= Concurrency
    BY <1>1, <1>2, <2>1, <2>2
  <2> QED
    BY <2>1, <2>3 DEF Bounded
<1>6. CASE \E n \in Names : Described(n)
  <2>1. inflight' \subseteq inflight /\ UNCHANGED <<changes, response>>
    BY <1>6 DEF Described, Complete
  <2>2. Cardinality(inflight') <= Cardinality(inflight)
        /\ Cardinality(inflight') \in Nat
    BY <1>1, <2>1, FS_Subset, FS_CardinalityType
  <2>3. Cardinality(inflight') <= Concurrency
    BY <1>1, <1>2, <2>2 DEF Bounded
  <2> QED
    BY <2>1, <2>3 DEF Bounded
<1>7. CASE Respond
  <2>1. PICK p \in [DOMAIN results -> DOMAIN results] :
          Finish([i \in DOMAIN results |-> results[p[i]]])
    BY <1>7 DEF Respond
  <2>2. /\ response' = [i \in DOMAIN results |-> results[p[i]]]
        /\ UNCHANGED <<changes, inflight>>
    BY <2>1 DEF Finish
  <2>3. /\ DOMAIN results = 1..Len(results) /\ Len(results) \in Nat
        /\ \A i \in DOMAIN results : results[i] \in Row
    BY DEF IInv, Typed
  <2>4. \A i \in 1..Len(results) : results[p[i]] \in Row
    BY <2>3
  <2>5. response' \in [1..Len(results) -> Row]
    BY <2>2, <2>3, <2>4
  <2>6. response' \in Seq(Row)
    BY <2>3, <2>5
  <2> QED
    BY <2>2, <2>6 DEF Bounded
<1> QED
  BY <1>3, <1>4, <1>5, <1>6, <1>7 DEF Next, Request

(***************************************************************************)
(* The theorems                                                            *)
(***************************************************************************)

\* The invariant of the request and the account around it (list_tables and
\* get_tables, client.rs:138-156 and metadata.rs:26-60).
THEOREM Invariant == Spec => []IInv
<1> QED
  BY InitHolds, StepKeeps, PTL DEF Spec

\* A table that exists throughout the request is in the response, for every
\* page size, order of completion and number of changes (metadata.rs:26-60).
THEOREM SteadyTablesAreListed == Spec => []SteadyTablesListed
<1>1. IInv => SteadyTablesListed
  BY DEF IInv
<1> QED
  BY <1>1, Invariant, PTL

\* The rows are in strictly increasing order of name, so that no table has two
\* (client.rs:138-156, metadata.rs:26-60).
THEOREM TablesComeOnce == Spec => []OneRowPerTable
<1>1. IInv => OneRowPerTable
  BY DEF IInv
<1> QED
  BY <1>1, Invariant, PTL

\* The variables have their types, and no more than Concurrency describes are
\* in flight, however long the list is (metadata.rs:26-60).
THEOREM TypeCorrect == Spec => []TypeOK
<1>1. Init => IInv /\ Bounded
  BY InitHolds, BoundedInit
<1>2. IInv /\ Bounded /\ [Next]_vars => (IInv /\ Bounded)'
  BY StepKeeps, BoundedKeeps
<1>3. IInv /\ Bounded => TypeOK
  BY DEF IInv, Typed, Bounded, TypeOK
<1> QED
  BY <1>1, <1>2, <1>3, PTL DEF Spec

\* No more is listed than there can be names, and a page with another behind
\* it brings one.
FewNames == Len(listed) <= Cardinality(Names)
PagesAdvance == ListPage /\ phase' = "listing" => Len(listed') > Len(listed)

\* get_tables describes no more tables than there can be names, and each
\* ListTables call that announces another has brought a name: whatever comes
\* and goes behind the page, the loop of list_tables cannot go on for ever
\* (client.rs:138-156).
THEOREM ListingsAreBounded == Spec => []FewNames /\ [][PagesAdvance]_vars
<1>1. IInv => FewNames
  <2> SUFFICES ASSUME IInv PROVE Len(listed) <= Cardinality(Names)
    BY DEF FewNames
  <2>1. /\ listed \in Seq(Names) /\ Len(listed) \in Nat
        /\ DOMAIN listed = 1..Len(listed) /\ Increasing(listed)
    BY DEF IInv, Typed, ListedInOrder
  <2>2. \A i, j \in 1..Len(listed) : listed[i] = listed[j] => i = j
    <3> SUFFICES ASSUME NEW i \in 1..Len(listed), NEW j \in 1..Len(listed), i < j
                 PROVE  listed[i] # listed[j]
      BY <2>1
    <3>1. listed[i] < listed[j] /\ listed[i] \in Int /\ listed[j] \in Int
      BY <2>1, NamesAreNumbers DEF Increasing
    <3> QED
      BY <3>1
  <2> DEFINE places == 1..Len(listed)
  <2>3. IsFiniteSet(places) /\ Cardinality(places) = Len(listed)
    <3>1. 1 \in Int /\ Len(listed) \in Int
      BY <2>1
    <3>2. /\ IsFiniteSet(places)
          /\ Cardinality(places) = IF 1 > Len(listed) THEN 0 ELSE Len(listed) - 1 + 1
      BY <3>1, FS_Interval
    <3> QED
      BY <2>1, <3>2
  <2>4. listed \in Injection(places, Names)
    BY <2>1, <2>2 DEF Injection, IsInjective
  <2> HIDE DEF places
  <2> QED
    BY <2>3, <2>4, NamesAssumption, FS_Injection
<1>2. IInv /\ [Next]_vars => PagesAdvance
  <2> SUFFICES ASSUME IInv, ListPage, phase' = "listing"
               PROVE  Len(listed') > Len(listed)
    BY DEF PagesAdvance
  <2>1. PICK seq \in Pages, more \in BOOLEAN : listed' = listed \o seq /\ Page(seq, more) /\ more
    BY DEF ListPage
  <2>2. listed \in Seq(Names) /\ seq \in Seq(Names) /\ seq # <<>>
    BY <2>1, LimitsAssumption DEF IInv, Typed, Page, Pages
  <2>3. Len(seq) \in Nat \ {0} /\ Len(listed) \in Nat
    BY <2>2, EmptySeq, LenProperties
  <2>4. Len(listed') = Len(listed) + Len(seq)
    BY <2>1, <2>2, ConcatProperties
  <2> QED
    BY <2>3, <2>4
<1> QED
  BY <1>1, <1>2, Invariant, PTL DEF Spec
=============================================================================
