----------------------- MODULE ClientSideReads_proofs -----------------------
(***************************************************************************)
(* Proofs about ClientSideReads, for every table, type of key, SELECT,     *)
(* page size, cap and number of changes.                                   *)
(***************************************************************************)
EXTENDS ClientSideReads, Arrangements_proofs, SequenceTheorems

(***************************************************************************)
(* Items in the order of the table                                         *)
(***************************************************************************)
Increasing(s) == \A i, j \in DOMAIN s : i < j => s[i] < s[j]

LEMMA PositionsAreNumbers == \A p \in Positions : p \in Int /\ p > 0
BY PositionsAssumption

\* A page in order has the items of the page, each in its place.
LEMMA InOrderFacts ==
  ASSUME NEW S \in SUBSET Positions
  PROVE  /\ InOrder(S) \in Seq(Positions)
         /\ Len(InOrder(S)) = Cardinality(S)
         /\ Increasing(InOrder(S))
         /\ Range(InOrder(S)) = S
         /\ \A i \in 1..Cardinality(S) :
              Cardinality({q \in S : q < InOrder(S)[i]}) = i - 1
<1> DEFINE n == Cardinality(S)
           s == InOrder(S)
<1>1. s = Ascending(S)
  BY DEF InOrder
<1>2. IsFiniteSet(S) /\ S \subseteq Int
  BY PositionsAssumption, PositionsAreNumbers, FS_Subset
<1> HIDE DEF n, s
<1>3. /\ n \in Nat
      /\ s \in [1..n -> S]
      /\ \A i \in 1..n : Cardinality({q \in S : q < s[i]}) = i - 1
      /\ \A p \in S : \E i \in 1..n : s[i] = p
      /\ \A i, j \in 1..n : i < j => s[i] < s[j]
  BY <1>1, <1>2, AscendingFacts DEF n
<1>4. s \in Seq(Positions) /\ Len(s) = n /\ DOMAIN s = 1..n
  BY <1>3
<1>5. Increasing(s)
  BY <1>3, <1>4 DEF Increasing
<1>6. Range(s) = S
  BY <1>3, <1>4 DEF Range
<1> QED
  BY <1>3, <1>4, <1>5, <1>6 DEF n, s

\* There is one way to put items in order: a list that grows holds its items
\* in the order of the table.
LEMMA InOrderUnique ==
  ASSUME NEW s \in Seq(Positions), Increasing(s)
  PROVE  Range(s) \in SUBSET Positions /\ s = InOrder(Range(s))
<1> DEFINE S == Range(s)
           n == Len(s)
           a == InOrder(S)
<1>1. n \in Nat /\ DOMAIN s = 1..n /\ \A i \in 1..n : s[i] \in Positions
  OBVIOUS
<1>2. S = {s[i] : i \in 1..n} /\ S \in SUBSET Positions
  BY <1>1 DEF Range
<1> HIDE DEF S
<1>3. ASSUME NEW i \in 1..n, NEW j \in 1..n
      PROVE  s[j] < s[i] <=> j < i
  <2>1. /\ i < j => s[i] < s[j]
        /\ j < i => s[j] < s[i]
    BY <1>1 DEF Increasing
  <2>2. s[i] \in Int /\ s[j] \in Int
    BY <1>1, PositionsAreNumbers
  <2>3. i < j \/ j < i \/ i = j
    BY <1>1
  <2> QED
    BY <2>1, <2>2, <2>3
<1>4. ASSUME NEW k \in 0..n
      PROVE  Cardinality({s[j] : j \in 1..k}) = k
  <2> DEFINE f == [j \in 1..k |-> s[j]]
             T == {s[j] : j \in 1..k}
  <2>1. f \in [1..k -> T]
    OBVIOUS
  <2>2. \A i, j \in 1..k : f[i] = f[j] => i = j
    <3> SUFFICES ASSUME NEW i \in 1..k, NEW j \in 1..k, i # j
                 PROVE  s[i] # s[j]
      OBVIOUS
    <3>1. i \in 1..n /\ j \in 1..n /\ (i < j \/ j < i)
      BY <1>1
    <3>2. s[i] \in Int /\ s[j] \in Int
      BY <3>1, <1>1, PositionsAreNumbers
    <3> QED
      BY <3>1, <3>2, <1>3
  <2>3. \A t \in T : \E j \in 1..k : f[j] = t
    OBVIOUS
  <2>4. k \in Nat
    BY <1>1
  <2> HIDE DEF f, T
  <2>5. f \in Bijection(1..k, T)
    BY <2>1, <2>2, <2>3, Fun_IsBij
  <2>6. Cardinality(T) = k
    BY <2>4, <2>5, FS_CountingElements DEF ExistsBijection
  <2> QED
    BY <2>6 DEF T
<1>5. Cardinality(S) = n
  BY <1>1, <1>2, <1>4
<1>6. /\ a \in Seq(Positions) /\ Len(a) = n /\ Range(a) = S
      /\ \A i \in 1..n : Cardinality({q \in S : q < a[i]}) = i - 1
  BY <1>2, <1>5, InOrderFacts
<1> HIDE DEF a
<1>7. ASSUME NEW i \in 1..n PROVE s[i] = a[i]
  <2>1. a[i] \in S
    BY <1>6 DEF Range
  <2>2. PICK k \in 1..n : a[i] = s[k]
    BY <1>2, <2>1
  <2>3. {q \in S : q < s[k]} = {s[j] : j \in 1..(k - 1)}
    <3>1. \A j \in 1..(k - 1) : j \in 1..n /\ j < k
      BY <1>1
    <3>2. \A j \in 1..n : j < k => j \in 1..(k - 1)
      BY <1>1
    <3> QED
      BY <1>2, <1>3, <3>1, <3>2
  <2>4. k - 1 \in 0..n
    BY <1>1
  <2>5. Cardinality({q \in S : q < s[k]}) = k - 1
    BY <1>4, <2>3, <2>4
  <2>6. k = i
    BY <1>1, <1>6, <2>2, <2>5
  <2> QED
    BY <2>2, <2>6
<1>8. s = a
  BY <1>6, <1>7, SeqEqual
<1> QED
  BY <1>2, <1>8 DEF S, a

\* A page from behind l on, put behind what was collected up to l.
LEMMA PageKeepsOrder ==
  ASSUME NEW s \in Seq(Positions), NEW t \in Seq(Positions), NEW l \in Int,
         Increasing(s), Increasing(t),
         \A p \in Range(s) : p <= l, \A p \in Range(t) : l < p
  PROVE  /\ s \o t \in Seq(Positions)
         /\ Increasing(s \o t)
         /\ Range(s \o t) = Range(s) \union Range(t)
<1> DEFINE u == s \o t
<1>1. /\ u \in Seq(Positions)
      /\ Len(u) = Len(s) + Len(t)
      /\ \A i \in 1..(Len(s) + Len(t)) :
           u[i] = IF i <= Len(s) THEN s[i] ELSE t[i - Len(s)]
  BY ConcatProperties
<1>2. Range(u) = Range(s) \union Range(t)
  BY RangeConcatenation
<1> HIDE DEF u
<1>3. /\ DOMAIN s = 1..Len(s) /\ DOMAIN t = 1..Len(t)
      /\ DOMAIN u = 1..(Len(s) + Len(t))
      /\ Len(s) \in Nat /\ Len(t) \in Nat
  BY <1>1
<1>4. ASSUME NEW i \in DOMAIN u, NEW j \in DOMAIN u, i < j
      PROVE  u[i] < u[j]
  <2>1. CASE j <= Len(s)
    BY <2>1, <1>1, <1>3, <1>4 DEF Increasing
  <2>2. CASE i > Len(s)
    <3>1. /\ i - Len(s) \in DOMAIN t /\ j - Len(s) \in DOMAIN t
          /\ i - Len(s) < j - Len(s)
      BY <2>2, <1>3, <1>4
    <3>2. u[i] = t[i - Len(s)] /\ u[j] = t[j - Len(s)]
      BY <2>2, <1>1, <1>3, <1>4
    <3> QED
      BY <3>1, <3>2 DEF Increasing
  <2>3. CASE i <= Len(s) /\ j > Len(s)
    <3>1. i \in DOMAIN s /\ j - Len(s) \in DOMAIN t
      BY <2>3, <1>3
    <3>2. u[i] = s[i] /\ u[j] = t[j - Len(s)]
      BY <2>3, <1>1, <1>3
    <3>3. u[i] \in Range(s) /\ u[j] \in Range(t)
      BY <3>1, <3>2 DEF Range
    <3>4. u[i] \in Int /\ u[j] \in Int
      BY <1>1, <1>3, PositionsAreNumbers
    <3> QED
      BY <3>3, <3>4
  <2> QED
    BY <2>1, <2>2, <2>3, <1>3
<1> QED
  BY <1>1, <1>2, <1>4 DEF u, Increasing

(***************************************************************************)
(* Sorting                                                                 *)
(***************************************************************************)
Values == {Num, Str, Null} \X Int

\* The values of a column are totally ordered.
LEMMA LessOrders ==
  /\ \A v \in Values : ~Less(v, v)
  /\ \A v, w \in Values : Less(v, w) => ~Less(w, v)
  /\ \A v, w, x \in Values : Less(v, w) /\ Less(w, x) => Less(v, x)
  /\ \A v, w \in Values : v = w \/ Less(v, w) \/ Less(w, v)
BY DEF Values, Less, Num, Str, Null

\* A sort keeps the items, and no later one belongs before an earlier one.
LEMMA SortedFacts ==
  ASSUME NEW items \in Seq(Positions)
  PROVE  /\ Sorted(items) \in Seq(Positions)
         /\ Len(Sorted(items)) = Len(items)
         /\ Range(Sorted(items)) = Range(items)
         /\ Increasing(items) =>
              \A i, j \in 1..Len(items) : i < j =>
                Sorted(items)[i] # Sorted(items)[j]
         /\ \A i, j \in 1..Len(items) : i < j =>
              LET v == ValueOf[Sorted(items)[i]]
                  w == ValueOf[Sorted(items)[j]]
              IN IF select.descending THEN ~Less(v, w) ELSE ~Less(w, v)
<1> DEFINE n == Len(items)
           R == {e \in (DOMAIN items) \X (DOMAIN items) :
                   Before(items, e[1], e[2])}
           order == Order(items)
           sorted == Sorted(items)
<1>1. n \in Nat /\ DOMAIN items = 1..n /\ \A i \in 1..n : items[i] \in Positions
  OBVIOUS
<1> HIDE DEF n, R, order, sorted
<1>2. /\ sorted = [i \in DOMAIN items |-> items[order[i]]]
      /\ order = Arranged(DOMAIN items, R)
  BY DEF Sorted, Order, sorted, order, R
<1>3. \A i \in 1..n : ValueOf[items[i]] \in Values
  BY <1>1, PositionsAssumption DEF Values
<1>4. ASSUME NEW i \in 1..n, NEW j \in 1..n
      PROVE  <<i, j>> \in R <=> Before(items, i, j)
  <2> DEFINE e == <<i, j>>
  <2>1. e \in (DOMAIN items) \X (DOMAIN items) /\ e[1] = i /\ e[2] = j
    BY <1>1
  <2> HIDE DEF e
  <2>2. e \in R <=> Before(items, e[1], e[2])
    BY <2>1 DEF R
  <2> QED
    BY <2>1, <2>2 DEF e
<1>5. Orders(R, 1..n)
  <2>1. \A i \in 1..n : <<i, i>> \notin R
    BY <1>1, <1>4 DEF Before
  <2>2. ASSUME NEW i \in 1..n, NEW j \in 1..n, NEW k \in 1..n,
               <<i, j>> \in R, <<j, k>> \in R
        PROVE  <<i, k>> \in R
    <3>1. Before(items, i, j) /\ Before(items, j, k)
      BY <1>4, <2>2
    <3>2. Before(items, i, k)
      BY <3>1, <1>1, <1>3, LessOrders DEF Before
    <3> QED
      BY <3>2, <1>4
  <2>3. ASSUME NEW i \in 1..n, NEW j \in 1..n
        PROVE  i = j \/ <<i, j>> \in R \/ <<j, i>> \in R
    <3>1. i = j \/ Before(items, i, j) \/ Before(items, j, i)
      BY <1>1, <1>3, LessOrders DEF Before
    <3> QED
      BY <3>1, <1>4
  <2> QED
    BY <2>1, <2>2, <2>3 DEF Orders
<1>6. /\ IsFiniteSet(1..n) /\ Cardinality(1..n) = n
  BY <1>1, FS_Interval
<1>7. /\ order \in [1..n -> 1..n]
      /\ \A k \in 1..n : \E i \in 1..n : order[i] = k
      /\ \A i, j \in 1..n : i < j => <<order[i], order[j]>> \in R
  <2>1. order = Arranged(1..n, R)
    BY <1>1, <1>2
  <2> DEFINE D == 1..n
  <2> HIDE DEF D
  <2>2. /\ order \in [1..Cardinality(D) -> D]
        /\ \A k \in D : \E i \in 1..Cardinality(D) : order[i] = k
        /\ \A i, j \in 1..Cardinality(D) : i < j => <<order[i], order[j]>> \in R
    BY <1>5, <1>6, <2>1, ArrangedFacts DEF D
  <2> QED
    BY <1>6, <2>2 DEF D
<1>8. /\ sorted \in Seq(Positions) /\ Len(sorted) = n /\ DOMAIN sorted = 1..n
      /\ \A i \in 1..n : sorted[i] = items[order[i]]
  <2>1. \A i \in 1..n : items[order[i]] \in Positions
    BY <1>1, <1>7
  <2>2. sorted \in [1..n -> Positions]
    BY <1>1, <1>2, <2>1
  <2> QED
    BY <1>1, <1>2, <2>2
<1>9. Range(sorted) = Range(items)
  <2>1. Range(sorted) \subseteq Range(items)
    BY <1>1, <1>7, <1>8 DEF Range
  <2>2. ASSUME NEW k \in 1..n PROVE items[k] \in Range(sorted)
    <3>1. PICK i \in 1..n : order[i] = k
      BY <1>7
    <3> QED
      BY <3>1, <1>8 DEF Range
  <2> QED
    BY <2>1, <2>2, <1>1 DEF Range
<1>10. ASSUME NEW i \in 1..n, NEW j \in 1..n, i < j
       PROVE  LET v == ValueOf[sorted[i]]
                  w == ValueOf[sorted[j]]
              IN IF select.descending THEN ~Less(v, w) ELSE ~Less(w, v)
  <2>1. /\ order[i] \in 1..n /\ order[j] \in 1..n
        /\ Before(items, order[i], order[j])
    BY <1>4, <1>7, <1>10
  <2> QED
    BY <2>1, <1>3, <1>8, LessOrders DEF Before
<1>11. ASSUME Increasing(items), NEW i \in 1..n, NEW j \in 1..n, i < j
       PROVE  sorted[i] # sorted[j]
  <2>1. /\ order[i] \in 1..n /\ order[j] \in 1..n
        /\ order[i] # order[j]
    BY <1>5, <1>7, <1>11 DEF Orders
  <2>2. ASSUME NEW a \in 1..n, NEW b \in 1..n, a < b
        PROVE  items[a] # items[b]
    <3>1. items[a] < items[b]
      BY <1>1, <1>11, <2>2 DEF Increasing
    <3>2. items[a] \in Int /\ items[b] \in Int
      BY <1>1, PositionsAreNumbers
    <3> QED
      BY <3>1, <3>2
  <2>3. order[i] < order[j] \/ order[j] < order[i]
    BY <2>1, <1>1
  <2> QED
    BY <2>1, <2>2, <2>3, <1>8
<1> QED
  BY <1>8, <1>9, <1>10, <1>11 DEF n, sorted

-----------------------------------------------------------------------------
(***************************************************************************)
(* The invariant                                                           *)
(*                                                                         *)
(* A reading that goes on stands at a position, the one its token names.   *)
(* What it has collected is in the order of the table, held at some time,  *)
(* lies up to that position, and lacks nothing steady up to there; and each *)
(* call has passed a position.  The last is what a loop that ends by its   *)
(* count needs: with as many calls as there are positions, the last call   *)
(* has at most one position left to read, and reads it.                    *)
(***************************************************************************)
Wanted == IF select.kind = "ordered" THEN Matching ELSE Positions

\* The token of an answer that ended at position l.
Token(l) ==
  IF select.kind = "ordered" THEN KeyAt(l) ELSE encode_last_key(KeyAt(l))

Types ==
  /\ table \in SUBSET Positions /\ steady \in SUBSET table
  /\ seen \in SUBSET Positions /\ table \subseteq seen
  /\ select \in Selects
  /\ pages \in Nat

\* s holds items that were to be collected, in the order of the table.
Within(s) ==
  /\ s \in Seq(Positions) /\ Increasing(s)
  /\ Range(s) \subseteq seen \intersect Wanted

\* s holds what was to be collected up to position at.
UpTo(s, at) ==
  /\ Within(s)
  /\ \A p \in Range(s) : p <= at
  /\ \A p \in steady \intersect Wanted : p <= at => p \in Range(s)

\* s holds all that was to be collected.
Whole(s) == Within(s) /\ steady \intersect Wanted \subseteq Range(s)

Standing(s, at, count) ==
  /\ at \in Positions \union {0}
  /\ UpTo(s, at)
  /\ count <= Cardinality({p \in Positions : p <= at})

Reading ==
  phase = "reading" =>
    \E at \in Positions \union {0} :
      next_token = Token(at) /\ Standing(all_items, at, pages)

\* v does not belong after w.
InPlace(v, w) ==
  IF select.descending THEN ~Less(v, w) ELSE ~Less(w, v)

\* The rows of an ordered SELECT are items it selects that were there at some
\* time, each once, and none that belongs before the one above it.
RowsAreSorted ==
  phase = "done" /\ select.kind = "ordered" =>
    /\ Shown \subseteq seen \intersect Matching
    /\ \A i, j \in DOMAIN response.rows : i < j =>
         /\ response.rows[i] # response.rows[j]
         /\ InPlace(ValueOf[response.rows[i]], ValueOf[response.rows[j]])

\* What holds however many calls the loops make, and what needs enough.
RInv == Types /\ Reading /\ RowsAreSorted
IInv ==
  /\ RInv
  /\ AggregatesTheTable /\ TopOfTheTable /\ MissingRowsAreAnnounced

\* The loops are allowed as many calls as there can be items.
EnoughPages == Cardinality(Positions) <= MaxPages

LEMMA Kinds ==
  ASSUME Types
  PROVE  \/ select.kind = "aggregate"
         \/ select.kind = "ordered" /\ select.limit \in Nat \union {NoLimit}
BY SelectAssumption DEF Types, AggregateSelects, OrderedSelects

\* A call starts where the reading stands, unless its key is rejected.
LEMMA StartFacts ==
  ASSUME NEW at \in Positions \union {0}
  PROVE  /\ select.kind = "ordered" => StartOf(Token(at)) = at
         /\ select.kind # "ordered" /\ Valid(decode_pagination_token(Token(at)))
              => StartOf(decode_pagination_token(Token(at))) = at
         /\ Token(at) = None <=> at = 0
<1>1. CASE at = 0
  BY <1>1 DEF Token, KeyAt, encode_last_key, decode_pagination_token, StartOf,
              None
<1>2. CASE at # 0
  <2> DEFINE av == [type |-> KeyType, of |-> at]
             v == attribute_value_to_json(av)
             w == json_to_attribute_value(v)
  <2>1. KeyAt(at) = {av}
    BY <1>2 DEF KeyAt
  <2>2. encode_last_key({av}) = {v} /\ decode_pagination_token({v}) = {w}
    BY DEF encode_last_key, decode_pagination_token
  <2>3. w.type = "S" /\ (KeyType = "S" => w.of = at) /\ av.of = at
    BY DEF attribute_value_to_json, json_to_attribute_value
  <2>4. Valid({w}) => KeyType = "S"
    BY <2>3 DEF Valid
  <2> HIDE DEF av, v, w
  <2>5. \A x : {x} # None /\ StartOf({x}) = x.of
    BY DEF StartOf, None
  <2> QED
    BY <1>2, <2>1, <2>2, <2>3, <2>4, <2>5 DEF Token
<1> QED
  BY <1>1, <1>2

\* The items of an answer are the ones between its start and its last, all of
\* them when there is no last; it has some when there are some.
LEMMA AnswerFacts ==
  ASSUME NEW T \in SUBSET Positions, NEW start \in Nat, NEW bound,
         NEW items \in SUBSET T, NEW last \in T \union {0},
         Evaluates(T, start, bound, items, last)
  PROVE  /\ \A p \in items : p > start
         /\ last # 0 => /\ last \in Positions /\ last > start
                        /\ \A p \in items : p <= last
         /\ \A p \in T : p > start /\ p \notin items =>
              /\ last # 0 /\ last \in items
              /\ p > last
<1> \A p \in T : p \in Nat \ {0}
  BY PositionsAssumption
<1> DEFINE rest == {p \in T : p > start}
<1>1. /\ items \subseteq rest
      /\ \A p \in items, q \in rest \ items : p < q
      /\ rest # items => last # 0
      /\ last # 0 => last \in items /\ \A p \in items : p <= last
  BY DEF Evaluates
<1>2. ASSUME NEW p \in T, p > start, p \notin items
      PROVE  last # 0 /\ last \in items /\ p > last
  <2>1. p \in rest \ items
    BY <1>2
  <2>2. last # 0 /\ last \in items
    BY <2>1, <1>1
  <2> QED
    BY <2>1, <2>2, <1>1
<1> QED
  BY <1>1, <1>2

\* A position further on has one more at or before it; two positions behind
\* where the reading stands are two more.
LEMMA Passed ==
  ASSUME NEW at \in Positions \union {0}, NEW p \in Positions, at < p
  PROVE  /\ Cardinality({q \in Positions : q <= at}) \in Nat
         /\ Cardinality({q \in Positions : q <= p}) \in Nat
         /\ Cardinality({q \in Positions : q <= at}) + 1
              <= Cardinality({q \in Positions : q <= p})
         /\ Cardinality({q \in Positions : q <= p}) <= Cardinality(Positions)
         /\ Cardinality(Positions) \in Nat
<1> DEFINE A == {q \in Positions : q <= at}
           B == {q \in Positions : q <= p}
<1>1. /\ IsFiniteSet(Positions) /\ IsFiniteSet(A) /\ IsFiniteSet(B)
      /\ Cardinality(B) <= Cardinality(Positions)
  BY PositionsAssumption, FS_Subset
<1>2. A \union {p} \subseteq B /\ p \notin A
  BY PositionsAreNumbers
<1> HIDE DEF A, B
<1>3. Cardinality(A \union {p}) = Cardinality(A) + 1
  BY <1>1, <1>2, FS_AddElement
<1>4. Cardinality(A \union {p}) <= Cardinality(B)
  BY <1>1, <1>2, FS_Subset
<1>5. /\ Cardinality(A) \in Nat /\ Cardinality(B) \in Nat
      /\ Cardinality(Positions) \in Nat
  BY <1>1, FS_CardinalityType
<1> QED
  BY <1>1, <1>3, <1>4, <1>5 DEF A, B

\* One call.  If it says that items are left, the reading stands further on;
\* if it does not, or was the last one allowed, everything is collected.
LEMMA Round ==
  ASSUME Types, NEW at \in Positions \union {0}, NEW bound,
         Standing(all_items, at, pages),
         NEW items \in SUBSET table, NEW last \in table \union {0},
         Evaluates(table, at, bound, items, last)
  PROVE  LET s == all_items \o InOrder(items \intersect Wanted)
         IN /\ Within(s)
            /\ last # 0 => Standing(s, last, pages + 1)
            /\ last = 0 \/ (LastCall /\ EnoughPages) => Whole(s)
<1> DEFINE page == InOrder(items \intersect Wanted)
           s == all_items \o page
<1>1. /\ at \in Nat /\ table \in SUBSET Positions
      /\ steady \subseteq table /\ table \subseteq seen /\ pages \in Nat
      /\ UpTo(all_items, at)
      /\ pages <= Cardinality({p \in Positions : p <= at})
  BY PositionsAssumption DEF Types, Standing
<1>2. /\ \A p \in items : p > at
      /\ last # 0 => /\ last \in Positions /\ last > at
                     /\ \A p \in items : p <= last
      /\ \A p \in table : p > at /\ p \notin items =>
           /\ last # 0 /\ last \in items
           /\ p > last
  BY <1>1, AnswerFacts
<1>3. /\ items \intersect Wanted \in SUBSET Positions
      /\ items \intersect Wanted \subseteq seen \intersect Wanted
  BY <1>1
<1>4. /\ page \in Seq(Positions) /\ Increasing(page)
      /\ Range(page) = items \intersect Wanted
  BY <1>3, InOrderFacts
<1> HIDE DEF page
<1>5. /\ s \in Seq(Positions) /\ Increasing(s)
      /\ Range(s) = Range(all_items) \union (items \intersect Wanted)
  <2>1. \A p \in Range(page) : at < p
    BY <1>2, <1>4
  <2> QED
    BY <2>1, <1>1, <1>4, PageKeepsOrder DEF UpTo, Within
<1> HIDE DEF s
<1>6. Within(s)
  BY <1>1, <1>3, <1>5 DEF UpTo, Within
\* What a steady item is that is not collected.
<1>7. ASSUME NEW p \in steady \intersect Wanted, p \notin Range(s)
      PROVE  /\ p \in Positions /\ last # 0 /\ last \in items
             /\ last \in Positions /\ at < last /\ last < p
  <2>1. p \in table /\ p \in Positions /\ p \in Int /\ p \notin items
    BY <1>1, <1>5, <1>7, PositionsAreNumbers
  <2>2. p > at
    BY <2>1, <1>1, <1>5, <1>7 DEF UpTo
  <2>3. last # 0 /\ last \in items /\ p > last
    BY <2>1, <2>2, <1>2
  <2> QED
    BY <2>1, <2>3, <1>2, PositionsAreNumbers
<1>8. ASSUME last # 0 PROVE Standing(s, last, pages + 1)
  <2>1. last \in Positions /\ at < last /\ last \in Int
    BY <1>1, <1>2, <1>8, PositionsAreNumbers
  <2>2. ASSUME NEW p \in Range(s) PROVE p <= last
    <3>1. CASE p \in Range(all_items)
      <4>1. p <= at /\ p \in Int
        BY <3>1, <1>1, PositionsAreNumbers, RangeOfSeq
           DEF UpTo, Within
      <4> QED
        BY <4>1, <2>1, <1>1
    <3>2. CASE p \in items
      BY <3>2, <1>2, <1>8
    <3> QED
      BY <3>1, <3>2, <1>5, <2>2
  <2>3. ASSUME NEW p \in steady \intersect Wanted, p <= last
        PROVE  p \in Range(s)
    <3>1. p \in Int
      BY <1>1, PositionsAreNumbers
    <3> QED
      BY <3>1, <2>1, <2>3, <1>7
  <2>4. pages + 1 <= Cardinality({p \in Positions : p <= last})
    BY <2>1, <1>1, Passed
  <2> QED
    BY <2>1, <2>2, <2>3, <2>4, <1>6 DEF Standing, UpTo
<1>9. ASSUME last = 0 \/ (LastCall /\ EnoughPages) PROVE Whole(s)
  <2>1. ASSUME NEW p \in steady \intersect Wanted, p \notin Range(s)
        PROVE  FALSE
    <3>1. /\ p \in Positions /\ last \in Positions
          /\ at < last /\ last < p /\ last # 0
      BY <1>7, <2>1
    <3>2. pages + 1 = MaxPages /\ Cardinality(Positions) <= MaxPages
      BY <3>1, <1>9 DEF LastCall, EnoughPages
    <3>3. /\ Cardinality({q \in Positions : q <= at}) + 1
               <= Cardinality({q \in Positions : q <= last})
          /\ Cardinality({q \in Positions : q <= at}) \in Nat
          /\ Cardinality({q \in Positions : q <= last}) \in Nat
      BY <3>1, Passed
    <3>4. /\ Cardinality({q \in Positions : q <= last}) + 1
               <= Cardinality({q \in Positions : q <= p})
          /\ Cardinality({q \in Positions : q <= p}) <= Cardinality(Positions)
          /\ Cardinality({q \in Positions : q <= p}) \in Nat
          /\ Cardinality(Positions) \in Nat
      BY <3>1, Passed
    <3> QED
      BY <3>2, <3>3, <3>4, <1>1, BoundAssumption
  <2> QED
    BY <2>1, <1>6 DEF Whole
<1> QED
  BY <1>6, <1>8, <1>9 DEF s, page

-----------------------------------------------------------------------------
(***************************************************************************)
(* The answers                                                             *)
(***************************************************************************)

\* A cut keeps the beginning, and all of what is no longer than the limit.
LEMMA CutFacts ==
  ASSUME NEW rows \in Seq(Positions), NEW n \in Nat \union {NoLimit}
  PROVE  /\ Cut(rows, n) \in Seq(Positions)
         /\ Len(Cut(rows, n)) <= Len(rows)
         /\ \A i \in 1..Len(Cut(rows, n)) : Cut(rows, n)[i] = rows[i]
         /\ n = NoLimit \/ Len(rows) <= n => Cut(rows, n) = rows
<1>1. Len(rows) \in Nat /\ rows \in [1..Len(rows) -> Positions]
  OBVIOUS
<1>2. CASE n = NoLimit
  BY <1>1, <1>2 DEF Cut
<1>3. CASE n # NoLimit
  <2> DEFINE l == Len(rows)
             m == Min({n, l})
  <2>1. n \in Nat /\ l \in Nat
    BY <1>1, <1>3
  <2> HIDE DEF l
  <2>2. (m = n \/ m = l) /\ m <= n /\ m <= l
    <3>1. \E x \in {n, l} : \A y \in {n, l} : x <= y
      BY <2>1
    <3>2. m \in {n, l} /\ \A y \in {n, l} : m <= y
      BY <3>1 DEF Min
    <3> QED
      BY <3>2
  <2> HIDE DEF m
  <2>3. m \in Nat /\ \A i \in 1..m : rows[i] \in Positions
    BY <1>1, <2>1, <2>2 DEF l
  <2>4. Cut(rows, n) = SubSeq(rows, 1, m)
    BY <1>3 DEF Cut, m, l
  <2>5. /\ SubSeq(rows, 1, m) \in Seq(Positions)
        /\ Len(SubSeq(rows, 1, m)) = m
        /\ \A i \in 1..m : SubSeq(rows, 1, m)[i] = rows[i]
    BY <2>3, SubSeqProperties
  <2>6. Len(rows) <= n => SubSeq(rows, 1, m) = rows
    <3>1. l <= n => m = l
      BY <2>1, <2>2
    <3> QED
      BY <3>1, <1>1, <2>5, SeqEqual DEF l
  <2> QED
    BY <1>3, <2>2, <2>4, <2>5, <2>6 DEF l
<1> QED
  BY <1>2, <1>3

\* The rows of an answer are in place before one another and before what the
\* limit leaves out; without more, they are the items.
LEMMA OrderedFacts ==
  ASSUME NEW items \in Seq(Positions), NEW capped \in BOOLEAN,
         select.limit \in Nat \union {NoLimit}
  PROVE  /\ Ordered(items, capped).warning = capped
         /\ capped => Ordered(items, capped).has_more
         /\ \A p \in Range(items) \ Range(Ordered(items, capped).rows),
               i \in DOMAIN Ordered(items, capped).rows :
              InPlace(ValueOf[Ordered(items, capped).rows[i]], ValueOf[p])
         /\ ~Ordered(items, capped).has_more =>
              Range(Ordered(items, capped).rows) = Range(items)
         /\ Ordered(items, capped).rows \in Seq(Positions)
         /\ Range(Ordered(items, capped).rows) \subseteq Range(items)
         /\ Increasing(items) =>
              \A i, j \in DOMAIN Ordered(items, capped).rows : i < j =>
                Ordered(items, capped).rows[i] # Ordered(items, capped).rows[j]
         /\ \A i, j \in DOMAIN Ordered(items, capped).rows : i < j =>
              InPlace(ValueOf[Ordered(items, capped).rows[i]],
                      ValueOf[Ordered(items, capped).rows[j]])
<1> DEFINE sorted == Sorted(items)
           rows == Cut(sorted, select.limit)
           n == Len(items)
<1>1. /\ sorted \in Seq(Positions) /\ Len(sorted) = n /\ n \in Nat
      /\ Range(sorted) = Range(items)
      /\ \A i, j \in 1..n : i < j =>
           InPlace(ValueOf[sorted[i]], ValueOf[sorted[j]])
      /\ Increasing(items) =>
           \A i, j \in 1..n : i < j => sorted[i] # sorted[j]
  BY SortedFacts DEF InPlace
<1>2. /\ Ordered(items, capped).rows = rows
      /\ Ordered(items, capped).warning = capped
      /\ Ordered(items, capped).has_more <=> capped \/ Len(rows) < n
  BY DEF Ordered
<1> HIDE DEF sorted
<1>3. /\ rows \in Seq(Positions) /\ Len(rows) <= n
      /\ \A i \in 1..Len(rows) : rows[i] = sorted[i]
  BY <1>1, CutFacts
<1> HIDE DEF rows, n
<1>4. Len(rows) \in Nat /\ DOMAIN rows = 1..Len(rows) /\ DOMAIN sorted = 1..n
  BY <1>1, <1>3
<1>5. ASSUME NEW p \in Range(items) \ Range(rows), NEW i \in DOMAIN rows
      PROVE  InPlace(ValueOf[rows[i]], ValueOf[p])
  <2>1. PICK j \in 1..n : sorted[j] = p
    BY <1>1, <1>4 DEF Range
  <2>2. ~(j \in DOMAIN rows)
    BY <2>1, <1>3, <1>4 DEF Range
  <2>3. i \in 1..n /\ i < j
    BY <2>2, <1>1, <1>3, <1>4
  <2>4. rows[i] = sorted[i]
    BY <1>3, <1>4
  <2> QED
    BY <2>1, <2>3, <2>4, <1>1
<1>6. ASSUME ~(Len(rows) < n) PROVE Range(rows) = Range(items)
  <2>1. rows = sorted
    BY <1>1, <1>3, <1>4, <1>6, SeqEqual
  <2> QED
    BY <2>1, <1>1
<1>7. ASSUME NEW i \in DOMAIN rows, NEW j \in DOMAIN rows, i < j
      PROVE  InPlace(ValueOf[rows[i]], ValueOf[rows[j]])
  BY <1>1, <1>3, <1>4, <1>7
<1>8. Range(rows) \subseteq Range(items)
  <2>1. Range(rows) \subseteq Range(sorted)
    BY <1>1, <1>3, <1>4 DEF Range
  <2> QED
    BY <2>1, <1>1
<1>9. ASSUME Increasing(items), NEW i \in DOMAIN rows, NEW j \in DOMAIN rows,
             i < j
      PROVE  rows[i] # rows[j]
  BY <1>1, <1>3, <1>4, <1>9
<1> QED
  BY <1>2, <1>3, <1>5, <1>6, <1>7, <1>8, <1>9

-----------------------------------------------------------------------------
(***************************************************************************)
(* One call                                                                *)
(***************************************************************************)

\* What a call does: it goes on, answers with what is collected, or fails.
GoesOn ==
  /\ phase' = "reading"
  /\ \E at \in Positions \union {0} :
       next_token' = Token(at) /\ Standing(all_items', at, pages + 1)

AnswersAggregate ==
  /\ phase' = "done" /\ select.kind = "aggregate"
  /\ \E s \in Seq(Positions) :
       /\ response'.value = Reduce(select.func, s)
       /\ EnoughPages => Whole(s)

AnswersOrdered ==
  /\ phase' = "done" /\ select.kind = "ordered"
  /\ \E s \in Seq(Positions), capped \in BOOLEAN :
       /\ response' = Ordered(s, capped)
       /\ Within(s)
       /\ EnoughPages /\ ~capped => Whole(s)

LEMMA ScanFacts ==
  ASSUME Types, Reading, phase = "reading", select.kind = "aggregate", ScanNext
  PROVE  GoesOn \/ AnswersAggregate \/ phase' = "failed"
<1> DEFINE key == decode_pagination_token(next_token)
<1>1. PICK at \in Positions \union {0} :
        next_token = Token(at) /\ Standing(all_items, at, pages)
  BY DEF Reading
<1>2. CASE ~Valid(key) /\ Fail
  BY <1>2 DEF Fail
<1>3. ASSUME Valid(key), NEW items \in SUBSET table,
             NEW last \in table \union {0},
             Evaluates(table, StartOf(key), MaxScanItems, items, last),
             LET collected == all_items \o InOrder(items)
                 token == encode_last_key(KeyAt(last))
             IN IF token # None /\ ~LastCall
                  THEN GoOn(collected, token)
                  ELSE Respond(collected,
                               [NoResponse EXCEPT
                                  !.value = Reduce(select.func, collected)])
      PROVE  GoesOn \/ AnswersAggregate
  <2> DEFINE s == all_items \o InOrder(items)
  <2>1. StartOf(key) = at
    BY <1>1, <1>3, StartFacts
  <2>2. items \intersect Wanted = items /\ last \in Positions \union {0}
    BY <1>3 DEF Types, Wanted
  <2>3. /\ Within(s)
        /\ last # 0 => Standing(s, last, pages + 1)
        /\ last = 0 \/ (LastCall /\ EnoughPages) => Whole(s)
    <3>1. Evaluates(table, at, MaxScanItems, items, last)
      BY <1>3, <2>1
    <3> QED
      BY <1>1, <1>3, <2>2, <3>1, Round
  <2>4. /\ encode_last_key(KeyAt(last)) = Token(last)
        /\ Token(last) = None <=> last = 0
    BY <2>2, StartFacts DEF Token
  <2> HIDE DEF s, key
  <2>5. CASE last # 0 /\ ~LastCall
    <3>1. GoOn(s, Token(last))
      BY <1>3, <2>4, <2>5 DEF s
    <3> QED
      BY <3>1, <2>2, <2>3, <2>5 DEF GoOn, GoesOn
  <2>6. CASE last = 0 \/ LastCall
    <3>1. Respond(s, [NoResponse EXCEPT !.value = Reduce(select.func, s)])
      BY <1>3, <2>4, <2>6 DEF s
    <3>2. phase' = "done" /\ response'.value = Reduce(select.func, s)
      BY <3>1 DEF Respond, NoResponse
    <3> QED
      BY <3>2, <2>3, <2>6 DEF AnswersAggregate, Within
  <2> QED
    BY <2>5, <2>6
<1> QED
  BY <1>2, <1>3 DEF ScanNext, ScanFrom

LEMMA StatementFacts ==
  ASSUME Types, Reading, phase = "reading", select.kind = "ordered",
         StatementNext
  PROVE  GoesOn \/ AnswersOrdered
<1>1. PICK at \in Positions \union {0} :
        next_token = Token(at) /\ Standing(all_items, at, pages)
  BY DEF Reading
<1>2. PICK items \in SUBSET table, last \in table \union {0} :
        LET collected == all_items \o InOrder(items \intersect Matching)
            full == Len(collected) >= MaxOrderByRows
        IN
        /\ Evaluates(table, StartOf(next_token), Cardinality(Positions), items,
                     last)
        /\ IF ~full /\ last # 0 /\ ~LastCall
             THEN GoOn(collected, KeyAt(last))
             ELSE LET kept == Cut(collected, MaxOrderByRows)
                  IN Respond(kept, Ordered(kept, full))
  BY DEF StatementNext
<1> DEFINE s == all_items \o InOrder(items \intersect Matching)
           full == Len(s) >= MaxOrderByRows
           kept == Cut(s, MaxOrderByRows)
<1>3. StartOf(next_token) = at
  BY <1>1, StartFacts
<1>4. Wanted = Matching /\ last \in Positions \union {0}
  BY DEF Wanted, Types
<1>5. /\ Within(s)
      /\ last # 0 => Standing(s, last, pages + 1)
      /\ last = 0 \/ (LastCall /\ EnoughPages) => Whole(s)
  <2>1. Evaluates(table, at, Cardinality(Positions), items, last)
    BY <1>2, <1>3
  <2> QED
    BY <1>1, <1>4, <2>1, Round
<1>6. KeyAt(last) = Token(last)
  BY DEF Token
<1> HIDE DEF s
<1>7. s \in Seq(Positions) /\ MaxOrderByRows \in Nat \ {0} /\ Len(s) \in Nat
  BY <1>5, BoundAssumption DEF Within
<1>8. Within(kept) /\ (~full => kept = s)
  <2>1. /\ kept \in Seq(Positions) /\ Len(kept) <= Len(s)
        /\ \A i \in 1..Len(kept) : kept[i] = s[i]
        /\ ~full => kept = s
    BY <1>7, CutFacts
  <2> HIDE DEF kept
  <2>2. \A i \in DOMAIN kept : i \in DOMAIN s /\ kept[i] = s[i]
    BY <2>1, <1>7
  <2>3. Range(kept) \subseteq Range(s)
    BY <2>2 DEF Range
  <2>4. Increasing(kept)
    BY <2>2, <1>5 DEF Within, Increasing
  <2> QED
    BY <2>1, <2>3, <2>4, <1>5 DEF Within
<1>9. CASE ~full /\ last # 0 /\ ~LastCall
  <2>1. GoOn(s, Token(last))
    BY <1>2, <1>6, <1>9 DEF s
  <2> QED
    BY <2>1, <1>4, <1>5, <1>9 DEF GoOn, GoesOn
<1>10. CASE ~(~full /\ last # 0 /\ ~LastCall)
  <2>1. Respond(kept, Ordered(kept, full))
    BY <1>2, <1>10 DEF s
  <2>2. phase' = "done" /\ response' = Ordered(kept, full)
    BY <2>1 DEF Respond
  <2>3. EnoughPages /\ ~full => Whole(kept)
    BY <1>5, <1>8, <1>10
  <2>4. full \in BOOLEAN
    OBVIOUS
  <2> HIDE DEF kept, full
  <2> QED
    BY <2>2, <2>3, <2>4, <1>8 DEF AnswersOrdered, Within
<1> QED
  BY <1>9, <1>10

(***************************************************************************)
(* The steps                                                               *)
(***************************************************************************)
LEMMA InitHolds == Init => IInv
<1> SUFFICES ASSUME Init PROVE IInv
  OBVIOUS
<1>1. Types
  BY DEF Init, Types
<1>2. Reading
  <2>1. next_token = Token(0)
    BY StartFacts DEF Init
  <2>2. /\ <<>> \in Seq(Positions) /\ Increasing(<<>>) /\ Range(<<>>) = {}
    BY DEF Increasing, Range
  <2>3. UpTo(all_items, 0)
    BY <2>2, <1>1, PositionsAreNumbers DEF Init, UpTo, Within, Types
  <2>4. Cardinality({p \in Positions : p <= 0}) = 0
    <3>1. {p \in Positions : p <= 0} = {}
      BY PositionsAreNumbers
    <3> QED
      BY <3>1, FS_EmptySet
  <2>5. Standing(all_items, 0, pages)
    BY <2>3, <2>4 DEF Init, Standing
  <2> QED
    BY <2>1, <2>5 DEF Reading
<1>3. phase = "reading"
  BY DEF Init
<1> QED
  BY <1>1, <1>2, <1>3
     DEF IInv, RInv, RowsAreSorted, AggregatesTheTable, TopOfTheTable,
         MissingRowsAreAnnounced

\* What other clients do takes items from steady and adds some to seen.
LEMMA OthersKeep ==
  ASSUME RInv,
         \/ \E p \in Positions : InsertItem(p) \/ DeleteItem(p)
         \/ UNCHANGED vars
  PROVE  RInv' /\ (IInv => IInv')
<1>1. /\ table' \in SUBSET Positions /\ steady' \subseteq table'
      /\ seen' \in SUBSET Positions /\ table' \subseteq seen'
      /\ steady' \subseteq steady /\ seen \subseteq seen'
      /\ UNCHANGED <<select, phase, pages, next_token, all_items, response>>
  <2>1. table \in SUBSET Positions /\ steady \subseteq table
        /\ seen \in SUBSET Positions /\ table \subseteq seen
    BY DEF RInv, Types
  <2>2. CASE \E p \in Positions : InsertItem(p) \/ DeleteItem(p)
    BY <2>1, <2>2 DEF InsertItem, DeleteItem
  <2>3. CASE UNCHANGED vars
    BY <2>1, <2>3 DEF vars
  <2> QED
    BY <2>2, <2>3
<1>2. Types'
  BY <1>1 DEF RInv, Types
<1>3. Reading'
  <2> SUFFICES ASSUME phase' = "reading"
               PROVE  \E at \in Positions \union {0} :
                        next_token' = Token(at)'
                        /\ Standing(all_items, at, pages)'
    BY DEF Reading
  <2>1. PICK at \in Positions \union {0} :
          next_token = Token(at) /\ Standing(all_items, at, pages)
    BY <1>1 DEF RInv, Reading
  <2>2. next_token' = Token(at)' /\ Wanted' = Wanted
    BY <2>1, <1>1 DEF Token, Wanted
  <2>3. UpTo(all_items, at)'
    BY <2>1, <2>2, <1>1 DEF Standing, UpTo, Within
  <2>4. Standing(all_items, at, pages)'
    BY <2>1, <2>3, <1>1 DEF Standing
  <2> QED
    BY <2>2, <2>4
<1>4. RowsAreSorted'
  BY <1>1 DEF RInv, RowsAreSorted, Shown, InPlace
<1>5. ASSUME IInv PROVE AggregatesTheTable'
  <2>1. Snapshots \subseteq Snapshots'
    BY <1>1 DEF Snapshots
  <2> QED
    BY <2>1, <1>1, <1>5 DEF IInv, AggregatesTheTable
<1>6. ASSUME IInv PROVE TopOfTheTable' /\ MissingRowsAreAnnounced'
  BY <1>1, <1>6 DEF IInv, TopOfTheTable, MissingRowsAreAnnounced, Shown
<1> QED
  BY <1>2, <1>3, <1>4, <1>5, <1>6 DEF RInv, IInv

LEMMA CallKeeps ==
  ASSUME RInv, Call
  PROVE  RInv' /\ (EnoughPages => IInv')
<1>1. /\ phase = "reading" /\ pages' = pages + 1
      /\ UNCHANGED <<table, changes, select, steady, seen>>
  BY DEF Call
<1>2. Types'
  BY <1>1 DEF RInv, Types
<1>3. /\ Wanted' = Wanted /\ \A l : Token(l)' = Token(l)
  BY <1>1 DEF Wanted, Token
<1>4. GoesOn \/ AnswersAggregate \/ AnswersOrdered \/ phase' = "failed"
  <2>1. CASE select.kind = "aggregate" /\ ScanNext
    BY <2>1, <1>1, ScanFacts DEF RInv
  <2>2. CASE select.kind = "ordered" /\ StatementNext
    BY <2>2, <1>1, StatementFacts DEF RInv
  <2>3. CASE Fail
    BY <2>3 DEF Fail
  <2> QED
    BY <2>1, <2>2, <2>3 DEF Call
<1>5. CASE GoesOn
  <2>1. PICK at \in Positions \union {0} :
          next_token' = Token(at) /\ Standing(all_items', at, pages + 1)
    BY <1>5 DEF GoesOn
  <2>2. UpTo(all_items, at)'
    BY <2>1, <1>1, <1>3 DEF Standing, UpTo, Within
  <2>3. Standing(all_items, at, pages)'
    BY <2>1, <2>2, <1>1 DEF Standing
  <2>4. Reading'
    BY <2>1, <2>3, <1>3 DEF Reading
  <2>5. phase' = "reading"
    BY <1>5 DEF GoesOn
  <2> QED
    BY <2>4, <2>5, <1>2
       DEF RInv, IInv, RowsAreSorted, AggregatesTheTable, TopOfTheTable,
           MissingRowsAreAnnounced
<1>6. CASE AnswersAggregate
  <2>1. PICK s \in Seq(Positions) :
          /\ response'.value = Reduce(select.func, s)
          /\ EnoughPages => Whole(s)
    BY <1>6 DEF AnswersAggregate
  <2>2. phase' = "done" /\ select.kind = "aggregate"
    BY <1>6 DEF AnswersAggregate
  <2>3. Reading' /\ RowsAreSorted' /\ TopOfTheTable' /\ MissingRowsAreAnnounced'
    BY <2>2, <1>1
       DEF Reading, RowsAreSorted, TopOfTheTable, MissingRowsAreAnnounced
  <2>4. ASSUME EnoughPages PROVE AggregatesTheTable'
    <3>1. /\ Increasing(s) /\ Range(s) \subseteq seen
          /\ steady \intersect Positions \subseteq Range(s)
      BY <2>1, <2>2, <2>4 DEF Whole, Within, Wanted
    <3>2. steady \subseteq Range(s)
      BY <3>1 DEF RInv, Types
    <3>3. s = InOrder(Range(s))
      BY <3>1, InOrderUnique
    <3>4. Range(s) \in Snapshots'
      BY <3>1, <3>2, <1>1 DEF Snapshots
    <3>5. response'.value = Reduce(select'.func, InOrder(Range(s)))
      BY <2>1, <3>3, <1>1
    <3> QED
      BY <3>4, <3>5 DEF AggregatesTheTable
  <2> QED
    BY <2>3, <2>4, <1>2 DEF RInv, IInv
<1>7. CASE AnswersOrdered
  <2>1. PICK s \in Seq(Positions), capped \in BOOLEAN :
          /\ response' = Ordered(s, capped)
          /\ Within(s)
          /\ EnoughPages /\ ~capped => Whole(s)
    BY <1>7 DEF AnswersOrdered
  <2>2. /\ phase' = "done" /\ select.kind = "ordered" /\ Wanted = Matching
        /\ select.limit \in Nat \union {NoLimit}
    BY <1>7, Kinds DEF AnswersOrdered, RInv, Wanted
  <2> DEFINE r == Ordered(s, capped)
  <2>3. /\ r.warning = capped
        /\ capped => r.has_more
        /\ \A p \in Range(s) \ Range(r.rows), i \in DOMAIN r.rows :
             InPlace(ValueOf[r.rows[i]], ValueOf[p])
        /\ ~r.has_more => Range(r.rows) = Range(s)
        /\ Range(r.rows) \subseteq Range(s)
        /\ Increasing(s) =>
             \A i, j \in DOMAIN r.rows : i < j => r.rows[i] # r.rows[j]
        /\ \A i, j \in DOMAIN r.rows : i < j =>
             InPlace(ValueOf[r.rows[i]], ValueOf[r.rows[j]])
    BY <2>2, OrderedFacts
  <2>4. response' = r
    BY <2>1
  <2> HIDE DEF r
  <2>5. Reading' /\ AggregatesTheTable'
    BY <2>2, <1>1 DEF Reading, AggregatesTheTable
  <2>6. RowsAreSorted'
    BY <2>1, <2>2, <2>3, <2>4, <1>1 DEF RowsAreSorted, Shown, InPlace, Within
  <2>7. ASSUME EnoughPages PROVE TopOfTheTable' /\ MissingRowsAreAnnounced'
    <3>1. ~capped => steady \intersect Matching \subseteq Range(s)
      BY <2>1, <2>2, <2>7 DEF Whole
    <3>2. TopOfTheTable'
      BY <3>1, <2>3, <2>4, <1>1 DEF TopOfTheTable, Shown, InPlace
    <3>3. MissingRowsAreAnnounced'
      BY <3>1, <2>3, <2>4, <1>1 DEF MissingRowsAreAnnounced, Shown
    <3> QED
      BY <3>2, <3>3
  <2> QED
    BY <2>5, <2>6, <2>7, <1>2 DEF RInv, IInv
<1>8. CASE phase' = "failed"
  BY <1>8, <1>2
     DEF RInv, IInv, Reading, RowsAreSorted, AggregatesTheTable, TopOfTheTable,
         MissingRowsAreAnnounced
<1> QED
  BY <1>4, <1>5, <1>6, <1>7, <1>8

LEMMA StepKeeps ==
  ASSUME RInv, [Next]_vars
  PROVE  RInv' /\ (EnoughPages /\ IInv => IInv')
BY OthersKeep, CallKeeps DEF Next

(***************************************************************************)
(* The theorems                                                            *)
(***************************************************************************)

\* The rows of an ordered SELECT are items that it selects and that were
\* there, each once, and in the order it asks for, whether or not a cap, a
\* limit or the number of calls cut the result (query.rs:912-1012).
THEOREM OrderedRowsAreSorted == Spec => []RowsAreSorted
<1>1. Init => RInv
  BY InitHolds DEF IInv
<1>2. RInv /\ [Next]_vars => RInv'
  BY StepKeeps
<1>3. RInv => RowsAreSorted
  BY DEF RInv
<1> QED
  BY <1>1, <1>2, <1>3, PTL DEF Spec

LEMMA Invariant ==
  ASSUME EnoughPages PROVE Spec => []IInv
<1>1. IInv /\ [Next]_vars => IInv'
  BY StepKeeps, EnoughPages DEF IInv
<1> QED
  BY InitHolds, <1>1, PTL DEF Spec

\* An aggregate is that of items the table held, each once, with all those
\* that were there throughout, if there are no more items than calls
\* (query.rs:485-573).
THEOREM AggregatesAreOfTheTable ==
  ASSUME EnoughPages PROVE Spec => []AggregatesTheTable
<1>1. IInv => AggregatesTheTable
  BY DEF IInv
<1> QED
  BY <1>1, Invariant, EnoughPages, PTL

\* A response to an ordered SELECT without a warning holds the top of the
\* table, if there are no more items than calls (query.rs:925-1012).
THEOREM OrderedRowsAreTheTop ==
  ASSUME EnoughPages PROVE Spec => []TopOfTheTable
<1>1. IInv => TopOfTheTable
  BY DEF IInv
<1> QED
  BY <1>1, Invariant, EnoughPages, PTL

\* A response to an ordered SELECT that lacks rows says so, if there are no
\* more items than calls (query.rs:930-1012).
THEOREM LacksAreAnnounced ==
  ASSUME EnoughPages PROVE Spec => []MissingRowsAreAnnounced
<1>1. IInv => MissingRowsAreAnnounced
  BY DEF IInv
<1> QED
  BY <1>1, Invariant, EnoughPages, PTL
=============================================================================
