------------------------ MODULE Arrangements_proofs -------------------------
(***************************************************************************)
(* What an arrangement of a finite set is, for every strict total order:   *)
(* each member once, in order.                                             *)
(***************************************************************************)
EXTENDS Arrangements, FunctionTheorems, FiniteSetTheorems, TLAPS

\* R orders S strictly and totally.
Orders(R, S) ==
  /\ \A p \in S : <<p, p>> \notin R
  /\ \A p, q, r \in S : <<p, q>> \in R /\ <<q, r>> \in R => <<p, r>> \in R
  /\ \A p, q \in S : p = q \/ <<p, q>> \in R \/ <<q, p>> \in R

Earlier(p, S, R) == {q \in S : <<q, p>> \in R}

\* What goes before p goes before what p goes before.
LEMMA EarlierGrows ==
  ASSUME NEW S, NEW R, IsFiniteSet(S), Orders(R, S),
         NEW p \in S, NEW q \in S, <<p, q>> \in R
  PROVE  Cardinality(Earlier(p, S, R)) < Cardinality(Earlier(q, S, R))
<1> DEFINE P == Earlier(p, S, R)
           Q == Earlier(q, S, R)
<1>1. P \subseteq Q /\ Q \subseteq S
  BY DEF Orders, Earlier
<1>2. p \in Q /\ p \notin P
  BY DEF Orders, Earlier
<1> HIDE DEF P, Q
<1>3. IsFiniteSet(Q) /\ IsFiniteSet(P)
  BY <1>1, FS_Subset
<1>4. Cardinality(P) <= Cardinality(Q) /\ Cardinality(P) # Cardinality(Q)
  BY <1>1, <1>2, <1>3, FS_Subset
<1>5. Cardinality(P) \in Nat /\ Cardinality(Q) \in Nat
  BY <1>3, FS_CardinalityType
<1> QED
  BY <1>4, <1>5 DEF P, Q

\* Each member has a place of its own, and each place its member.
LEMMA Places ==
  ASSUME NEW S, NEW R, IsFiniteSet(S), Orders(R, S)
  PROVE  /\ Cardinality(S) \in Nat
         /\ \A p \in S : Cardinality(Earlier(p, S, R)) + 1 \in 1..Cardinality(S)
         /\ \A p, q \in S :
              Cardinality(Earlier(p, S, R)) = Cardinality(Earlier(q, S, R))
                => p = q
         /\ \A i \in 1..Cardinality(S) :
              \E p \in S : Cardinality(Earlier(p, S, R)) = i - 1
<1> DEFINE n == Cardinality(S)
           place == [p \in S |-> Cardinality(Earlier(p, S, R)) + 1]
<1>1. n \in Nat
  BY FS_CardinalityType
<1>2. ASSUME NEW p \in S
      PROVE  /\ Cardinality(Earlier(p, S, R)) \in Nat
             /\ Cardinality(Earlier(p, S, R)) + 1 \in 1..n
  <2>1. Earlier(p, S, R) \subseteq S /\ p \notin Earlier(p, S, R)
    BY DEF Earlier, Orders
  <2>2. /\ IsFiniteSet(Earlier(p, S, R))
        /\ Cardinality(Earlier(p, S, R)) <= n
        /\ n # Cardinality(Earlier(p, S, R))
    BY <2>1, FS_Subset
  <2>3. Cardinality(Earlier(p, S, R)) \in Nat
    BY <2>2, FS_CardinalityType
  <2> QED
    BY <2>2, <2>3, <1>1
<1>3. ASSUME NEW p \in S, NEW q \in S,
             Cardinality(Earlier(p, S, R)) = Cardinality(Earlier(q, S, R))
      PROVE  p = q
  <2>1. CASE <<p, q>> \in R
    BY <2>1, <1>2, <1>3, EarlierGrows
  <2>2. CASE <<q, p>> \in R
    BY <2>2, <1>2, <1>3, EarlierGrows
  <2> QED
    BY <2>1, <2>2 DEF Orders
<1>4. place \in Injection(S, 1..n)
  <2>1. place \in [S -> 1..n]
    BY <1>2
  <2>2. \A p, q \in S : place[p] = place[q] => p = q
    BY <1>2, <1>3
  <2> HIDE DEF place
  <2> QED
    BY <2>1, <2>2, Fun_IsInj
<1>5. IsFiniteSet(1..n) /\ Cardinality(1..n) = n
  BY <1>1, FS_Interval
<1> HIDE DEF n
<1>6. place \in Surjection(S, 1..n)
  <2> HIDE DEF place
  <2> QED
    BY <1>4, <1>5, FS_Injection DEF n
<1>7. ASSUME NEW i \in 1..n
      PROVE  \E p \in S : Cardinality(Earlier(p, S, R)) = i - 1
  <2> HIDE DEF place
  <2>1. PICK p \in S : place[p] = i
    BY <1>6 DEF Surjection
  <2>2. place[p] = Cardinality(Earlier(p, S, R)) + 1
    BY DEF place
  <2>3. Cardinality(Earlier(p, S, R)) \in Int /\ i \in Int
    BY <1>1, <1>2
  <2> QED
    BY <2>1, <2>2, <2>3
<1> QED
  BY <1>1, <1>2, <1>3, <1>7 DEF n

\* What is arranged is the set, in the order of the pairs.
LEMMA ArrangedFacts ==
  ASSUME NEW S, NEW R, IsFiniteSet(S), Orders(R, S)
  PROVE  /\ Cardinality(S) \in Nat
         /\ Arranged(S, R) \in [1..Cardinality(S) -> S]
         /\ \A i \in 1..Cardinality(S) :
              Cardinality(Earlier(Arranged(S, R)[i], S, R)) = i - 1
         /\ \A p \in S : \E i \in 1..Cardinality(S) : Arranged(S, R)[i] = p
         /\ \A i, j \in 1..Cardinality(S) :
              i < j => <<Arranged(S, R)[i], Arranged(S, R)[j]>> \in R
<1> DEFINE n == Cardinality(S)
           At(i) == CHOOSE p \in S :
                      Cardinality({q \in S : <<q, p>> \in R}) = i - 1
           a == Arranged(S, R)
<1>1. n \in Nat
  BY Places
<1>2. ASSUME NEW i \in 1..n
      PROVE  a[i] \in S /\ Cardinality(Earlier(a[i], S, R)) = i - 1
  <2>1. a[i] = CHOOSE p \in S : Cardinality(Earlier(p, S, R)) = i - 1
    BY DEF Arranged, Earlier
  <2>2. \E p \in S : Cardinality(Earlier(p, S, R)) = i - 1
    BY Places
  <2> HIDE DEF a
  <2> QED
    BY <2>1, <2>2, Zenon
<1>3. a \in [1..n -> S]
  <2>1. a = [i \in 1..n |-> At(i)]
    BY DEF Arranged
  <2> HIDE DEF a, At
  <2>2. \A i \in 1..n : At(i) = a[i]
    BY <2>1
  <2> QED
    BY <1>2, <2>1, <2>2
<1>4. ASSUME NEW p \in S PROVE \E i \in 1..n : a[i] = p
  <2> DEFINE i == Cardinality(Earlier(p, S, R)) + 1
  <2>1. i \in 1..n
    BY Places
  <2>2. Cardinality(Earlier(a[i], S, R)) = i - 1 /\ a[i] \in S
    BY <1>2, <2>1
  <2>3. Cardinality(Earlier(p, S, R)) \in Int
    <3>1. Earlier(p, S, R) \subseteq S
      BY DEF Earlier
    <3> QED
      BY <3>1, FS_Subset, FS_CardinalityType
  <2>4. Cardinality(Earlier(a[i], S, R)) = Cardinality(Earlier(p, S, R))
    BY <2>2, <2>3
  <2>5. a[i] = p
    BY <2>2, <2>4, Places
  <2> QED
    BY <2>1, <2>5
<1>5. ASSUME NEW i \in 1..n, NEW j \in 1..n, i < j
      PROVE  <<a[i], a[j]>> \in R
  <2>1. /\ a[i] \in S /\ Cardinality(Earlier(a[i], S, R)) = i - 1
        /\ a[j] \in S /\ Cardinality(Earlier(a[j], S, R)) = j - 1
    BY <1>2
  <2> HIDE DEF a
  <2>2. a[i] # a[j]
    BY <2>1, <1>1, <1>5
  <2>3. <<a[j], a[i]>> \notin R
    BY <2>1, <1>1, <1>5, EarlierGrows
  <2> QED
    BY <2>1, <2>2, <2>3 DEF Orders
<1> QED
  BY <1>1, <1>2, <1>3, <1>4, <1>5

\* Numbers in ascending order: each has as many before it as are less.
LEMMA AscendingFacts ==
  ASSUME NEW S, IsFiniteSet(S), S \subseteq Int
  PROVE  /\ Cardinality(S) \in Nat
         /\ Ascending(S) \in [1..Cardinality(S) -> S]
         /\ \A i \in 1..Cardinality(S) :
              Cardinality({q \in S : q < Ascending(S)[i]}) = i - 1
         /\ \A p \in S : \E i \in 1..Cardinality(S) : Ascending(S)[i] = p
         /\ \A i, j \in 1..Cardinality(S) :
              i < j => Ascending(S)[i] < Ascending(S)[j]
<1> DEFINE n == Cardinality(S)
           R == {e \in S \X S : e[1] < e[2]}
           s == Ascending(S)
<1>1. s = Arranged(S, R)
  BY DEF Ascending
<1>2. \A p, q \in S : <<p, q>> \in R <=> p < q
  OBVIOUS
<1> HIDE DEF n, R, s
<1>3. Orders(R, S)
  BY <1>2 DEF Orders
<1>4. \A p \in S : Earlier(p, S, R) = {q \in S : q < p}
  BY <1>2 DEF Earlier
<1>5. /\ n \in Nat
      /\ s \in [1..n -> S]
      /\ \A i \in 1..n : Cardinality(Earlier(s[i], S, R)) = i - 1
      /\ \A p \in S : \E i \in 1..n : s[i] = p
      /\ \A i, j \in 1..n : i < j => <<s[i], s[j]>> \in R
  BY <1>1, <1>3, ArrangedFacts DEF n
<1>6. \A i \in 1..n : Cardinality({q \in S : q < s[i]}) = i - 1
  BY <1>4, <1>5
<1>7. \A i, j \in 1..n : i < j => s[i] < s[j]
  BY <1>2, <1>5
<1> QED
  BY <1>5, <1>6, <1>7 DEF n, s

\* What is kept of a list is what it has at these places, in its order.
LEMMA KeptFacts ==
  ASSUME NEW s, NEW places
  PROVE  /\ DOMAIN Kept(s, places) = 1..Cardinality(places)
         /\ \A i \in 1..Cardinality(places) :
              Kept(s, places)[i] = s[Ascending(places)[i]]
BY DEF Kept

=============================================================================
