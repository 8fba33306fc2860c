------------------------- MODULE ConfigPool_proofs --------------------------
(***************************************************************************)
(* Proofs about ConfigPool, for every set of workers and of connections,   *)
(* texts of any length and all lengths of the lifetime and the interval.   *)
(***************************************************************************)
EXTENDS ConfigPool, SequenceTheorems, TLAPS

(***************************************************************************)
(* The key of an entry tells connections apart                             *)
(***************************************************************************)

\* The parts of a prefixed text, by position.
LEMMA PrefixParts ==
  ASSUME NEW s \in Seq(Chars), NEW u \in Seq(Chars)
  PROVE  /\ Prefix(s, u) \in Seq(Chars)
         /\ Len(Prefix(s, u)) = Len(s) + 1 + Len(u)
         /\ \A i \in 1 .. Len(s) : Prefix(s, u)[i] = s[i]
         /\ Prefix(s, u)[Len(s) + 1] = Colon
         /\ \A i \in 1 .. Len(u) : Prefix(s, u)[Len(s) + 1 + i] = u[i]
<1> DEFINE v == <<Colon>> \o u
<1>1. Len(s) \in Nat /\ Len(u) \in Nat
  BY LenProperties
<1>2. <<Colon>> \in Seq(Chars) /\ Len(<<Colon>>) = 1 /\ <<Colon>>[1] = Colon
  BY CharsAssumption
<1>3. /\ v \in Seq(Chars)
      /\ Len(v) = 1 + Len(u)
      /\ v[1] = Colon
      /\ \A i \in 1 .. Len(u) : v[1 + i] = u[i]
  BY <1>1, <1>2, ConcatProperties
<1>4. /\ s \o v \in Seq(Chars)
      /\ Len(s \o v) = Len(s) + Len(v)
      /\ \A i \in 1 .. Len(s) + Len(v) :
           (s \o v)[i] = IF i <= Len(s) THEN s[i] ELSE v[i - Len(s)]
  BY <1>3, ConcatProperties
<1>5. (s \o v)[Len(s) + 1] = Colon
  BY <1>1, <1>3, <1>4
<1>6. ASSUME NEW i \in 1 .. Len(u) PROVE (s \o v)[Len(s) + 1 + i] = u[i]
  BY <1>1, <1>3, <1>4
<1>7. QED BY <1>1, <1>3, <1>4, <1>5, <1>6 DEF Prefix

\* The first field ends at the first colon: a key has one first field.
LEMMA PrefixUnique ==
  ASSUME NEW s \in Seq(Chars), NEW t \in Seq(Chars), NoColon(s), NoColon(t),
         NEW u \in Seq(Chars), NEW v \in Seq(Chars),
         Prefix(s, u) = Prefix(t, v)
  PROVE  s = t /\ u = v
<1>1. Len(s) \in Nat /\ Len(t) \in Nat /\ Len(u) \in Nat /\ Len(v) \in Nat
  BY LenProperties
<1>2. \A i \in 1 .. Len(s) : s[i] # Colon
  BY LenProperties DEF NoColon
<1>3. \A i \in 1 .. Len(t) : t[i] # Colon
  BY LenProperties DEF NoColon
<1>4. ~(Len(s) < Len(t))
  <2>1. SUFFICES ASSUME Len(s) < Len(t) PROVE FALSE
    OBVIOUS
  <2>2. Len(s) + 1 \in 1 .. Len(t)
    BY <1>1, <2>1
  <2>3. Prefix(t, v)[Len(s) + 1] = t[Len(s) + 1]
    BY <2>2, PrefixParts
  <2>4. Prefix(s, u)[Len(s) + 1] = Colon
    BY PrefixParts
  <2>5. QED BY <1>3, <2>2, <2>3, <2>4
<1>5. ~(Len(t) < Len(s))
  <2>1. SUFFICES ASSUME Len(t) < Len(s) PROVE FALSE
    OBVIOUS
  <2>2. Len(t) + 1 \in 1 .. Len(s)
    BY <1>1, <2>1
  <2>3. Prefix(s, u)[Len(t) + 1] = s[Len(t) + 1]
    BY <2>2, PrefixParts
  <2>4. Prefix(t, v)[Len(t) + 1] = Colon
    BY PrefixParts
  <2>5. QED BY <1>2, <2>2, <2>3, <2>4
<1>6. Len(s) = Len(t) /\ Len(u) = Len(v)
  <2>1. Len(s) = Len(t)
    BY <1>1, <1>4, <1>5
  <2>2. Len(Prefix(s, u)) = Len(s) + 1 + Len(u)
    BY PrefixParts
  <2>3. Len(Prefix(t, v)) = Len(t) + 1 + Len(v)
    BY PrefixParts
  <2>4. QED BY <1>1, <2>1, <2>2, <2>3
<1>7. s = t
  <2>1. ASSUME NEW i \in 1 .. Len(s) PROVE s[i] = t[i]
    <3>1. Prefix(s, u)[i] = s[i]
      BY PrefixParts
    <3>2. i \in 1 .. Len(t)
      BY <1>6
    <3>3. Prefix(t, v)[i] = t[i]
      BY <3>2, PrefixParts
    <3>4. QED BY <3>1, <3>3
  <2>2. QED BY <1>6, <2>1, SeqEqual
<1>8. u = v
  <2>1. ASSUME NEW i \in 1 .. Len(u) PROVE u[i] = v[i]
    <3>1. Prefix(s, u)[Len(s) + 1 + i] = u[i]
      BY PrefixParts
    <3>2. i \in 1 .. Len(v)
      BY <1>6
    <3>3. Prefix(t, v)[Len(t) + 1 + i] = v[i]
      BY <3>2, PrefixParts
    <3>4. QED BY <3>1, <3>3, <1>6
  <2>2. QED BY <1>6, <2>1, SeqEqual
<1>9. QED BY <1>7, <1>8

\* Connections that differ in any field have different cache keys, as long as
\* only their endpoints have colons.
THEOREM KeyTellsApart ==
  ASSUME NEW f \in Fields, NEW g \in Fields, Plain(f), Plain(g),
         Key(f) = Key(g)
  PROVE  f = g
<1> DEFINE f5 == Prefix(f.profile, f.endpoint)
           g5 == Prefix(g.profile, g.endpoint)
           f4 == Prefix(f.session_token, f5)
           g4 == Prefix(g.session_token, g5)
           f3 == Prefix(f.secret_access_key, f4)
           g3 == Prefix(g.secret_access_key, g4)
           f2 == Prefix(f.access_key_id, f3)
           g2 == Prefix(g.access_key_id, g3)
<1>0. /\ f.region \in Seq(Chars) /\ g.region \in Seq(Chars)
      /\ f.access_key_id \in Seq(Chars) /\ g.access_key_id \in Seq(Chars)
      /\ f.secret_access_key \in Seq(Chars) /\ g.secret_access_key \in Seq(Chars)
      /\ f.session_token \in Seq(Chars) /\ g.session_token \in Seq(Chars)
      /\ f.profile \in Seq(Chars) /\ g.profile \in Seq(Chars)
      /\ f.endpoint \in Seq(Chars) /\ g.endpoint \in Seq(Chars)
  BY CharsAssumption DEF Fields
<1>1. f5 \in Seq(Chars) /\ g5 \in Seq(Chars)
  BY <1>0, PrefixParts
<1> HIDE DEF f5, g5
<1>2. f4 \in Seq(Chars) /\ g4 \in Seq(Chars)
  BY <1>0, <1>1, PrefixParts
<1> HIDE DEF f4, g4
<1>3. f3 \in Seq(Chars) /\ g3 \in Seq(Chars)
  BY <1>0, <1>2, PrefixParts
<1> HIDE DEF f3, g3
<1>4. f2 \in Seq(Chars) /\ g2 \in Seq(Chars)
  BY <1>0, <1>3, PrefixParts
<1> HIDE DEF f2, g2
<1>5. f.region = g.region /\ f2 = g2
  <2>1. Prefix(f.region, f2) = Prefix(g.region, g2)
    BY DEF Key, f5, g5, f4, g4, f3, g3, f2, g2
  <2>2. QED BY <1>0, <1>4, <2>1, PrefixUnique DEF Plain
<1>6. f.access_key_id = g.access_key_id /\ f3 = g3
  BY <1>0, <1>3, <1>5, PrefixUnique DEF Plain, f2, g2
<1>7. f.secret_access_key = g.secret_access_key /\ f4 = g4
  BY <1>0, <1>2, <1>6, PrefixUnique DEF Plain, f3, g3
<1>8. f.session_token = g.session_token /\ f5 = g5
  BY <1>0, <1>1, <1>7, PrefixUnique DEF Plain, f4, g4
<1>9. f.profile = g.profile /\ f.endpoint = g.endpoint
  BY <1>0, <1>8, PrefixUnique DEF Plain, f5, g5
<1>10. QED BY <1>5, <1>6, <1>7, <1>8, <1>9 DEF Fields

-----------------------------------------------------------------------------
(***************************************************************************)
(* The invariant                                                           *)
(***************************************************************************)

\* An entry sits under the key of what it was built from, and a worker that
\* builds does so for what it was asked.
Keyed ==
  /\ \A k \in DOMAIN pool : Key(pool[k].config) = k
  /\ \A w \in Workers : pc[w] # "idle" => asked[w] \in Params
  /\ \A w \in Workers : pc[w] = "built" => built[w] = asked[w]
  /\ \A w \in Workers : pc[w] = "idle" /\ served[w] # None
       => asked[w] \in Params /\ Key(served[w]) = Key(asked[w])

\* The sweep is at most one interval ahead, and an entry that survived the
\* last sweep had been used within Ttl of it.
Timely ==
  /\ \A k \in DOMAIN pool : pool[k].lastUsed <= now
  /\ nextSweep <= now + Interval
  /\ cleanup = "running" =>
       /\ now <= nextSweep
       /\ \A k \in DOMAIN pool :
            nextSweep < pool[k].lastUsed + Interval + Ttl

\* The last use of an entry is recorded in it, and an entry that is not there
\* has not been used for a lifetime.
Remembered ==
  \A k \in Keys : usedAt[k] # None =>
    IF k \in DOMAIN pool THEN usedAt[k] <= pool[k].lastUsed
    ELSE now - usedAt[k] >= Ttl

Inv == TypeOK /\ Keyed /\ Timely /\ Remembered

LEMMA InvInit == Init => Inv
BY TimeAssumption, NoneAssumption
DEF Init, Inv, TypeOK, Keyed, Timely, Remembered, CachedConfig

\* An entry that is written with the current instant keeps the pool in order.
LEMMA WithInv ==
  ASSUME TypeOK, Keyed, Timely, Remembered, NEW p \in Params,
         NEW c \in Params, Key(c) = Key(p),
         pool' = With(Key(p), [config |-> c, lastUsed |-> now]),
         usedAt' = [usedAt EXCEPT ![Key(p)] = now],
         UNCHANGED <<now, cleanup, nextSweep>>
  PROVE  /\ DOMAIN pool' \subseteq Keys
         /\ \A k \in DOMAIN pool' : pool'[k] \in CachedConfig
         /\ \A k \in DOMAIN pool' : Key(pool'[k].config) = k
         /\ usedAt' \in [Keys -> Nat \union {None}]
         /\ Timely' /\ Remembered'
<1> DEFINE e == [config |-> c, lastUsed |-> now]
<1>1. e \in CachedConfig /\ e.config = c /\ e.lastUsed = now
  BY DEF TypeOK, CachedConfig
<1>2. Key(p) \in Keys
  BY DEF Keys
<1>3. /\ DOMAIN pool' = DOMAIN pool \union {Key(p)}
      /\ pool'[Key(p)] = e
      /\ \A k \in DOMAIN pool : k # Key(p) => pool'[k] = pool[k]
  BY DEF With
<1>4. DOMAIN pool' \subseteq Keys
  BY <1>2, <1>3 DEF TypeOK
<1>5. Timely'
  BY <1>1, <1>3, TimeAssumption DEF Timely, TypeOK, CachedConfig
<1>6. \A k \in DOMAIN pool' : Key(pool'[k].config) = k
  BY <1>1, <1>3 DEF Keyed
<1>7. \A k \in DOMAIN pool' : pool'[k] \in CachedConfig
  BY <1>1, <1>3 DEF TypeOK
<1>8. /\ usedAt' \in [Keys -> Nat \union {None}]
      /\ usedAt'[Key(p)] = now
      /\ \A k \in Keys : k # Key(p) => usedAt'[k] = usedAt[k]
  BY <1>2 DEF TypeOK
<1>9. Remembered'
  <2> SUFFICES ASSUME NEW k \in Keys, usedAt'[k] # None
               PROVE  IF k \in DOMAIN pool' THEN usedAt'[k] <= pool'[k].lastUsed
                      ELSE now' - usedAt'[k] >= Ttl
    BY DEF Remembered
  <2>1. CASE k = Key(p)
    BY <1>1, <1>3, <1>8, <2>1 DEF TypeOK
  <2>2. CASE k # Key(p)
    BY <1>3, <1>8, <2>2 DEF Remembered
  <2>3. QED BY <2>1, <2>2
<1>10. QED BY <1>4, <1>5, <1>6, <1>7, <1>8, <1>9

LEMMA InvStep == Inv /\ [Next]_vars => Inv'
<1> SUFFICES ASSUME Inv, [Next]_vars PROVE Inv'
  OBVIOUS
<1> USE ParamsAssumption, TimeAssumption, NoneAssumption DEF Inv
<1>1. ASSUME NEW w \in Workers, NEW p \in Params, Hit(w, p) PROVE Inv'
  <2> DEFINE c == pool[Key(p)].config
  <2>1. c \in Params /\ Key(c) = Key(p)
    BY <1>1 DEF Hit, TypeOK, CachedConfig, Keyed
  <2>2. [pool[Key(p)] EXCEPT !.lastUsed = now] = [config |-> c, lastUsed |-> now]
    BY <1>1 DEF Hit, TypeOK, CachedConfig
  <2>3. /\ DOMAIN pool' \subseteq Keys
        /\ \A k \in DOMAIN pool' : pool'[k] \in CachedConfig
        /\ \A k \in DOMAIN pool' : Key(pool'[k].config) = k
        /\ usedAt' \in [Keys -> Nat \union {None}]
        /\ Timely' /\ Remembered'
    BY <1>1, <2>1, <2>2, WithInv DEF Hit
  <2>4. TypeOK'
    BY <1>1, <2>1, <2>3 DEF Hit, TypeOK
  <2>5. Keyed'
    BY <1>1, <2>1, <2>3 DEF Hit, Keyed, TypeOK
  <2>6. QED BY <2>3, <2>4, <2>5
<1>2. ASSUME NEW w \in Workers, NEW p \in Params, Miss(w, p) PROVE Inv'
  BY <1>2 DEF Miss, TypeOK, Keyed, Timely, Remembered
<1>3. ASSUME NEW w \in Workers, Load(w) PROVE Inv'
  BY <1>3 DEF Load, TypeOK, Keyed, Timely, Remembered
<1>4. ASSUME NEW w \in Workers, Store(w) PROVE Inv'
  <2>1. asked[w] \in Params /\ built[w] = asked[w]
    BY <1>4 DEF Store, Deliver, Keyed
  <2>2. /\ DOMAIN pool' \subseteq Keys
        /\ \A k \in DOMAIN pool' : pool'[k] \in CachedConfig
        /\ \A k \in DOMAIN pool' : Key(pool'[k].config) = k
        /\ usedAt' \in [Keys -> Nat \union {None}]
        /\ Timely' /\ Remembered'
    BY <1>4, <2>1, WithInv DEF Store, Deliver
  <2>3. TypeOK'
    BY <1>4, <2>1, <2>2 DEF Store, Deliver, TypeOK
  <2>4. Keyed'
    BY <1>4, <2>1, <2>2 DEF Store, Deliver, Keyed, TypeOK
  <2>5. QED BY <2>2, <2>3, <2>4
<1>5. CASE Sweep
  <2> DEFINE fresh == {k \in DOMAIN pool : now - pool[k].lastUsed < Ttl}
  <2>1. DOMAIN pool' = fresh /\ \A k \in fresh : pool'[k] = pool[k]
    BY <1>5 DEF Sweep, SweepKeeping, Retain
  <2>2. now = nextSweep /\ cleanup = "running"
    BY <1>5 DEF Sweep, SweepKeeping, SweepDue, Timely, TypeOK
  <2>3. /\ nextSweep' = nextSweep + Interval
        /\ UNCHANGED <<now, pc, asked, built, served, usedAt, cleanup>>
    BY <1>5 DEF Sweep, SweepKeeping
  <2>4. ASSUME NEW k \in fresh
        PROVE  /\ pool[k].lastUsed \in Nat /\ pool[k].lastUsed <= now
               /\ now < pool[k].lastUsed + Ttl
    BY DEF TypeOK, CachedConfig, Timely
  <2>5. Timely'
    <3>1. \A k \in DOMAIN pool' : pool'[k].lastUsed <= now'
      BY <2>1, <2>3, <2>4
    <3>2. now \in Nat /\ nextSweep \in Nat
      BY DEF TypeOK
    <3>3. nextSweep' <= now' + Interval /\ now' <= nextSweep'
      BY <2>2, <2>3, <3>2
    <3>4. \A k \in DOMAIN pool' :
            nextSweep' < pool'[k].lastUsed + Interval + Ttl
      BY <2>1, <2>2, <2>3, <2>4, <3>2
    <3>5. QED BY <3>1, <3>3, <3>4 DEF Timely
  <2>6. TypeOK'
    <3>1. DOMAIN pool' \subseteq Keys /\ nextSweep' \in Nat
      BY <2>1, <2>3 DEF TypeOK
    <3>2. \A k \in DOMAIN pool' : pool'[k] \in CachedConfig
      BY <2>1 DEF TypeOK
    <3>3. QED BY <2>3, <3>1, <3>2 DEF TypeOK
  <2>7. Keyed'
    BY <2>1, <2>3 DEF Keyed
  <2>8. Remembered'
    <3> SUFFICES ASSUME NEW k \in Keys, usedAt[k] # None
                 PROVE  IF k \in fresh THEN usedAt[k] <= pool[k].lastUsed
                        ELSE now - usedAt[k] >= Ttl
      BY <2>1, <2>3 DEF Remembered
    <3>1. usedAt[k] \in Nat /\ now \in Nat
      BY DEF TypeOK
    <3>2. CASE k \notin DOMAIN pool
      BY <3>2 DEF Remembered
    <3>3. CASE k \in DOMAIN pool
      <4>1. usedAt[k] <= pool[k].lastUsed /\ pool[k].lastUsed \in Nat
        BY <3>3 DEF Remembered, TypeOK, CachedConfig
      <4>2. QED BY <3>1, <3>3, <4>1
    <3>4. QED BY <3>2, <3>3
  <2>9. QED BY <2>5, <2>6, <2>7, <2>8
<1>6. CASE Shutdown
  BY <1>6 DEF Shutdown, TypeOK, Keyed, Timely, Remembered
<1>7. CASE Tick
  <2>1. TypeOK' /\ Keyed' /\ Timely'
    BY <1>7 DEF Tick, SweepDue, TypeOK, CachedConfig, Keyed, Timely
  <2>2. Remembered'
    BY <1>7 DEF Tick, TypeOK, Remembered
  <2>3. QED BY <2>1, <2>2
<1>8. CASE UNCHANGED vars
  BY <1>8 DEF vars, TypeOK, Keyed, Timely, Remembered
<1>9. QED
  BY <1>1, <1>2, <1>3, <1>4, <1>5, <1>6, <1>7, <1>8 DEF Next

\* Every variable keeps its type.
THEOREM TypeCorrect == Spec => []TypeOK
<1>1. Inv => TypeOK
  BY DEF Inv
<1>2. QED
  BY <1>1, InvInit, InvStep, PTL DEF Spec

\* Whatever builds overlap, a worker is given the config of its own connection:
\* the entry it found or stored has its key, and the key tells connections
\* apart whose colons are all in the endpoint.
THEOREM WorkersGetTheirConfig == Spec => []ServedOwnConfig
<1>1. Inv => ServedOwnConfig
  <2> SUFFICES ASSUME Inv, NEW w \in Workers,
                      pc[w] = "idle", served[w] # None,
                      Plain(asked[w]), Plain(served[w])
               PROVE  served[w] = asked[w]
    BY DEF ServedOwnConfig
  <2>1. served[w] \in Params /\ asked[w] \in Params
    BY DEF Inv, TypeOK, Keyed
  <2>2. Key(served[w]) = Key(asked[w])
    BY DEF Inv, Keyed
  <2>3. QED BY <2>1, <2>2, ParamsAssumption, KeyTellsApart
<1>2. QED
  BY <1>1, InvInit, InvStep, PTL DEF Spec

\* While the cleanup task runs, no entry is ever idle for a lifetime and an
\* interval.
THEOREM IdleTimeIsBounded == Spec => []IdleBound
<1>1. Inv => IdleBound
  BY TimeAssumption DEF Inv, Timely, IdleBound, TypeOK, CachedConfig
<1>2. QED
  BY <1>1, InvInit, InvStep, PTL DEF Spec

\* A connection that was used within a lifetime is in the pool, whatever builds
\* overlapped: each use is recorded in the entry it leaves there, and a sweep
\* takes only entries whose record is older.
THEOREM UsesKeepEntries == Spec => []UsedStaysPooled
<1>1. Inv => UsedStaysPooled
  <2> SUFFICES ASSUME Inv, NEW k \in Keys, usedAt[k] # None,
                      now - usedAt[k] < Ttl, k \notin DOMAIN pool
               PROVE  FALSE
    BY DEF UsedStaysPooled
  <2>1. usedAt[k] \in Nat /\ now \in Nat
    BY DEF Inv, TypeOK
  <2>2. now - usedAt[k] >= Ttl
    BY DEF Inv, Remembered
  <2>3. QED BY <2>1, <2>2, TimeAssumption
<1>2. QED
  BY <1>1, InvInit, InvStep, PTL DEF Spec
=============================================================================
