----------------------------- MODULE ConfigPool -----------------------------
(***************************************************************************)
(* The process-wide pool of AWS SDK configs (src/dynamodb/pool.rs) as the  *)
(* workers and the cleanup task of main.rs use it.  A worker that misses   *)
(* builds its config outside the lock, over an await, so several workers   *)
(* may build for the same key and the last insert stays.                   *)
(*                                                                         *)
(* A config is identified by the connection it was built from.  Time passes *)
(* in units of which Ttl is POOL_TTL and Interval is                       *)
(* POOL_CLEANUP_INTERVAL; the timer of the cleanup task is assumed to fire *)
(* within the unit it is due.                                              *)
(***************************************************************************)
EXTENDS CacheKey

CONSTANTS
  Workers,
  Params,     \* connections: the arguments get_config is called with
  Ttl,
  Interval,
  MaxTime,    \* bound: the last instant explored
  None

ASSUME ParamsAssumption == Params \subseteq Fields

ASSUME TimeAssumption ==
  /\ Ttl \in Nat \ {0}
  /\ Interval \in Nat \ {0}
  /\ MaxTime \in Nat

ASSUME NoneAssumption == None \notin Params

Keys == {Key(p) : p \in Params}
CachedConfig == [config : Params, lastUsed : Nat]

VARIABLES
  now,
  pool,       \* CONFIG_POOL: a function from the keys it holds
  pc,         \* each worker: "idle", "building", "built"
  asked,      \* the parameters each worker wants a config for
  built,      \* the config each worker has built and not stored
  served,     \* history: the config each worker was given last
  usedAt,     \* history: when a worker was last given a config of each key
  cleanup,    \* the cleanup task: "running" or "done"
  nextSweep   \* when the timer of the cleanup task fires next

vars == <<now, pool, pc, asked, built, served, usedAt, cleanup, nextSweep>>

\* The first tick of a tokio interval completes at once.
Init ==
  /\ now = 0
  /\ pool = [k \in {} |-> None]
  /\ pc = [w \in Workers |-> "idle"]
  /\ asked = [w \in Workers |-> None]
  /\ built = [w \in Workers |-> None]
  /\ served = [w \in Workers |-> None]
  /\ usedAt = [k \in Keys |-> None]
  /\ cleanup = "running" /\ nextSweep = 0

\* pool with k mapped to entry, whether or not it held k.
With(k, entry) ==
  [x \in DOMAIN pool \union {k} |-> IF x = k THEN entry ELSE pool[x]]

(***************************************************************************)
(* get_config                                                              *)
(***************************************************************************)

\* Faulty variant: a hit leaves the entry as old as it is.
HitUntouched(w, p) ==
  LET k == Key(p) IN
  /\ pc[w] = "idle"
  /\ k \in DOMAIN pool
  /\ asked' = [asked EXCEPT ![w] = p]
  /\ served' = [served EXCEPT ![w] = pool[k].config]
  /\ usedAt' = [usedAt EXCEPT ![k] = now]
  /\ UNCHANGED <<now, pool, pc, built, cleanup, nextSweep>>

\* The key is in the pool: the entry is touched and its config returned, both
\* under the lock.  How long it was unused is not looked at.
Hit(w, p) ==
  LET k == Key(p) IN
  /\ pc[w] = "idle"
  /\ k \in DOMAIN pool
  /\ pool' = With(k, [pool[k] EXCEPT !.lastUsed = now])
  /\ asked' = [asked EXCEPT ![w] = p]
  /\ served' = [served EXCEPT ![w] = pool[k].config]
  /\ usedAt' = [usedAt EXCEPT ![k] = now]
  /\ UNCHANGED <<now, pc, built, cleanup, nextSweep>>

\* The lock is released before the config is built.
Miss(w, p) ==
  /\ pc[w] = "idle"
  /\ Key(p) \notin DOMAIN pool
  /\ pc' = [pc EXCEPT ![w] = "building"]
  /\ asked' = [asked EXCEPT ![w] = p]
  /\ UNCHANGED <<now, pool, built, served, usedAt, cleanup, nextSweep>>

\* Faulty variant: nothing is built.
LoadNothing(w) ==
  /\ pc[w] = "building"
  /\ pc' = [pc EXCEPT ![w] = "built"]
  /\ UNCHANGED <<now, pool, asked, built, served, usedAt, cleanup, nextSweep>>

\* The config is built from the arguments, over an await (pool.rs:72).
Load(w) ==
  /\ pc[w] = "building"
  /\ built' = [built EXCEPT ![w] = asked[w]]
  /\ pc' = [pc EXCEPT ![w] = "built"]
  /\ UNCHANGED <<now, pool, asked, served, usedAt, cleanup, nextSweep>>

\* The worker leaves with the config it has built.
Deliver(w) ==
  /\ pc[w] = "built"
  /\ served' = [served EXCEPT ![w] = built[w]]
  /\ usedAt' = [usedAt EXCEPT ![Key(asked[w])] = now]
  /\ pc' = [pc EXCEPT ![w] = "idle"]
  /\ built' = [built EXCEPT ![w] = None]
  /\ UNCHANGED <<now, asked, cleanup, nextSweep>>

\* Faulty variants: the key is taken from what any worker asked for last, as a
\* key kept in shared state would be; what another worker stored meanwhile is
\* left as it is.
StoreUnderAnyKey(w) ==
  /\ Deliver(w)
  /\ \E v \in Workers :
       /\ asked[v] # None
       /\ pool' = With(Key(asked[v]), [config |-> built[w], lastUsed |-> now])
StoreIfAbsent(w) ==
  /\ Deliver(w)
  /\ pool' = IF Key(asked[w]) \in DOMAIN pool THEN pool
             ELSE With(Key(asked[w]), [config |-> built[w], lastUsed |-> now])

\* The insert overwrites what another worker stored meanwhile.
Store(w) ==
  /\ Deliver(w)
  /\ pool' = With(Key(asked[w]), [config |-> built[w], lastUsed |-> now])

(***************************************************************************)
(* run_pool_cleanup and cleanup_pools                                      *)
(***************************************************************************)
Retain(fresh) == [k \in fresh |-> pool[k]]

SweepDue == cleanup = "running" /\ nextSweep <= now

SweepKeeping(fresh) ==
  /\ SweepDue
  /\ pool' = Retain(fresh)
  /\ nextSweep' = nextSweep + Interval
  /\ UNCHANGED <<now, pc, asked, built, served, usedAt, cleanup>>

\* Faulty variant: entries as old as two lifetimes are kept.
SweepLate == SweepKeeping({k \in DOMAIN pool : now - pool[k].lastUsed < 2 * Ttl})

Sweep == SweepKeeping({k \in DOMAIN pool : now - pool[k].lastUsed < Ttl})

\* main has sent the shutdown signal: nothing is evicted any more, although
\* the workers may still be handling requests.
Shutdown ==
  /\ cleanup = "running"
  /\ cleanup' = "done"
  /\ UNCHANGED <<now, pool, pc, asked, built, served, usedAt, nextSweep>>

(***************************************************************************)
(* The world                                                               *)
(***************************************************************************)
\* A sweep that is due happens before time goes on.
Tick ==
  /\ now < MaxTime
  /\ ~SweepDue
  /\ now' = now + 1
  /\ UNCHANGED <<pool, pc, asked, built, served, usedAt, cleanup, nextSweep>>

Next ==
  \/ \E w \in Workers, p \in Params : Hit(w, p) \/ Miss(w, p)
  \/ \E w \in Workers : Load(w) \/ Store(w)
  \/ Sweep
  \/ Shutdown
  \/ Tick

Spec == Init /\ [][Next]_vars

(***************************************************************************)
(* Properties                                                              *)
(***************************************************************************)

\* Types of the variables.
TypeOK ==
  /\ now \in Nat /\ nextSweep \in Nat
  /\ DOMAIN pool \subseteq Keys
  /\ \A k \in DOMAIN pool : pool[k] \in CachedConfig
  /\ pc \in [Workers -> {"idle", "building", "built"}]
  /\ asked \in [Workers -> Params \union {None}]
  /\ built \in [Workers -> Params \union {None}]
  /\ served \in [Workers -> Params \union {None}]
  /\ usedAt \in [Keys -> Nat \union {None}]
  /\ cleanup \in {"running", "done"}

\* Whatever builds overlap and whatever overwrites what, a worker is given the
\* config of its own connection, credentials included, if of the connections
\* only the endpoints have colons: between the check and the insert of one
\* worker the entry may come, go and be replaced by others, and two connections
\* share an entry when the texts of their fields join to one key
\* (pool.rs:33-106).
ServedOwnConfig ==
  \A w \in Workers :
    /\ pc[w] = "idle" /\ served[w] # None
    /\ Plain(asked[w]) /\ Plain(served[w])
    => served[w] = asked[w]

\* While the cleanup task runs, no entry stays unused for POOL_TTL plus one
\* cleanup interval: with the constants of the code, 40 minutes.
IdleBound ==
  cleanup = "running"
    => \A k \in DOMAIN pool : now - pool[k].lastUsed < Ttl + Interval

\* A connection somebody was given a config for within POOL_TTL is in the pool:
\* its next request builds nothing, whoever makes it.  Two workers may have built
\* for the key at once, one insert may have replaced the other, hits and sweeps
\* may have come between, and the instant of the last use has survived all of it
\* (pool.rs:43-50, 95-104, 110-113; README.md:170).
UsedStaysPooled ==
  \A k \in Keys :
    usedAt[k] # None /\ now - usedAt[k] < Ttl => k \in DOMAIN pool
=============================================================================
