------------------------------ MODULE Settings ------------------------------
(***************************************************************************)
(* The process-wide default region (src/settings.rs), written by           *)
(* `initialize` requests and read by requests whose connection names no    *)
(* region, as the workers of Pipeline handle both kinds side by side.      *)
(*                                                                         *)
(* The value of the setting is the initialize request it comes from, None  *)
(* before the first: one without a region stores "no default", which is a  *)
(* value like any other here.  A request reads or writes the setting once, *)
(* under the RwLock, at some moment while a worker handles it.             *)
(***************************************************************************)
EXTENDS Pipeline

CONSTANT Inits   \* the requests whose method is initialize

ASSUME InitsAssumption == Inits \subseteq Requests

VARIABLES
  region,     \* SETTINGS: the request whose region is the default
  effected,   \* history: requests that have read or written the setting
  used,       \* history: the setting each request has read
  seen        \* history: the responses the host had when it wrote each line

settingsVars == <<region, effected, used, seen>>
allVars == <<vars, settingsVars>>

SInit ==
  /\ Init
  /\ region = None
  /\ effected = {}
  /\ used = [l \in Lines |-> None]
  /\ seen = [l \in Lines |-> {}]

SHostWrites(l) ==
  /\ HostWrites(l)
  /\ seen' = [seen EXCEPT ![l] = Answered]
  /\ UNCHANGED <<region, effected, used>>

\* Faulty variant: the first region stays, as in a cell that is set once.
ApplyOnce(w) ==
  /\ worker[w] = "handling"
  /\ job[w] \in Inits \ effected
  /\ region' = IF region = None THEN job[w] ELSE region
  /\ effected' = effected \union {job[w]}
  /\ UNCHANGED <<vars, used, seen>>

\* apply_initialize overwrites whatever is stored.
ApplyInitialize(w) ==
  /\ worker[w] = "handling"
  /\ job[w] \in Inits \ effected
  /\ region' = job[w]
  /\ effected' = effected \union {job[w]}
  /\ UNCHANGED <<vars, used, seen>>

\* Faulty variant: the read gives up while an initialize is being handled.
ReadUncontended(w) ==
  /\ worker[w] = "handling"
  /\ job[w] \notin Inits \union effected
  /\ used' = [used EXCEPT ![job[w]] =
                IF \E v \in Workers : job[v] \in Inits THEN None ELSE region]
  /\ effected' = effected \union {job[w]}
  /\ UNCHANGED <<vars, region, seen>>

\* normalized_params falls back to default_region.
ReadRegion(w) ==
  /\ worker[w] = "handling"
  /\ job[w] \notin Inits \union effected
  /\ used' = [used EXCEPT ![job[w]] = region]
  /\ effected' = effected \union {job[w]}
  /\ UNCHANGED <<vars, region, seen>>

\* Faulty variant: initialize is answered before it is applied.
RespondFirst(w) == Respond(w) /\ UNCHANGED settingsVars

SRespond(w) == job[w] \in effected /\ Respond(w) /\ UNCHANGED settingsVars
SRespondUnheard(w) ==
  job[w] \in effected /\ RespondUnheard(w) /\ UNCHANGED settingsVars

SOther ==
  /\ \/ HostClosesStdin
     \/ HostClosesStdout
     \/ Reader
     \/ \E w \in Workers :
          LockReceiver(w) \/ Receive(w) \/ ReceiveClosed(w) \/ Panic(w)
     \/ Writer
     \/ Main
     \/ StopCleanup
  /\ UNCHANGED settingsVars

SNext ==
  \/ \E l \in Lines : SHostWrites(l)
  \/ \E w \in Workers :
       ApplyInitialize(w) \/ ReadRegion(w) \/ SRespond(w) \/ SRespondUnheard(w)
  \/ SOther

SSpec == SInit /\ [][SNext]_allVars

(***************************************************************************)
(* Properties.  The host knows an order only where it has waited: l comes  *)
(* before m when the host had the response to l as it wrote m.             *)
(***************************************************************************)
Precedes(l, m) == l \in seen[m]

\* Types of the variables added to Pipeline.
SettingsTypeOK ==
  /\ region \in Inits \union {None}
  /\ effected \in SUBSET Requests
  /\ used \in [Lines -> Inits \union {None}]
  /\ seen \in [Lines -> SUBSET Requests]

\* A host that waits for initialize gets its region: a request written after
\* the response to initialize j neither finds the setting empty nor uses one
\* that j replaced, on whichever workers the two ran (settings.rs:26-44).
NoSupersededRegion ==
  \A c \in effected \ Inits, j \in Inits :
    Precedes(j, c) => used[c] # None /\ ~Precedes(used[c], j)

\* Two requests of which the second was written after the response to the
\* first never see two initializes, written one after the other, in the
\* wrong order.
NoRegionInversion ==
  \A c, d \in effected \ Inits :
    Precedes(c, d) /\ used[c] # None
      => used[d] # None /\ ~Precedes(used[d], used[c])
=============================================================================
