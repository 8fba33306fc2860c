--------------------------- MODULE RequestService ---------------------------
(***************************************************************************)
(* What the plugin process promises to the host, without readers, queues   *)
(* or workers: a request it has accepted is answered at most once, in any  *)
(* order, and is never dropped silently.  Three faults excuse a missing    *)
(* answer: the handler of that very request crashed, every member of the   *)
(* crew that serves requests has crashed, or the host stopped listening.   *)
(***************************************************************************)
EXTENDS Naturals

CONSTANTS
  Requests,   \* requests the host may send
  Fatal,      \* the requests whose handling crashes the server of it
  CrewSize    \* how many servers there are

VARIABLES
  pending,    \* accepted and neither answered nor dropped
  answered,   \* answered: the host has the response
  dropped,    \* will never be answered
  crew,       \* servers that have not crashed
  listening,  \* the host still reads responses
  over        \* the process has returned

vars == <<pending, answered, dropped, crew, listening, over>>

Init ==
  /\ pending = {}
  /\ answered = {}
  /\ dropped = {}
  /\ crew = CrewSize
  /\ listening = TRUE
  /\ over = FALSE

Accept(r) ==
  /\ ~over
  /\ r \notin pending \union answered \union dropped
  /\ pending' = pending \union {r}
  /\ UNCHANGED <<answered, dropped, crew, listening, over>>

\* The only step that produces an answer: of one pending request, once.
Answer(r) ==
  /\ ~over
  /\ listening
  /\ r \in pending
  /\ pending' = pending \ {r}
  /\ answered' = answered \union {r}
  /\ UNCHANGED <<dropped, crew, listening, over>>

\* A crash costs its own request and one server, nothing else.
Crash(r) ==
  /\ ~over
  /\ r \in pending \intersect Fatal
  /\ crew > 0
  /\ crew' = crew - 1
  /\ pending' = pending \ {r}
  /\ dropped' = dropped \union {r}
  /\ UNCHANGED <<answered, listening, over>>

HangUp ==
  /\ listening
  /\ listening' = FALSE
  /\ UNCHANGED <<pending, answered, dropped, crew, over>>

\* Responses may be thrown away only when nobody listens any more.
Discard(R) ==
  /\ ~over
  /\ ~listening
  /\ R \subseteq pending
  /\ pending' = pending \ R
  /\ dropped' = dropped \union R
  /\ UNCHANGED <<answered, crew, listening, over>>

\* The process returns once it owes nothing to a host that listens, unless
\* nobody is left to serve.
Finish ==
  /\ ~over
  /\ pending = {} \/ crew = 0 \/ ~listening
  /\ over' = TRUE
  /\ UNCHANGED <<pending, answered, dropped, crew, listening>>

Next ==
  \/ \E r \in Requests : Accept(r) \/ Answer(r) \/ Crash(r)
  \/ \E R \in SUBSET Requests : Discard(R)
  \/ HangUp
  \/ Finish

Spec == Init /\ [][Next]_vars
=============================================================================
