------------------------------ MODULE Pipeline ------------------------------
(***************************************************************************)
(* The plugin process of src/main.rs: a reader task that turns stdin lines *)
(* into requests on a bounded queue, a pool of workers that share the one  *)
(* receiver of the queue behind a mutex, a writer task that drains an      *)
(* unbounded response channel into stdout, and the shutdown of main.       *)
(*                                                                         *)
(* A line is an identity: the host writes each at most once.  What the     *)
(* pipeline does with it depends only on the class it belongs to (blank,   *)
(* not UTF-8, handler panics, anything else), given by the constants.      *)
(*                                                                         *)
(* Nothing closes the request queue early: main keeps its own Arc of the   *)
(* receiver until it returns, so the send of run_reader waits but never    *)
(* fails, and its error branch (main.rs:74-76) is not an action.           *)
(***************************************************************************)
EXTENDS Sequences, FiniteSets, Functions

CONSTANTS
  Lines,      \* lines the host may write to stdin
  Blank,      \* lines that are empty once trimmed
  Garbled,    \* lines that are not UTF-8: next_line returns Err
  Fatal,      \* requests whose handler panics
  Workers,    \* the WORKER_POOL_SIZE worker tasks
  Capacity,   \* REQUEST_QUEUE_CAPACITY
  None        \* no line, no worker

ASSUME LinesAssumption ==
  /\ Blank \subseteq Lines
  /\ Garbled \subseteq Lines \ Blank
  /\ Fatal \subseteq Lines \ (Blank \union Garbled)
  /\ None \notin Lines \union Workers

ASSUME WorkersAssumption == IsFiniteSet(Workers) /\ Workers # {}

ASSUME CapacityAssumption == Capacity \in Nat \ {0}

Requests == Lines \ (Blank \union Garbled)

VARIABLES
  stdin,      \* lines written by the host and not read yet
  stdinOpen,  \* the host has not closed its end of stdin
  written,    \* lines the host has written so far
  stdoutOpen, \* the host still reads our stdout
  stdout,     \* responses the host received, in order
  reader,     \* "reading", "sending" a request, "done" (req_tx is dropped)
  held,       \* the request the reader is sending
  queue,      \* the bounded request channel
  rxLock,     \* worker that holds the mutex around the receiver
  worker,     \* state of each worker task
  job,        \* the request each worker handles
  responses,  \* the unbounded response channel
  writer,     \* "waiting", "writing" a response, "done" (resp_rx is dropped)
  body,       \* the response the writer is writing
  main,       \* what main waits for
  cleanup,    \* the pool cleanup task: "running" or "done"
  accepted,   \* history: requests the reader has taken from stdin
  lost        \* history: accepted requests that will not be answered

hostVars   == <<stdin, stdinOpen, written, stdoutOpen>>
readerVars == <<reader, held, accepted>>
workerVars == <<rxLock, worker, job>>
writerVars == <<stdout, writer, body>>
mainVars   == <<main, cleanup>>
vars == <<hostVars, readerVars, queue, workerVars, responses, writerVars,
          mainVars, lost>>

WorkerStates == {"locking", "receiving", "handling", "exited", "panicked"}
MainStates == {"reader", "workers", "writer", "cleanup", "returned"}

Ended(w) == worker[w] \in {"exited", "panicked"}
AllEnded == \A w \in Workers : Ended(w)
AllPanicked == \A w \in Workers : worker[w] = "panicked"

(***************************************************************************)
(* All tasks are spawned before the reader runs (main.rs:17-33).           *)
(***************************************************************************)
Init ==
  /\ stdin = <<>> /\ stdinOpen = TRUE /\ written = {}
  /\ stdoutOpen = TRUE /\ stdout = <<>>
  /\ reader = "reading" /\ held = None
  /\ queue = <<>> /\ responses = <<>>
  /\ rxLock = None
  /\ worker = [w \in Workers |-> "locking"]
  /\ job = [w \in Workers |-> None]
  /\ writer = "waiting" /\ body = None
  /\ main = "reader" /\ cleanup = "running"
  /\ accepted = {} /\ lost = {}

(***************************************************************************)
(* The host: it writes lines, closes stdin, stops reading stdout.          *)
(***************************************************************************)
HostWrites(l) ==
  /\ stdinOpen
  /\ l \notin written
  /\ stdin' = Append(stdin, l)
  /\ written' = written \union {l}
  /\ UNCHANGED <<stdinOpen, stdoutOpen, readerVars, queue, workerVars,
                 responses, writerVars, mainVars, lost>>

HostClosesStdin ==
  /\ stdinOpen
  /\ stdinOpen' = FALSE
  /\ UNCHANGED <<stdin, written, stdoutOpen, readerVars, queue, workerVars,
                 responses, writerVars, mainVars, lost>>

HostClosesStdout ==
  /\ stdoutOpen
  /\ stdoutOpen' = FALSE
  /\ UNCHANGED <<stdin, stdinOpen, written, readerVars, queue, workerVars,
                 responses, writerVars, mainVars, lost>>

(***************************************************************************)
(* run_reader                                                              *)
(***************************************************************************)
ReadLine ==
  /\ reader = "reading"
  /\ stdin # <<>>
  /\ Head(stdin) \notin Garbled
  /\ stdin' = Tail(stdin)
  /\ IF Head(stdin) \in Blank
       THEN UNCHANGED readerVars
       ELSE /\ reader' = "sending"
            /\ held' = Head(stdin)
            /\ accepted' = accepted \union {Head(stdin)}
  /\ UNCHANGED <<stdinOpen, written, stdoutOpen, queue, workerVars,
                 responses, writerVars, mainVars, lost>>

\* Faulty variant: an unbounded request channel.
EnqueueUnbounded ==
  /\ reader = "sending"
  /\ queue' = Append(queue, held)
  /\ reader' = "reading"
  /\ held' = None
  /\ UNCHANGED <<hostVars, accepted, workerVars, responses, writerVars,
                 mainVars, lost>>

\* send waits for a free slot: this is the backpressure on stdin.
Enqueue ==
  /\ reader = "sending"
  /\ Len(queue) < Capacity
  /\ queue' = Append(queue, held)
  /\ reader' = "reading"
  /\ held' = None
  /\ UNCHANGED <<hostVars, accepted, workerVars, responses, writerVars,
                 mainVars, lost>>

\* End of input, or a read error: a line that is not UTF-8 is one.  What the
\* host wrote behind such a line is never read.
StopReading ==
  /\ reader = "reading"
  /\ IF stdin = <<>> THEN ~stdinOpen ELSE Head(stdin) \in Garbled
  /\ reader' = "done"
  /\ UNCHANGED <<hostVars, held, accepted, queue, workerVars, responses,
                 writerVars, mainVars, lost>>

(***************************************************************************)
(* run_worker: the mutex is held across the wait for a request, so one     *)
(* worker waits on the queue and the others wait for the mutex.            *)
(***************************************************************************)
LockReceiver(w) ==
  /\ worker[w] = "locking"
  /\ rxLock = None
  /\ rxLock' = w
  /\ worker' = [worker EXCEPT ![w] = "receiving"]
  /\ UNCHANGED <<hostVars, readerVars, queue, job, responses, writerVars,
                 mainVars, lost>>

\* Faulty variant: the request is read without being removed.
ReceivePeeks(w) ==
  /\ worker[w] = "receiving"
  /\ queue # <<>>
  /\ job' = [job EXCEPT ![w] = Head(queue)]
  /\ rxLock' = None
  /\ worker' = [worker EXCEPT ![w] = "handling"]
  /\ UNCHANGED <<hostVars, readerVars, queue, responses, writerVars, mainVars,
                 lost>>

Receive(w) ==
  /\ worker[w] = "receiving"
  /\ queue # <<>>
  /\ job' = [job EXCEPT ![w] = Head(queue)]
  /\ queue' = Tail(queue)
  /\ rxLock' = None
  /\ worker' = [worker EXCEPT ![w] = "handling"]
  /\ UNCHANGED <<hostVars, readerVars, responses, writerVars, mainVars, lost>>

LeaveReceiver(w, cond) ==
  /\ worker[w] = "receiving"
  /\ cond
  /\ rxLock' = None
  /\ worker' = [worker EXCEPT ![w] = "exited"]
  /\ UNCHANGED <<hostVars, readerVars, queue, job, responses, writerVars,
                 mainVars, lost>>

\* Faulty variants: a worker that leaves when it finds the queue empty, and
\* one that leaves when the reader has ended although requests are queued.
ReceiveTries(w) == LeaveReceiver(w, queue = <<>>)
ReceiveAborts(w) == LeaveReceiver(w, reader = "done")

\* recv returns None: the reader has dropped the only sender and the queue
\* has been drained.
ReceiveClosed(w) == LeaveReceiver(w, queue = <<>> /\ reader = "done")

SendResponse(w) ==
  /\ worker[w] = "handling"
  /\ job[w] \notin Fatal
  /\ writer # "done"
  /\ responses' = Append(responses, job[w])
  /\ job' = [job EXCEPT ![w] = None]
  /\ worker' = [worker EXCEPT ![w] = "locking"]
  /\ UNCHANGED <<hostVars, readerVars, queue, rxLock, writerVars, mainVars,
                 lost>>

\* Faulty variant: a response channel with room for one.
RespondBounded(w) == responses = <<>> /\ SendResponse(w)

\* handle_line returns and its response goes to the writer; the channel has
\* no bound, so the send never waits.
Respond(w) == SendResponse(w)

\* The writer is gone: the response is dropped and the worker leaves.
RespondUnheard(w) ==
  /\ worker[w] = "handling"
  /\ job[w] \notin Fatal
  /\ writer = "done"
  /\ lost' = lost \union {job[w]}
  /\ job' = [job EXCEPT ![w] = None]
  /\ worker' = [worker EXCEPT ![w] = "exited"]
  /\ UNCHANGED <<hostVars, readerVars, queue, rxLock, responses, writerVars,
                 mainVars>>

\* A panic unwinds the worker task: no response is sent, and nobody respawns
\* the worker or looks at its JoinError.
Panic(w) ==
  /\ worker[w] = "handling"
  /\ job[w] \in Fatal
  /\ lost' = lost \union {job[w]}
  /\ job' = [job EXCEPT ![w] = None]
  /\ worker' = [worker EXCEPT ![w] = "panicked"]
  /\ UNCHANGED <<hostVars, readerVars, queue, rxLock, responses, writerVars,
                 mainVars>>

(***************************************************************************)
(* run_writer                                                              *)
(***************************************************************************)
TakeResponse ==
  /\ writer = "waiting"
  /\ responses # <<>>
  /\ body' = Head(responses)
  /\ responses' = Tail(responses)
  /\ writer' = "writing"
  /\ UNCHANGED <<hostVars, readerVars, queue, workerVars, stdout, mainVars,
                 lost>>

\* Faulty variant: a writer that leaves after one response.
WriteOnce ==
  /\ writer = "writing"
  /\ stdoutOpen
  /\ stdout' = Append(stdout, body)
  /\ body' = None
  /\ writer' = "done"
  /\ UNCHANGED <<hostVars, readerVars, queue, workerVars, responses,
                 mainVars, lost>>

Write ==
  /\ writer = "writing"
  /\ stdoutOpen
  /\ stdout' = Append(stdout, body)
  /\ body' = None
  /\ writer' = "waiting"
  /\ UNCHANGED <<hostVars, readerVars, queue, workerVars, responses,
                 mainVars, lost>>

\* tokio's stdout buffers: write_all succeeds, the failure comes out of the
\* flush, and the result of the flush is ignored.
WriteLost ==
  /\ writer = "writing"
  /\ ~stdoutOpen
  /\ lost' = lost \union {body}
  /\ body' = None
  /\ writer' = "waiting"
  /\ UNCHANGED <<hostVars, readerVars, queue, workerVars, responses, stdout,
                 mainVars>>

\* write_all itself fails (a body larger than the buffer): the writer leaves
\* and drops the response channel with everything in it.
WriteFails ==
  /\ writer = "writing"
  /\ ~stdoutOpen
  /\ lost' = lost \union {body} \union Range(responses)
  /\ body' = None
  /\ responses' = <<>>
  /\ writer' = "done"
  /\ UNCHANGED <<hostVars, readerVars, queue, workerVars, stdout, mainVars>>

LeaveChannel(cond) ==
  /\ writer = "waiting"
  /\ responses = <<>>
  /\ cond
  /\ writer' = "done"
  /\ UNCHANGED <<hostVars, readerVars, queue, workerVars, responses, stdout,
                 body, mainVars, lost>>

\* Faulty variants: a writer that leaves when it finds nothing to write, and
\* a main that does not drop its own sender (main.rs:32).
StopWritingEarly == LeaveChannel(TRUE)
StopWritingNever == LeaveChannel(main = "returned" /\ AllEnded)

\* recv returns None: every worker, hence every sender, is gone.
StopWriting == LeaveChannel(AllEnded)

(***************************************************************************)
(* main, and the shutdown branch of run_pool_cleanup.  main sends the      *)
(* shutdown signal as soon as the reader returns, so the cleanup task may  *)
(* be gone while workers still handle requests.                            *)
(***************************************************************************)
Join(from, cond, to) ==
  /\ main = from
  /\ cond
  /\ main' = to
  /\ UNCHANGED <<hostVars, readerVars, queue, workerVars, responses,
                 writerVars, cleanup, lost>>

\* Faulty variant: main does not wait for the writer.
SkipWriter == Join("writer", TRUE, "cleanup")

SignalShutdown == Join("reader", reader = "done", "workers")
JoinWorkers == Join("workers", AllEnded, "writer")
JoinWriter == Join("writer", writer = "done", "cleanup")
JoinCleanup == Join("cleanup", cleanup = "done", "returned")

EndCleanup(cond) ==
  /\ cleanup = "running"
  /\ cond
  /\ cleanup' = "done"
  /\ UNCHANGED <<hostVars, readerVars, queue, workerVars, responses,
                 writerVars, main, lost>>

\* Faulty variant: the cleanup task does not watch the shutdown channel.
CleanupForever == EndCleanup(main = "returned")
StopCleanup == EndCleanup(main # "reader")

(***************************************************************************)
(* The specification                                                       *)
(***************************************************************************)
Host ==
  \/ \E l \in Lines : HostWrites(l)
  \/ HostClosesStdin
  \/ HostClosesStdout

Reader == ReadLine \/ Enqueue \/ StopReading

Worker(w) ==
  \/ LockReceiver(w)
  \/ Receive(w)
  \/ ReceiveClosed(w)
  \/ Respond(w)
  \/ RespondUnheard(w)
  \/ Panic(w)

Writer == TakeResponse \/ Write \/ WriteLost \/ WriteFails \/ StopWriting

Main == SignalShutdown \/ JoinWorkers \/ JoinWriter \/ JoinCleanup

Next ==
  \/ Host
  \/ Reader
  \/ \E w \in Workers : Worker(w)
  \/ Writer
  \/ Main
  \/ StopCleanup

Spec == Init /\ [][Next]_vars

\* The runtime polls every task that can run, and a handler returns or panics
\* eventually.  The host owes nothing.
Fairness ==
  /\ WF_vars(Reader)
  /\ \A w \in Workers : WF_vars(Worker(w))
  /\ WF_vars(Writer)
  /\ WF_vars(Main)
  /\ WF_vars(StopCleanup)

FairSpec == Spec /\ Fairness

(***************************************************************************)
(* Where a request can be, in the order it travels.                        *)
(***************************************************************************)
Held == {held} \ {None}
Queued == Range(queue)
Handling == {job[w] : w \in Workers} \ {None}
Responding == Range(responses)
Writing == {body} \ {None}
Answered == Range(stdout)

\* Nobody is left to take a request and the reader waits for room: it never
\* looks at stdin again, not even to notice its end.
Stranded == reader = "sending" /\ Len(queue) = Capacity /\ AllEnded

(***************************************************************************)
(* Safety properties                                                       *)
(***************************************************************************)

\* Types of the variables, and the size of the request channel of main.rs:23.
TypeOK ==
  /\ stdin \in Seq(Lines)
  /\ stdinOpen \in BOOLEAN
  /\ written \in SUBSET Lines
  /\ stdoutOpen \in BOOLEAN
  /\ stdout \in Seq(Requests)
  /\ reader \in {"reading", "sending", "done"}
  /\ held \in Requests \union {None}
  /\ queue \in Seq(Requests) /\ Len(queue) <= Capacity
  /\ rxLock \in Workers \union {None}
  /\ worker \in [Workers -> WorkerStates]
  /\ job \in [Workers -> Requests \union {None}]
  /\ responses \in Seq(Requests)
  /\ writer \in {"waiting", "writing", "done"}
  /\ body \in Requests \union {None}
  /\ main \in MainStates
  /\ cleanup \in {"running", "done"}
  /\ accepted \in SUBSET Requests
  /\ lost \in SUBSET Requests

\* Every request the reader has taken is in exactly one place between the
\* reader and the host: no request is handled twice, answered twice or
\* forgotten, whatever the workers and the writer do (main.rs:80-114).
OnePlace ==
  /\ accepted = Held \union Queued \union Handling \union Responding
                  \union Writing \union Answered \union lost
  /\ Held \intersect (Queued \union Handling \union Responding
                        \union Writing \union Answered \union lost) = {}
  /\ Queued \intersect (Handling \union Responding \union Writing
                          \union Answered \union lost) = {}
  /\ Handling \intersect (Responding \union Writing \union Answered
                            \union lost) = {}
  /\ Responding \intersect (Writing \union Answered \union lost) = {}
  /\ Writing \intersect (Answered \union lost) = {}
  /\ Answered \intersect lost = {}
  /\ IsInjective(queue) /\ IsInjective(responses) /\ IsInjective(stdout)
  /\ \A v, w \in Workers : job[v] = job[w] /\ job[v] # None => v = w

\* The accepted requests that no worker is left to take: those on the queue and
\* the one the reader holds.  They are not lost, but nobody will answer them.
Forsaken == IF AllEnded THEN Held \union Queued ELSE {}

\* No request goes unanswered for good without a cause.  One that was taken is
\* lost only to its own panic or to a host that stopped reading: a panic takes
\* no other worker's request with it, and shutdown drops nothing.  One that
\* still waits is forsaken only by a crew that panicked to the last worker, or
\* that left because the host stopped reading: no worker leaves before the
\* reader while somebody listens (main.rs:84-101, 109).
LossesExcused ==
  /\ lost \subseteq Fatal \/ ~stdoutOpen
  /\ Forsaken # {} => AllPanicked \/ ~stdoutOpen

\* When main returns to a host that still listens and one worker survived,
\* the host holds the response of every request the reader accepted, those
\* that panicked excepted: the joins of main.rs:38-42 drain the pipeline.
CleanReturn ==
  (main = "returned" /\ stdoutOpen /\ ~AllPanicked)
    => Answered = accepted \ Fatal

\* The reader is stranded on a full queue only behind a crew that panicked to
\* the last worker or a host that closed our stdout (main.rs:74, 99).
StrandedExcused == Stranded => AllPanicked \/ ~stdoutOpen

\* A task holds a request exactly while it is in the state that serves one.
Occupied ==
  /\ held # None <=> reader = "sending"
  /\ \A w \in Workers : job[w] # None <=> worker[w] = "handling"
  /\ body # None <=> writer = "writing"

\* What ties the tasks together, and makes the properties above inductive:
\* the writer outlives the workers and a worker outlives the queue, unless
\* the host closed stdout; main joins in the order of main.rs:36-42; a
\* panicking request has no response; a line leaves stdin for good.
Control ==
  /\ Occupied
  /\ writer = "done" => responses = <<>> /\ (AllEnded \/ ~stdoutOpen)
  /\ \A w \in Workers : worker[w] = "exited" =>
       (reader = "done" /\ queue = <<>>) \/ ~stdoutOpen
  /\ main # "reader" => reader = "done"
  /\ main \in {"writer", "cleanup", "returned"} => AllEnded
  /\ main \in {"cleanup", "returned"} => writer = "done"
  /\ Fatal \intersect (Responding \union Writing \union Answered) = {}
  /\ IsInjective(stdin)
  /\ Range(stdin) \intersect accepted = {}
  /\ Range(stdin) \union accepted \subseteq written

\* A queued request never waits for the host: some worker can go on unless all
\* have ended, even when nobody takes a response, because the response channel
\* has no bound and a worker gives up the receiver before it handles a request
\* (main.rs:26, 85-91).
IntakeNeverStalls ==
  queue # <<>> => AllEnded \/ \E w \in Workers : ENABLED Worker(w)

\* The pipeline implements the service it promises: see RequestService.
Service == INSTANCE RequestService WITH
  CrewSize  <- Cardinality(Workers),
  pending   <- accepted \ (Answered \union lost),
  answered  <- Answered,
  dropped   <- lost,
  crew      <- Cardinality({w \in Workers : worker[w] # "panicked"}),
  listening <- stdoutOpen,
  over      <- main = "returned"

ImplementsService == Service!Spec

(***************************************************************************)
(* Liveness properties, under FairSpec                                     *)
(***************************************************************************)

\* A request taken from stdin is answered, or lost for a reason that
\* LossesExcused names, unless every worker has ended; then it is forsaken, for
\* a reason that LossesExcused names, too (main.rs:84-102).
EveryRequestSettled ==
  \A r \in Requests :
    r \in accepted ~> r \in Answered \union lost \/ AllEnded

\* Against a host that listens and a crew that outnumbers the requests that
\* panic, every request is answered or was the one that panicked.
EveryRequestAnswered ==
  \A r \in Requests :
    r \in accepted ~> \/ r \in Answered
                      \/ r \in lost /\ r \in Fatal
                      \/ AllPanicked \/ ~stdoutOpen

\* Once the host closes stdin the process returns, however many requests are
\* still queued or being handled, unless the reader is stranded.
ReturnsAtEndOfInput == ~stdinOpen ~> main = "returned" \/ Stranded
=============================================================================
