-------------------------- MODULE Pipeline_proofs ---------------------------
(***************************************************************************)
(* Proofs about Pipeline: its types, the conservation of requests, the     *)
(* clean shutdown, and the implementation of RequestService, for every set *)
(* of lines, every finite crew and every capacity of the queue; and about  *)
(* Settings, which composes it with the default region.                    *)
(***************************************************************************)
EXTENDS Settings, SequenceTheorems, FiniteSetTheorems, TLAPS

(***************************************************************************)
(* Sequences used as channels                                              *)
(***************************************************************************)

\* What a send does to a channel: one more element, at the end.
LEMMA AppendFacts ==
  ASSUME NEW S, NEW s \in Seq(S), NEW e \in S
  PROVE  /\ Append(s, e) \in Seq(S)
         /\ Len(Append(s, e)) = Len(s) + 1
         /\ Range(Append(s, e)) = Range(s) \union {e}
         /\ IsInjective(s) /\ e \notin Range(s) => IsInjective(Append(s, e))
<1>1. /\ Append(s, e) \in Seq(S)
      /\ Len(Append(s, e)) = Len(s) + 1
      /\ DOMAIN Append(s, e) = 1 .. Len(s) + 1
      /\ \A i \in 1 .. Len(s) : Append(s, e)[i] = s[i]
      /\ Append(s, e)[Len(s) + 1] = e
  BY AppendProperties
<1>2. DOMAIN s = 1 .. Len(s) /\ Len(s) \in Nat
  BY LenProperties
<1>3. Range(Append(s, e)) = Range(s) \union {e}
  BY <1>1, <1>2 DEF Range
<1>4. IsInjective(s) /\ e \notin Range(s) => IsInjective(Append(s, e))
  BY <1>1, <1>2 DEF IsInjective, Range
<1>5. QED BY <1>1, <1>3, <1>4

\* What a receive does to a channel without repetitions: it takes the head
\* away.
LEMMA TailFacts ==
  ASSUME NEW S, NEW s \in Seq(S), s # <<>>
  PROVE  /\ Head(s) \in S /\ Head(s) \in Range(s)
         /\ Tail(s) \in Seq(S)
         /\ Len(Tail(s)) = Len(s) - 1
         /\ Range(Tail(s)) \subseteq Range(s)
         /\ IsInjective(s) => /\ IsInjective(Tail(s))
                              /\ Range(Tail(s)) = Range(s) \ {Head(s)}
<1>1. /\ Tail(s) \in Seq(S)
      /\ Head(s) = s[1]
      /\ Len(Tail(s)) = Len(s) - 1
      /\ \A i \in 1 .. Len(s) - 1 : Tail(s)[i] = s[i + 1]
  BY HeadTailProperties
<1>2. DOMAIN s = 1 .. Len(s) /\ Len(s) \in Nat /\ Len(s) > 0
  BY LenProperties, EmptySeq
<1>3. DOMAIN Tail(s) = 1 .. Len(s) - 1
  BY <1>1, LenProperties
<1>4. Head(s) \in S /\ Head(s) \in Range(s)
  BY <1>1, <1>2, ElementOfSeq DEF Range
<1>5. Range(Tail(s)) \subseteq Range(s)
  BY <1>1, <1>2, <1>3 DEF Range
<1>6. ASSUME IsInjective(s) PROVE IsInjective(Tail(s))
  BY <1>1, <1>2, <1>3, <1>6 DEF IsInjective
<1>7. ASSUME IsInjective(s) PROVE Range(Tail(s)) = Range(s) \ {Head(s)}
  <2>1. Head(s) \notin Range(Tail(s))
    BY <1>1, <1>2, <1>3, <1>7 DEF IsInjective, Range
  <2>2. ASSUME NEW x \in Range(s), x # Head(s) PROVE x \in Range(Tail(s))
    <3>1. PICK i \in 1 .. Len(s) : x = s[i]
      BY <1>2 DEF Range
    <3>2. i # 1 /\ i - 1 \in 1 .. Len(s) - 1 /\ Tail(s)[i - 1] = s[i]
      BY <3>1, <2>2, <1>1, <1>2
    <3>3. QED BY <3>1, <3>2, <1>3 DEF Range
  <2>3. QED BY <2>1, <2>2, <1>5
<1>8. QED BY <1>1, <1>4, <1>5, <1>6, <1>7

\* An empty channel holds nothing.
LEMMA EmptyFacts ==
  /\ Range(<<>>) = {}
  /\ IsInjective(<<>>)
  /\ \A S : <<>> \in Seq(S)
  /\ Len(<<>>) = 0
BY EmptySeq DEF Range, IsInjective

(***************************************************************************)
(* Types                                                                   *)
(***************************************************************************)

\* A task that serves a request holds one, so that what it passes on is a
\* request: without this the types are not inductive.
TypeInv == TypeOK /\ Occupied

\* Every step keeps the types.
LEMMA TypeInvStep == TypeInv /\ [Next]_vars => TypeInv'
<1> SUFFICES ASSUME TypeInv, [Next]_vars PROVE TypeInv'
  OBVIOUS
<1> USE LinesAssumption, CapacityAssumption
    DEF TypeInv, TypeOK, Occupied, WorkerStates, MainStates, hostVars,
        readerVars, workerVars, writerVars, mainVars
<1> USE DEF LeaveReceiver, SendResponse, LeaveChannel, EndCleanup, AllEnded
<1>1. ASSUME NEW l \in Lines, HostWrites(l) PROVE TypeInv'
  BY <1>1, AppendFacts DEF HostWrites
<1>2. CASE HostClosesStdin \/ HostClosesStdout
  BY <1>2 DEF HostClosesStdin, HostClosesStdout
<1>3. CASE ReadLine
  <2>1. Head(stdin) \in Lines /\ Tail(stdin) \in Seq(Lines)
    BY <1>3, TailFacts DEF ReadLine
  <2>2. Head(stdin) \notin Blank => Head(stdin) \in Requests
    BY <1>3, <2>1 DEF ReadLine, Requests
  <2>3. QED BY <1>3, <2>1, <2>2 DEF ReadLine, Requests
<1>4. CASE Enqueue
  <2>1. held \in Requests
    BY <1>4 DEF Enqueue
  <2>2. queue' \in Seq(Requests) /\ Len(queue') = Len(queue) + 1
    BY <1>4, <2>1, AppendFacts DEF Enqueue
  <2>3. Len(queue) \in Nat
    BY LenProperties
  <2>4. QED BY <1>4, <2>2, <2>3 DEF Enqueue
<1>5. CASE StopReading
  BY <1>5 DEF StopReading
<1>6. ASSUME NEW w \in Workers, LockReceiver(w) PROVE TypeInv'
  BY <1>6 DEF LockReceiver
<1>7. ASSUME NEW w \in Workers, Receive(w) PROVE TypeInv'
  <2>1. /\ Head(queue) \in Requests
        /\ queue' \in Seq(Requests)
        /\ Len(queue') = Len(queue) - 1
    BY <1>7, TailFacts DEF Receive
  <2>2. Head(queue) # None
    BY <2>1 DEF Requests
  <2>3. Len(queue) \in Nat
    BY LenProperties
  <2>4. QED BY <1>7, <2>1, <2>2, <2>3 DEF Receive
<1>8. ASSUME NEW w \in Workers, ReceiveClosed(w) PROVE TypeInv'
  BY <1>8 DEF ReceiveClosed
<1>9. ASSUME NEW w \in Workers, Respond(w) PROVE TypeInv'
  <2>1. job[w] \in Requests
    BY <1>9 DEF Respond
  <2>2. responses' \in Seq(Requests)
    BY <1>9, <2>1, AppendFacts DEF Respond
  <2>3. QED BY <1>9, <2>2 DEF Respond
<1>10. ASSUME NEW w \in Workers, RespondUnheard(w) PROVE TypeInv'
  BY <1>10 DEF RespondUnheard
<1>11. ASSUME NEW w \in Workers, Panic(w) PROVE TypeInv'
  BY <1>11 DEF Panic
<1>12. CASE TakeResponse
  <2>1. Head(responses) \in Requests /\ responses' \in Seq(Requests)
    BY <1>12, TailFacts DEF TakeResponse
  <2>2. QED BY <1>12, <2>1 DEF TakeResponse, Requests
<1>13. CASE Write
  BY <1>13, AppendFacts DEF Write
<1>14. CASE WriteLost
  BY <1>14 DEF WriteLost
<1>15. CASE WriteFails
  <2>1. Range(responses) \subseteq Requests
    BY RangeOfSeq
  <2>2. QED BY <1>15, <2>1, EmptyFacts DEF WriteFails
<1>16. CASE StopWriting
  BY <1>16 DEF StopWriting
<1>17. CASE Main
  BY <1>17 DEF Main, SignalShutdown, JoinWorkers, JoinWriter, JoinCleanup,
                Join
<1>18. CASE StopCleanup
  BY <1>18 DEF StopCleanup
<1>19. CASE UNCHANGED vars
  BY <1>19 DEF vars
<1>20. QED
  BY <1>1, <1>2, <1>3, <1>4, <1>5, <1>6, <1>7, <1>8, <1>9, <1>10, <1>11,
     <1>12, <1>13, <1>14, <1>15, <1>16, <1>17, <1>18, <1>19
  DEF Next, Host, Reader, Worker, Writer

LEMMA TypeInvInit == Init => TypeInv
BY LinesAssumption, CapacityAssumption, EmptyFacts
DEF Init, TypeInv, TypeOK, Occupied, WorkerStates, MainStates

\* Every variable keeps its type, and the request channel never holds more
\* than REQUEST_QUEUE_CAPACITY requests.
THEOREM TypeCorrect == Spec => []TypeOK
<1>1. TypeInv => TypeOK
  BY DEF TypeInv
<1>2. QED
  BY <1>1, TypeInvInit, TypeInvStep, PTL DEF Spec

(***************************************************************************)
(* Conservation of requests                                                *)
(***************************************************************************)

\* The requests in the hands of the workers, for a given assignment.
JobsOf(j) == {j[w] : w \in Workers} \ {None}

\* No two workers hold the same request.
DistinctJobs(j) ==
  \A v, w \in Workers : j[v] = j[w] /\ j[v] # None => v = w

\* A worker that had nothing takes a request nobody has.
LEMMA JobTaken ==
  ASSUME NEW j \in [Workers -> Requests \union {None}], DistinctJobs(j),
         NEW w \in Workers, j[w] = None,
         NEW r \in Requests, r \notin JobsOf(j)
  PROVE  /\ JobsOf([j EXCEPT ![w] = r]) = JobsOf(j) \union {r}
         /\ DistinctJobs([j EXCEPT ![w] = r])
<1> DEFINE k == [j EXCEPT ![w] = r]
<1>1. r # None
  BY LinesAssumption DEF Requests
<1>2. k \in [Workers -> Requests \union {None}] /\ k[w] = r
  OBVIOUS
<1>3. \A v \in Workers : v # w => k[v] = j[v]
  OBVIOUS
<1>4. JobsOf(k) \subseteq JobsOf(j) \union {r}
  BY <1>2, <1>3 DEF JobsOf
<1>5. JobsOf(j) \union {r} \subseteq JobsOf(k)
  BY <1>1, <1>2, <1>3 DEF JobsOf
<1>6. DistinctJobs(k)
  BY <1>2, <1>3 DEF DistinctJobs, JobsOf
<1>7. QED BY <1>4, <1>5, <1>6

\* A worker gives away the request it holds.
LEMMA JobGiven ==
  ASSUME NEW j \in [Workers -> Requests \union {None}], DistinctJobs(j),
         NEW w \in Workers, j[w] # None
  PROVE  /\ JobsOf([j EXCEPT ![w] = None]) = JobsOf(j) \ {j[w]}
         /\ DistinctJobs([j EXCEPT ![w] = None])
         /\ j[w] \in JobsOf(j)
<1> DEFINE k == [j EXCEPT ![w] = None]
<1>1. k \in [Workers -> Requests \union {None}] /\ k[w] = None
  OBVIOUS
<1>2. \A v \in Workers : v # w => k[v] = j[v]
  OBVIOUS
<1>3. JobsOf(k) \subseteq JobsOf(j) \ {j[w]}
  BY <1>1, <1>2 DEF JobsOf, DistinctJobs
<1>4. JobsOf(j) \ {j[w]} \subseteq JobsOf(k)
  BY <1>1, <1>2 DEF JobsOf
<1>5. DistinctJobs(k)
  BY <1>1, <1>2 DEF DistinctJobs
<1>6. QED BY <1>3, <1>4, <1>5 DEF JobsOf

\* OnePlace with the workers' part in terms of the operators above.
LEMMA OnePlaceJobs ==
  /\ Handling = JobsOf(job)
  /\ OnePlace => DistinctJobs(job)
BY DEF Handling, JobsOf, OnePlace, DistinctJobs

\* The inductive part of LossesExcused; the other follows from Control.
CausedLosses == lost \subseteq Fatal \/ ~stdoutOpen

\* The inductive invariant: types, control, conservation, excused losses.
Inv == TypeInv /\ Control /\ OnePlace /\ CausedLosses

\* At the start nothing is anywhere.
LEMMA InvInit == Init => Inv
<1> SUFFICES ASSUME Init PROVE Inv
  OBVIOUS
<1>1. TypeInv
  BY TypeInvInit
<1>2. Control /\ OnePlace /\ CausedLosses
  BY <1>1, EmptyFacts
  DEF Init, TypeInv, Control, OnePlace, CausedLosses, Held, Queued,
      Handling, Responding, Writing, Answered, AllEnded, Ended
<1>3. QED BY <1>1, <1>2 DEF Inv

\* Every step keeps every request in exactly one place.
LEMMA InvStep == Inv /\ [Next]_vars => Inv'
<1> SUFFICES ASSUME Inv, [Next]_vars PROVE Inv'
  OBVIOUS
<1>0. TypeInv' /\ TypeOK /\ Occupied /\ Control /\ OnePlace /\ CausedLosses
  BY TypeInvStep DEF Inv, TypeInv
<1>t. TypeOK' /\ Occupied'
  BY <1>0 DEF TypeInv
<1>n. None \notin Requests /\ Requests \subseteq Lines /\ Fatal \subseteq Requests
  BY LinesAssumption DEF Requests
<1>j. /\ job \in [Workers -> Requests \union {None}]
      /\ DistinctJobs(job)
      /\ Handling = JobsOf(job) /\ Handling' = JobsOf(job')
  BY <1>0, OnePlaceJobs DEF TypeOK, Handling, JobsOf
<1> USE DEF hostVars, readerVars, workerVars, writerVars, mainVars,
            LeaveReceiver, SendResponse, LeaveChannel, EndCleanup
<1>1. ASSUME NEW l \in Lines, HostWrites(l) PROVE Inv'
  <2>1. l \notin Range(stdin) /\ l \notin accepted
    BY <1>0, <1>1 DEF HostWrites, Control
  <2>2. /\ Range(stdin') = Range(stdin) \union {l}
        /\ IsInjective(stdin')
    BY <1>0, <1>1, <2>1, AppendFacts DEF HostWrites, Control, TypeOK
  <2>3. Control'
    BY <1>0, <1>t, <1>1, <2>1, <2>2
    DEF HostWrites, Control, AllEnded, Ended, Responding, Writing, Answered
  <2>4. OnePlace' /\ CausedLosses'
    BY <1>0, <1>1
    DEF HostWrites, OnePlace, CausedLosses, Held, Queued, Handling,
        Responding, Writing, Answered
  <2>5. QED BY <1>0, <2>3, <2>4 DEF Inv
<1>2. CASE HostClosesStdin \/ HostClosesStdout
  BY <1>0, <1>t, <1>2
  DEF HostClosesStdin, HostClosesStdout, Inv, Control, OnePlace,
      CausedLosses, Held, Queued, Handling, Responding, Writing, Answered,
      AllEnded, Ended
<1>3. CASE ReadLine
  <2>1. /\ Head(stdin) \in Range(stdin)
        /\ Range(stdin') = Range(stdin) \ {Head(stdin)}
        /\ IsInjective(stdin')
    BY <1>0, <1>3, TailFacts DEF ReadLine, Control, TypeOK
  <2>2. Head(stdin) \notin accepted
    BY <1>0, <2>1 DEF Control
  <2>3. Control'
    BY <1>0, <1>t, <1>3, <2>1, <2>2
    DEF ReadLine, Control, AllEnded, Ended, Responding, Writing, Answered
  <2>4. CASE Head(stdin) \in Blank
    BY <1>0, <1>3, <2>3, <2>4
    DEF ReadLine, Inv, OnePlace, CausedLosses, Held, Queued, Handling,
        Responding, Writing, Answered
  <2>5. CASE Head(stdin) \notin Blank
    <3>1. Head(stdin) # None
      BY <1>0, <1>3, <2>1, <2>5, <1>t DEF ReadLine, Occupied
    <3>2. Held = {} /\ Held' = {Head(stdin)}
      BY <1>0, <1>3, <2>5, <3>1 DEF ReadLine, Occupied, Held
    <3>3. OnePlace'
      BY <1>0, <1>3, <2>2, <2>5, <3>2
      DEF ReadLine, OnePlace, Queued, Handling, Responding, Writing, Answered
    <3>4. CausedLosses'
      BY <1>0, <1>3 DEF ReadLine, CausedLosses
    <3>5. QED BY <1>0, <2>3, <3>3, <3>4 DEF Inv
  <2>6. QED BY <2>4, <2>5
<1>4. CASE Enqueue
  <2>1. held \in Requests /\ Held = {held} /\ Held' = {}
    BY <1>0, <1>n, <1>4 DEF Enqueue, Occupied, Held, TypeOK
  <2>2. held \notin Queued
    BY <1>0, <2>1 DEF OnePlace
  <2>3. Queued' = Queued \union {held} /\ IsInjective(queue')
    BY <1>0, <1>4, <2>1, <2>2, AppendFacts DEF Enqueue, OnePlace, Queued, TypeOK
  <2>4. OnePlace'
    BY <1>0, <1>4, <2>1, <2>3
    DEF Enqueue, OnePlace, Handling, Responding, Writing, Answered
  <2>5. Control'
    BY <1>0, <1>t, <1>4
    DEF Enqueue, Control, AllEnded, Ended, Responding, Writing, Answered
  <2>6. QED BY <1>0, <1>4, <2>4, <2>5 DEF Inv, Enqueue, CausedLosses
<1>5. CASE StopReading
  BY <1>0, <1>t, <1>5
  DEF StopReading, Inv, Control, OnePlace, CausedLosses, Held, Queued,
      Handling, Responding, Writing, Answered, AllEnded, Ended
<1>6. ASSUME NEW w \in Workers, LockReceiver(w) PROVE Inv'
  <2>1. \A v \in Workers : worker'[v] # worker[v] => v = w
    BY <1>0, <1>6 DEF LockReceiver, TypeOK
  <2>2. \A v \in Workers : worker'[v] = "exited" => worker[v] = "exited"
    BY <1>0, <1>6 DEF LockReceiver, TypeOK
  <2>3. ~AllEnded
    BY <1>6 DEF LockReceiver, AllEnded, Ended
  <2>4. Control'
    BY <1>0, <1>t, <1>6, <2>2, <2>3
    DEF LockReceiver, Control, Responding, Writing, Answered
  <2>5. OnePlace' /\ CausedLosses'
    BY <1>0, <1>6
    DEF LockReceiver, OnePlace, CausedLosses, Held, Queued, Handling,
        Responding, Writing, Answered
  <2>6. QED BY <1>0, <2>4, <2>5 DEF Inv
<1>7. ASSUME NEW w \in Workers, Receive(w) PROVE Inv'
  <2> DEFINE r == Head(queue)
  <2>1. /\ r \in Requests /\ r \in Queued
        /\ Queued' = Queued \ {r}
        /\ IsInjective(queue')
    BY <1>0, <1>7, TailFacts DEF Receive, OnePlace, Queued, TypeOK
  <2>2. job[w] = None /\ r \notin Handling
    BY <1>0, <1>7, <2>1 DEF Receive, Occupied, OnePlace
  <2>3. Handling' = Handling \union {r} /\ DistinctJobs(job')
    BY <1>j, <1>7, <2>1, <2>2, JobTaken DEF Receive
  <2>4. OnePlace'
    BY <1>0, <1>7, <2>1, <2>3
    DEF Receive, OnePlace, Held, Responding, Writing, Answered, DistinctJobs
  <2>5. \A v \in Workers : worker'[v] = "exited" => worker[v] = "exited"
    BY <1>0, <1>7 DEF Receive, TypeOK
  <2>6. ~AllEnded /\ queue # <<>>
    BY <1>7 DEF Receive, AllEnded, Ended
  <2>7. Control'
    BY <1>0, <1>t, <1>7, <2>5, <2>6
    DEF Receive, Control, Responding, Writing, Answered
  <2>8. QED BY <1>0, <1>7, <2>4, <2>7 DEF Inv, Receive, CausedLosses
<1>8. ASSUME NEW w \in Workers, ReceiveClosed(w) PROVE Inv'
  <2>1. \A v \in Workers : v # w => worker'[v] = worker[v]
    BY <1>0, <1>8 DEF ReceiveClosed, TypeOK
  <2>2. ~AllEnded
    BY <1>8 DEF ReceiveClosed, AllEnded, Ended
  <2>3. Control'
    BY <1>0, <1>t, <1>8, <2>1, <2>2
    DEF ReceiveClosed, Control, Responding, Writing, Answered
  <2>4. OnePlace' /\ CausedLosses'
    BY <1>0, <1>8
    DEF ReceiveClosed, OnePlace, CausedLosses, Held, Queued, Handling,
        Responding, Writing, Answered
  <2>5. QED BY <1>0, <2>3, <2>4 DEF Inv
<1>9. ASSUME NEW w \in Workers, worker[w] = "handling"
      PROVE  /\ job[w] \in Requests /\ job[w] \in Handling /\ ~AllEnded
             /\ job' = [job EXCEPT ![w] = None]
                  => Handling' = Handling \ {job[w]} /\ DistinctJobs(job')
  <2>1. job[w] # None /\ job[w] \in Requests
    BY <1>0, <1>9 DEF Occupied, TypeOK
  <2>2. QED BY <1>j, <1>9, <2>1, JobGiven DEF AllEnded, Ended
<1>10. ASSUME NEW w \in Workers, Respond(w) PROVE Inv'
  <2> DEFINE r == job[w]
  <2>1. /\ r \in Requests /\ r \in Handling /\ ~AllEnded
        /\ Handling' = Handling \ {r}
        /\ DistinctJobs(job')
    BY <1>9, <1>10 DEF Respond
  <2>2. Responding' = Responding \union {r} /\ IsInjective(responses')
    BY <1>0, <1>10, <2>1, AppendFacts
    DEF Respond, OnePlace, Responding, TypeOK
  <2>3. OnePlace'
    BY <1>0, <1>10, <2>1, <2>2
    DEF Respond, OnePlace, Held, Queued, Writing, Answered, DistinctJobs
  <2>4. \A v \in Workers : worker'[v] = "exited" => worker[v] = "exited"
    BY <1>0, <1>10 DEF Respond, TypeOK
  <2>5. Control'
    BY <1>0, <1>t, <1>10, <2>1, <2>2, <2>4
    DEF Respond, Control, Writing, Answered
  <2>6. QED BY <1>0, <1>10, <2>3, <2>5 DEF Inv, Respond, CausedLosses
<1>11. ASSUME NEW w \in Workers, RespondUnheard(w) \/ Panic(w) PROVE Inv'
  <2> DEFINE r == job[w]
  <2>1. worker[w] = "handling" /\ lost' = lost \union {r}
        /\ job' = [job EXCEPT ![w] = None]
    BY <1>11 DEF RespondUnheard, Panic
  <2>2. /\ r \in Requests /\ r \in Handling /\ ~AllEnded
        /\ Handling' = Handling \ {r}
        /\ DistinctJobs(job')
    BY <1>9, <2>1
  <2>3. OnePlace'
    BY <1>0, <1>11, <2>1, <2>2
    DEF RespondUnheard, Panic, OnePlace, Held, Queued, Responding, Writing,
        Answered, DistinctJobs
  <2>4. CASE RespondUnheard(w)
    <3>1. ~stdoutOpen
      BY <1>0, <2>2, <2>4 DEF RespondUnheard, Control
    <3>2. Control'
      BY <1>0, <1>t, <2>2, <2>4, <3>1
      DEF RespondUnheard, Control, Responding, Writing, Answered
    <3>3. QED BY <1>0, <2>3, <2>4, <3>1, <3>2
          DEF Inv, RespondUnheard, CausedLosses
  <2>5. CASE Panic(w)
    <3>1. \A v \in Workers : worker'[v] = "exited" => worker[v] = "exited"
      BY <1>0, <2>5 DEF Panic, TypeOK
    <3>2. Control'
      BY <1>0, <1>t, <2>2, <2>5, <3>1
      DEF Panic, Control, Responding, Writing, Answered
    <3>3. CausedLosses'
      BY <1>0, <2>1, <2>5 DEF Panic, CausedLosses
    <3>4. QED BY <1>0, <2>3, <3>2, <3>3 DEF Inv
  <2>6. QED BY <1>11, <2>4, <2>5
<1>12. CASE TakeResponse
  <2> DEFINE r == Head(responses)
  <2>1. /\ r \in Requests /\ r \in Responding
        /\ Responding' = Responding \ {r}
        /\ IsInjective(responses')
    BY <1>0, <1>12, TailFacts DEF TakeResponse, OnePlace, Responding, TypeOK
  <2>2. Writing = {} /\ Writing' = {r}
    BY <1>0, <1>n, <1>12, <2>1 DEF TakeResponse, Occupied, Writing
  <2>3. OnePlace'
    BY <1>0, <1>12, <2>1, <2>2
    DEF TakeResponse, OnePlace, Held, Queued, Handling, Answered
  <2>4. Control'
    BY <1>0, <1>t, <1>12, <2>1, <2>2
    DEF TakeResponse, Control, AllEnded, Ended, Answered
  <2>5. QED BY <1>0, <1>12, <2>3, <2>4 DEF Inv, TakeResponse, CausedLosses
<1>13. ASSUME writer = "writing"
       PROVE  body \in Requests /\ Writing = {body}
  BY <1>0, <1>n, <1>13 DEF Occupied, Writing, TypeOK
<1>14. CASE Write
  <2>1. body \in Requests /\ Writing = {body} /\ Writing' = {}
    BY <1>13, <1>14 DEF Write, Writing
  <2>2. body \notin Answered
    BY <1>0, <2>1 DEF OnePlace
  <2>3. Answered' = Answered \union {body} /\ IsInjective(stdout')
    BY <1>0, <1>14, <2>1, <2>2, AppendFacts DEF Write, OnePlace, Answered, TypeOK
  <2>4. OnePlace'
    BY <1>0, <1>14, <2>1, <2>3
    DEF Write, OnePlace, Held, Queued, Handling, Responding
  <2>5. Control'
    BY <1>0, <1>t, <1>14, <2>1, <2>3
    DEF Write, Control, AllEnded, Ended, Responding
  <2>6. QED BY <1>0, <1>14, <2>4, <2>5 DEF Inv, Write, CausedLosses
<1>15. CASE WriteLost
  <2>1. body \in Requests /\ Writing = {body} /\ Writing' = {}
    BY <1>13, <1>15 DEF WriteLost, Writing
  <2>2. OnePlace'
    BY <1>0, <1>15, <2>1
    DEF WriteLost, OnePlace, Held, Queued, Handling, Responding, Answered
  <2>3. Control'
    BY <1>0, <1>t, <1>15, <2>1
    DEF WriteLost, Control, AllEnded, Ended, Responding, Answered
  <2>4. QED BY <1>0, <1>15, <2>2, <2>3 DEF Inv, WriteLost, CausedLosses
<1>16. CASE WriteFails
  <2>1. body \in Requests /\ Writing = {body} /\ Writing' = {}
    BY <1>13, <1>16 DEF WriteFails, Writing
  <2>2. Responding' = {} /\ IsInjective(responses')
    BY <1>16, EmptyFacts DEF WriteFails, Responding
  <2>3. OnePlace'
    BY <1>0, <1>16, <2>1, <2>2
    DEF WriteFails, OnePlace, Held, Queued, Handling, Responding, Answered
  <2>4. Control'
    BY <1>0, <1>t, <1>16, <2>1, <2>2
    DEF WriteFails, Control, AllEnded, Ended, Answered
  <2>5. QED BY <1>0, <1>16, <2>3, <2>4 DEF Inv, WriteFails, CausedLosses
<1>17. CASE StopWriting
  BY <1>0, <1>t, <1>17
  DEF StopWriting, Inv, Control, OnePlace, CausedLosses, Held, Queued,
      Handling, Responding, Writing, Answered, AllEnded, Ended
<1>18. CASE Main \/ StopCleanup
  <2>1. UNCHANGED <<hostVars, readerVars, queue, workerVars, responses,
                    writerVars, lost>>
    BY <1>18 DEF Main, StopCleanup, SignalShutdown, JoinWorkers, JoinWriter,
                 JoinCleanup, Join
  <2>2. OnePlace' /\ CausedLosses'
    BY <1>0, <2>1
    DEF OnePlace, CausedLosses, Held, Queued, Handling, Responding, Writing,
        Answered
  <2>3. Control'
    BY <1>0, <1>t, <1>18, <2>1
    DEF Main, StopCleanup, SignalShutdown, JoinWorkers, JoinWriter,
        JoinCleanup, Join, Control, AllEnded, Ended, Responding, Writing,
        Answered
  <2>4. QED BY <1>0, <2>2, <2>3 DEF Inv
<1>19. CASE UNCHANGED vars
  BY <1>0, <1>t, <1>19
  DEF vars, Inv, Control, OnePlace, CausedLosses, Held, Queued, Handling,
      Responding, Writing, Answered, AllEnded, Ended
<1>20. QED
  BY <1>1, <1>2, <1>3, <1>4, <1>5, <1>6, <1>7, <1>8, <1>10, <1>11, <1>12,
     <1>14, <1>15, <1>16, <1>17, <1>18, <1>19
  DEF Next, Host, Reader, Worker, Writer

\* Every request the reader has taken is in exactly one place between the
\* reader and the host, in every reachable state.
THEOREM Conservation == Spec => []OnePlace
<1>1. Inv => OnePlace
  BY DEF Inv
<1>2. QED
  BY <1>1, InvInit, InvStep, PTL DEF Spec

\* A request is lost only to its own panic or to a closed stdout, and forsaken
\* only by a crew that panicked or that left because stdout was closed: a worker
\* that left while the host listened had seen the reader done and the queue empty.
THEOREM LossesAreExcused == Spec => []LossesExcused
<1>1. Inv => LossesExcused
  <2> SUFFICES ASSUME Inv, stdoutOpen, Forsaken # {} PROVE AllPanicked
    BY DEF Inv, CausedLosses, LossesExcused
  <2>1. AllEnded /\ Held \union Queued # {}
    BY DEF Forsaken
  <2>2. SUFFICES ASSUME NEW w \in Workers, worker[w] # "panicked" PROVE FALSE
    BY DEF AllPanicked
  <2>3. worker[w] = "exited"
    BY <2>1, <2>2 DEF AllEnded, Ended
  <2>4. reader = "done" /\ queue = <<>>
    BY <2>3 DEF Inv, Control
  <2>5. Held = {}
    BY <2>4 DEF Inv, Control, Occupied, Held
  <2>6. Queued = {}
    BY <2>4, EmptyFacts DEF Queued
  <2>7. QED BY <2>1, <2>5, <2>6
<1>2. QED
  BY <1>1, InvInit, InvStep, PTL DEF Spec

\* What a returned main has drained: nothing is between reader and host.
LEMMA Drained ==
  ASSUME Inv, main \in {"cleanup", "returned"}, stdoutOpen, ~AllPanicked
  PROVE  accepted = Answered \union lost /\ Answered = accepted \ Fatal
<1> USE DEF Inv, TypeInv
<1>1. reader = "done" /\ AllEnded /\ writer = "done"
  BY DEF Control
<1>2. PICK w \in Workers : worker[w] = "exited"
  BY <1>1 DEF AllPanicked, AllEnded, Ended
<1>3. queue = <<>> /\ responses = <<>>
  BY <1>1, <1>2 DEF Control
<1>4. Held = {} /\ Handling = {} /\ Writing = {}
  BY <1>1 DEF Occupied, Held, Handling, Writing, AllEnded, Ended
<1>5. accepted = Answered \union lost
  BY <1>3, <1>4, EmptyFacts DEF OnePlace, Queued, Responding
<1>6. Answered \intersect Fatal = {} /\ Answered \intersect lost = {}
  BY DEF Control, OnePlace
<1>7. QED BY <1>5, <1>6 DEF CausedLosses

\* A clean shutdown leaves no accepted request unanswered but those whose
\* handler panicked.
THEOREM ShutdownIsClean == Spec => []CleanReturn
<1>1. Inv => CleanReturn
  BY Drained DEF CleanReturn
<1>2. QED
  BY <1>1, InvInit, InvStep, PTL DEF Spec

\* The reader is stranded only by a lost crew or a closed stdout.
THEOREM StrandingIsExcused == Spec => []StrandedExcused
<1>1. Inv => StrandedExcused
  BY DEF Inv, TypeInv, Control, StrandedExcused, Stranded, AllEnded, Ended,
         AllPanicked
<1>2. QED
  BY <1>1, InvInit, InvStep, PTL DEF Spec

(***************************************************************************)
(* The mutex around the receiver                                           *)
(***************************************************************************)

\* The mutex is held by the worker that waits for a request, and by it alone.
Mutex == \A w \in Workers : worker[w] = "receiving" <=> rxLock = w

LEMMA MutexInit == Init => Mutex
BY LinesAssumption DEF Init, Mutex

LEMMA MutexStep == TypeOK /\ Mutex /\ [Next]_vars => Mutex'
<1> SUFFICES ASSUME TypeOK, Mutex, [Next]_vars PROVE Mutex'
  OBVIOUS
<1>1. worker \in [Workers -> WorkerStates] /\ None \notin Workers
  BY LinesAssumption DEF TypeOK
<1>2. CASE UNCHANGED workerVars
  BY <1>2 DEF Mutex, workerVars
<1>3. ASSUME NEW w \in Workers, LockReceiver(w)
      PROVE  Mutex'
  BY <1>1, <1>3 DEF LockReceiver, Mutex
<1>4. ASSUME NEW w \in Workers, Receive(w) \/ ReceiveClosed(w)
      PROVE  Mutex'
  <2>1. /\ worker[w] = "receiving" /\ rxLock' = None
        /\ \/ worker' = [worker EXCEPT ![w] = "handling"]
           \/ worker' = [worker EXCEPT ![w] = "exited"]
    BY <1>4 DEF Receive, ReceiveClosed, LeaveReceiver
  <2> QED
    BY <1>1, <2>1 DEF Mutex
<1>5. ASSUME NEW w \in Workers, Respond(w) \/ RespondUnheard(w) \/ Panic(w)
      PROVE  Mutex'
  <2>1. /\ worker[w] = "handling" /\ rxLock' = rxLock
        /\ \E s \in {"locking", "exited", "panicked"} :
             worker' = [worker EXCEPT ![w] = s]
    BY <1>5 DEF Respond, SendResponse, RespondUnheard, Panic
  <2> QED
    BY <1>1, <2>1 DEF Mutex
<1>6. CASE Host \/ Reader \/ Writer \/ Main \/ StopCleanup \/ UNCHANGED vars
  <2>1. UNCHANGED workerVars
    BY <1>6 DEF Host, HostWrites, HostClosesStdin, HostClosesStdout,
       Reader, ReadLine, Enqueue, StopReading, Writer, TakeResponse, Write,
       WriteLost, WriteFails, StopWriting, LeaveChannel, Main, SignalShutdown,
       JoinWorkers, JoinWriter, JoinCleanup, Join, StopCleanup, EndCleanup, vars
  <2> QED
    BY <2>1, <1>2
<1> QED
  BY <1>3, <1>4, <1>5, <1>6 DEF Next, Worker

\* The guards of Worker(w): a free mutex, a request or the end of them, a
\* handler that returns.  None is a condition on the writer or the host.
CanGoOn(w) ==
  \/ worker[w] = "locking" /\ rxLock = None
  \/ worker[w] = "receiving" /\ (queue # <<>> \/ reader = "done")
  \/ worker[w] = "handling"

\* A queued request finds a worker that can go on, unless all have ended: the
\* mutex is never held by a worker that handles a request, or that has ended
\* (main.rs:85-91).  This is IntakeNeverStalls with the guards in the place of
\* ENABLED.
IntakeIsOpen ==
  queue # <<>> => AllEnded \/ \E w \in Workers : CanGoOn(w)

THEOREM IntakeStaysOpen == Spec => []IntakeIsOpen
<1>1. TypeOK /\ Mutex => IntakeIsOpen
  <2> SUFFICES ASSUME TypeOK, Mutex, queue # <<>>,
                      NEW w \in Workers, ~Ended(w)
               PROVE  \E v \in Workers : CanGoOn(v)
    BY DEF IntakeIsOpen, AllEnded
  <2>1. worker[w] \in {"locking", "receiving", "handling"}
    BY DEF TypeOK, WorkerStates, Ended
  <2>2. CASE worker[w] \in {"receiving", "handling"} \/ rxLock = None
    BY <2>1, <2>2 DEF CanGoOn
  <2>3. CASE rxLock # None
    <3>1. rxLock \in Workers /\ worker[rxLock] = "receiving"
      BY <2>3 DEF TypeOK, Mutex
    <3> QED
      BY <3>1 DEF CanGoOn
  <2> QED
    BY <2>2, <2>3
<1>2. Init => TypeInv /\ Mutex
  BY TypeInvInit, MutexInit
<1>3. TypeInv /\ Mutex /\ [Next]_vars => TypeInv' /\ Mutex'
  BY TypeInvStep, MutexStep DEF TypeInv
<1>4. TypeInv => TypeOK
  BY DEF TypeInv
<1> QED
  BY <1>1, <1>2, <1>3, <1>4, PTL DEF Spec

(***************************************************************************)
(* The pipeline implements RequestService                                  *)
(***************************************************************************)

\* The workers that have not panicked: their number is the crew.
Alive == {w \in Workers : worker[w] # "panicked"}

Pending == accepted \ (Answered \union lost)

\* A panic takes one worker out of the crew.
LEMMA CrewShrinks ==
  ASSUME TypeOK, NEW w \in Workers, Panic(w)
  PROVE  Cardinality(Alive) > 0 /\ Cardinality(Alive') = Cardinality(Alive) - 1
<1>1. Alive' = Alive \ {w} /\ w \in Alive
  BY DEF Panic, Alive, TypeOK
<1>2. IsFiniteSet(Alive)
  BY WorkersAssumption, FS_Subset DEF Alive
<1>3. Cardinality(Alive) \in Nat /\ Cardinality(Alive) # 0
  BY <1>1, <1>2, FS_CardinalityType, FS_EmptySet
<1>4. QED BY <1>1, <1>2, <1>3, FS_RemoveElement

\* Every step of the pipeline is a step of the service or leaves it alone.
LEMMA ServiceStep == Inv /\ Inv' /\ [Next]_vars => [Service!Next]_(Service!vars)
<1> SUFFICES ASSUME Inv, Inv', [Next]_vars,
                    UNCHANGED Service!vars => FALSE
             PROVE  Service!Next
  OBVIOUS
<1>0. TypeOK /\ Occupied /\ Control /\ OnePlace /\ CausedLosses /\ OnePlace'
  BY DEF Inv, TypeInv
<1>n. None \notin Requests /\ Requests \subseteq Lines /\ Fatal \subseteq Requests
  BY LinesAssumption DEF Requests
<1> USE DEF hostVars, readerVars, workerVars, writerVars, mainVars,
            LeaveReceiver, SendResponse, LeaveChannel, EndCleanup
\* Steps that neither accept nor settle a request are stutters.
<1>1. ASSUME UNCHANGED <<accepted, stdout, lost, stdoutOpen, main>>,
             Alive' = Alive
      PROVE  FALSE
  BY <1>1 DEF Service!vars, Answered, Alive
<1>2. ASSUME UNCHANGED <<accepted, stdout, lost, stdoutOpen, main, worker>>
      PROVE  FALSE
  BY <1>1, <1>2 DEF Alive
<1>3. ASSUME NEW l \in Lines, HostWrites(l) PROVE FALSE
  BY <1>2, <1>3 DEF HostWrites
<1>4. CASE HostClosesStdin
  BY <1>2, <1>4 DEF HostClosesStdin
<1>5. CASE HostClosesStdout
  BY <1>5 DEF HostClosesStdout, Service!Next, Service!HangUp, Answered
<1>6. CASE ReadLine
  <2>1. Head(stdin) \notin Blank
    BY <1>2, <1>6 DEF ReadLine
  <2>2. Head(stdin) \in Requests
    BY <1>0, <1>6, <2>1, TailFacts DEF ReadLine, TypeOK, Requests
  <2>3. Head(stdin) \notin accepted
    BY <1>0, <1>6, TailFacts DEF ReadLine, Control, TypeOK
  <2>4. Answered \union lost \subseteq accepted
    BY <1>0 DEF OnePlace
  <2>5. main # "returned"
    BY <1>0, <1>6 DEF ReadLine, Control
  <2>6. Service!Accept(Head(stdin))
    BY <1>6, <2>1, <2>3, <2>4, <2>5 DEF ReadLine, Service!Accept, Answered
  <2>7. QED BY <2>2, <2>6 DEF Service!Next
<1>7. CASE Enqueue \/ StopReading
  BY <1>2, <1>7 DEF Enqueue, StopReading
<1>8. ASSUME NEW w \in Workers,
             LockReceiver(w) \/ Receive(w) \/ ReceiveClosed(w) \/ Respond(w)
      PROVE  FALSE
  <2>1. Alive' = Alive
    BY <1>0, <1>8
    DEF LockReceiver, Receive, ReceiveClosed, Respond, Alive, TypeOK
  <2>2. QED BY <1>1, <1>8, <2>1
        DEF LockReceiver, Receive, ReceiveClosed, Respond
<1>9. ASSUME NEW w \in Workers, worker[w] = "handling"
      PROVE  job[w] \in Requests /\ job[w] \in Pending /\ main # "returned"
  <2>1. job[w] \in Requests /\ job[w] \in Handling
    BY <1>0, <1>9, <1>n DEF Occupied, TypeOK, Handling
  <2>2. job[w] \in Pending
    BY <1>0, <2>1 DEF OnePlace, Pending
  <2>3. ~AllEnded
    BY <1>9 DEF AllEnded, Ended
  <2>4. QED BY <1>0, <2>1, <2>2, <2>3 DEF Control
<1>10. ASSUME NEW w \in Workers, RespondUnheard(w) PROVE Service!Next
  <2>1. job[w] \in Requests /\ job[w] \in Pending /\ main # "returned"
    BY <1>9, <1>10 DEF RespondUnheard
  <2>2. ~stdoutOpen
    BY <1>0, <1>10 DEF RespondUnheard, Control, AllEnded, Ended
  <2>3. Alive' = Alive
    BY <1>0, <1>10 DEF RespondUnheard, Alive, TypeOK
  <2>4. Service!Discard({job[w]})
    BY <1>10, <2>1, <2>2, <2>3
    DEF RespondUnheard, Service!Discard, Pending, Answered, Alive
  <2>5. QED BY <2>1, <2>4 DEF Service!Next
<1>11. ASSUME NEW w \in Workers, Panic(w) PROVE Service!Next
  <2>1. job[w] \in Requests /\ job[w] \in Pending /\ main # "returned"
    BY <1>9, <1>11 DEF Panic
  <2>2. Cardinality(Alive) > 0 /\ Cardinality(Alive') = Cardinality(Alive) - 1
    BY <1>0, <1>11, CrewShrinks
  <2>3. Service!Crash(job[w])
    BY <1>11, <2>1, <2>2
    DEF Panic, Service!Crash, Pending, Answered, Alive
  <2>4. QED BY <2>1, <2>3 DEF Service!Next
<1>12. CASE TakeResponse \/ StopWriting
  BY <1>2, <1>12 DEF TakeResponse, StopWriting
<1>13. ASSUME writer = "writing"
       PROVE  /\ body \in Requests /\ body \in Pending
              /\ Responding \subseteq Pending /\ Responding \subseteq Requests
              /\ main # "returned"
  <2>1. body \in Requests /\ body \in Writing
    BY <1>0, <1>n, <1>13 DEF Occupied, Writing, TypeOK
  <2>2. Responding \subseteq Requests
    BY <1>0, RangeOfSeq DEF Responding, TypeOK
  <2>3. body \in Pending /\ Responding \subseteq Pending
    BY <1>0, <2>1 DEF OnePlace, Pending
  <2>4. QED BY <1>0, <1>13, <2>1, <2>2, <2>3 DEF Control
<1>14. CASE Write
  <2>1. Answered' = Answered \union {body}
    BY <1>0, <1>13, <1>14, AppendFacts DEF Write, Answered, TypeOK
  <2>2. Service!Answer(body)
    BY <1>13, <1>14, <2>1 DEF Write, Service!Answer, Pending, Alive
  <2>3. QED BY <1>13, <1>14, <2>2 DEF Write, Service!Next
<1>15. CASE WriteLost
  <2>1. Service!Discard({body})
    BY <1>13, <1>15 DEF WriteLost, Service!Discard, Pending, Answered
  <2>2. QED BY <1>13, <1>15, <2>1 DEF WriteLost, Service!Next
<1>16. CASE WriteFails
  <2> DEFINE R == {body} \union Responding
  <2>1. Service!Discard(R)
    BY <1>13, <1>16
    DEF WriteFails, Service!Discard, Pending, Answered, Responding
  <2>2. R \in SUBSET Requests
    BY <1>13, <1>16 DEF WriteFails
  <2>3. QED BY <2>1, <2>2 DEF Service!Next
<1>17. CASE Main
  <2>1. JoinCleanup
    BY <1>2, <1>17
    DEF Main, SignalShutdown, JoinWorkers, JoinWriter, JoinCleanup, Join,
        MainStates, Service!vars, Answered
  <2>2. CASE stdoutOpen /\ ~AllPanicked
    <3>1. Pending = {}
      BY <2>1, <2>2, Drained DEF JoinCleanup, Join, Pending
    <3>2. Service!Finish
      BY <2>1, <3>1
      DEF JoinCleanup, Join, Service!Finish, Pending, Answered
    <3>3. QED BY <3>2 DEF Service!Next
  <2>3. CASE AllPanicked
    <3>1. Alive = {}
      BY <2>3 DEF AllPanicked, Alive
    <3>2. Cardinality(Alive) = 0
      BY <3>1, FS_EmptySet
    <3>3. Service!Finish
      BY <2>1, <3>2 DEF JoinCleanup, Join, Service!Finish, Answered, Alive
    <3>4. QED BY <3>3 DEF Service!Next
  <2>4. CASE ~stdoutOpen
    <3>1. Service!Finish
      BY <2>1, <2>4 DEF JoinCleanup, Join, Service!Finish, Answered
    <3>2. QED BY <3>1 DEF Service!Next
  <2>5. QED BY <2>2, <2>3, <2>4
<1>18. CASE StopCleanup
  BY <1>2, <1>18 DEF StopCleanup
<1>19. CASE UNCHANGED vars
  BY <1>2, <1>19 DEF vars
<1>20. QED
  BY <1>3, <1>4, <1>5, <1>6, <1>7, <1>8, <1>10, <1>11, <1>12, <1>14, <1>15,
     <1>16, <1>17, <1>18, <1>19
  DEF Next, Host, Reader, Worker, Writer

LEMMA ServiceInit == Init => Service!Init
BY EmptyFacts DEF Init, Service!Init, Answered

\* The process, whatever the interleaving of its tasks, behaves as the
\* service of RequestService.
THEOREM Implementation == Spec => ImplementsService
<1>1. Init => Service!Init
  BY ServiceInit
<1>2. Inv /\ Inv' /\ [Next]_vars => [Service!Next]_(Service!vars)
  BY ServiceStep
<1>3. QED
  BY <1>1, <1>2, InvInit, InvStep, PTL
  DEF Spec, ImplementsService, Service!Spec

-----------------------------------------------------------------------------
(***************************************************************************)
(* Settings: the default region behaves as a register for a host that      *)
(* waits, for every number of workers, of initializes and of requests.     *)
(***************************************************************************)

\* A step of the composition is a step of the pipeline or leaves it alone.
LEMMA StepsOfPipeline == [SNext]_allVars => [Next]_vars
BY DEF SNext, allVars, SHostWrites, ApplyInitialize, ReadRegion, SRespond,
       SRespondUnheard, SOther, Next, Host, Worker

\* A response in the pipeline belongs to a request that has taken effect, and
\* only requests the reader has taken have.
Effects ==
  /\ Responding \union Writing \union Answered \subseteq effected
  /\ effected \subseteq accepted
  /\ \A l \in Lines : seen[l] \subseteq effected

\* The stored region is that of an initialize in effect, and no initialize in
\* effect was written after the response to it.
Latest ==
  /\ region # None => region \in effected \intersect Inits
  /\ \A j \in effected \intersect Inits :
       region # None /\ ~Precedes(region, j)
  /\ \A l \in Lines : used[l] # None => used[l] \in effected \intersect Inits

SInv ==
  /\ Inv
  /\ SettingsTypeOK
  /\ Effects
  /\ Latest
  /\ NoSupersededRegion
  /\ NoRegionInversion

LEMMA SInvInit == SInit => SInv
<1> SUFFICES ASSUME SInit PROVE SInv
  OBVIOUS
<1>1. Inv
  BY InvInit DEF SInit
<1>2. SettingsTypeOK
  BY DEF SInit, SettingsTypeOK
<1>3. Effects
  BY EmptyFacts DEF SInit, Init, Effects, Responding, Writing, Answered
<1>4. Latest /\ NoSupersededRegion /\ NoRegionInversion
  BY DEF SInit, Latest, NoSupersededRegion, NoRegionInversion
<1>5. QED BY <1>1, <1>2, <1>3, <1>4 DEF SInv

\* What a worker handles has been accepted, and has been written.
LEMMA HandledIsAccepted ==
  ASSUME Inv, NEW w \in Workers, worker[w] = "handling"
  PROVE  job[w] \in Requests /\ job[w] \in accepted
<1>1. job[w] # None /\ job[w] \in Requests
  BY DEF Inv, TypeInv, TypeOK, Occupied
<1>2. job[w] \in Handling
  BY <1>1 DEF Handling
<1>3. QED BY <1>1, <1>2 DEF Inv, OnePlace

\* Steps that leave the setting alone keep what is said of it.
LEMMA SettingsKept ==
  ASSUME SInv, Inv', UNCHANGED settingsVars, accepted \subseteq accepted',
         Responding' \union Writing' \union Answered' \subseteq effected
  PROVE  SInv'
<1>1. SettingsTypeOK' /\ Effects'
  BY DEF SInv, SettingsTypeOK, Effects, settingsVars
<1>2. Latest' /\ NoSupersededRegion' /\ NoRegionInversion'
  BY DEF SInv, Latest, NoSupersededRegion, NoRegionInversion, Precedes,
         settingsVars
<1>3. QED BY <1>1, <1>2 DEF SInv

LEMMA SInvStep == SInv /\ [SNext]_allVars => SInv'
<1> SUFFICES ASSUME SInv, [SNext]_allVars PROVE SInv'
  OBVIOUS
<1>0. Inv' /\ Inv /\ TypeOK
  BY StepsOfPipeline, InvStep DEF SInv, Inv, TypeInv
<1>n. None \notin Lines /\ Requests \subseteq Lines /\ Inits \subseteq Requests
  BY LinesAssumption, InitsAssumption DEF Requests
<1> USE DEF hostVars, readerVars, workerVars, writerVars, mainVars
<1>1. ASSUME NEW l \in Lines, SHostWrites(l) PROVE SInv'
  <2>1. l \notin effected
    <3>1. l \notin written /\ accepted \subseteq written
      BY <1>0, <1>1 DEF SHostWrites, HostWrites, Inv, Control
    <3>2. QED BY <3>1 DEF SInv, Effects
  <2>2. /\ UNCHANGED <<region, effected, used, accepted>>
        /\ UNCHANGED <<responses, stdout, body>>
        /\ seen' = [seen EXCEPT ![l] = Answered]
    BY <1>1 DEF SHostWrites, HostWrites
  <2>3. UNCHANGED <<Responding, Writing, Answered>>
    BY <2>2 DEF Responding, Writing, Answered
  <2>4. Effects'
    BY <2>2, <2>3 DEF SInv, Effects, SettingsTypeOK
  <2>5. SettingsTypeOK'
    BY <1>0, <2>2, RangeOfSeq DEF SInv, SettingsTypeOK, Answered, TypeOK
  <2>6. \A k \in effected : \A r : Precedes(r, k)' <=> Precedes(r, k)
    BY <2>1, <2>2, <1>0, <1>n DEF SInv, SettingsTypeOK, Precedes, Effects, TypeOK
  <2>7. Latest'
    BY <2>2, <2>6 DEF SInv, Latest
  <2>8. NoSupersededRegion'
    <3>1. \A c \in effected : \A j : Precedes(j, c) => j \in effected
      BY <1>n, <1>0 DEF SInv, Effects, Precedes, SettingsTypeOK
    <3>2. QED BY <2>2, <2>6, <3>1 DEF SInv, NoSupersededRegion
  <2>9. NoRegionInversion'
    <3>1. \A c \in effected : used[c] # None => used[c] \in effected
      BY <1>n DEF SInv, Latest, SettingsTypeOK
    <3>2. QED BY <2>2, <2>6, <3>1 DEF SInv, NoRegionInversion
  <2>10. QED BY <1>0, <2>4, <2>5, <2>7, <2>8, <2>9 DEF SInv
<1>2. ASSUME NEW w \in Workers, ApplyInitialize(w) PROVE SInv'
  <2> DEFINE i == job[w]
  <2>1. i \in Inits /\ i \notin effected /\ i \in accepted
    BY <1>0, <1>2, HandledIsAccepted DEF ApplyInitialize
  <2>2. /\ region' = i /\ effected' = effected \union {i}
        /\ UNCHANGED <<used, seen, accepted, responses, stdout, body>>
    BY <1>2 DEF ApplyInitialize, vars
  <2>3. UNCHANGED <<Responding, Writing, Answered>>
    BY <2>2 DEF Responding, Writing, Answered
  <2>4. Effects' /\ SettingsTypeOK'
    BY <1>n, <2>1, <2>2, <2>3 DEF SInv, Effects, SettingsTypeOK
  <2>5. \A l \in Lines : ~Precedes(i, l)
    BY <2>1 DEF SInv, Effects, Precedes
  <2>6. \A r, l : Precedes(r, l)' <=> Precedes(r, l)
    BY <2>2 DEF Precedes
  <2>7. Latest'
    BY <1>n, <2>1, <2>2, <2>5, <2>6 DEF SInv, Latest
  <2>8. NoSupersededRegion' /\ NoRegionInversion'
    BY <2>1, <2>2, <2>6 DEF SInv, NoSupersededRegion, NoRegionInversion
  <2>9. QED BY <1>0, <2>4, <2>7, <2>8 DEF SInv
<1>3. ASSUME NEW w \in Workers, ReadRegion(w) PROVE SInv'
  <2> DEFINE d == job[w]
  <2>1. d \in Requests /\ d \notin Inits /\ d \notin effected /\ d \in accepted
    BY <1>0, <1>3, HandledIsAccepted DEF ReadRegion
  <2>2. /\ used' = [used EXCEPT ![d] = region]
        /\ effected' = effected \union {d}
        /\ UNCHANGED <<region, seen, accepted, responses, stdout, body>>
    BY <1>3 DEF ReadRegion, vars
  <2>3. UNCHANGED <<Responding, Writing, Answered>>
    BY <2>2 DEF Responding, Writing, Answered
  <2>4. used'[d] = region /\ \A l \in Lines : l # d => used'[l] = used[l]
    BY <1>n, <2>1, <2>2 DEF SInv, SettingsTypeOK
  <2>5. Effects' /\ SettingsTypeOK'
    BY <1>n, <2>1, <2>2, <2>3 DEF SInv, Effects, SettingsTypeOK
  <2>6. \A r, l : Precedes(r, l)' <=> Precedes(r, l)
    BY <2>2 DEF Precedes
  <2>7. Latest'
    BY <1>n, <2>1, <2>2, <2>4, <2>6 DEF SInv, Latest
  <2>8. \A j : Precedes(j, d) => j \in effected
    BY <1>n, <2>1 DEF SInv, Effects, Precedes
  <2>9. \A c \in effected : ~Precedes(d, c)
    BY <1>n, <1>0, <2>1 DEF SInv, Effects, Precedes, SettingsTypeOK
  <2>10. NoSupersededRegion'
    <3>1. ASSUME NEW c \in effected' \ Inits, NEW j \in Inits, Precedes(j, c)
          PROVE  used'[c] # None /\ ~Precedes(used'[c], j)
      <4>1. CASE c = d
        BY <2>4, <2>8, <3>1, <4>1 DEF SInv, Latest
      <4>2. CASE c # d
        BY <1>n, <2>2, <2>4, <3>1, <4>2
        DEF SInv, NoSupersededRegion, SettingsTypeOK
      <4>3. QED BY <4>1, <4>2
    <3>2. QED BY <2>6, <3>1 DEF NoSupersededRegion
  <2>11. NoRegionInversion'
    <3>1. ASSUME NEW c \in effected' \ Inits, NEW e \in effected' \ Inits,
                 Precedes(c, e), used'[c] # None
          PROVE  used'[e] # None /\ ~Precedes(used'[e], used'[c])
      <4>1. c # d
        <5>1. ~Precedes(d, d)
          BY <2>1, <2>8
        <5>2. QED BY <2>2, <2>9, <3>1, <5>1
      <4>2. c \in Lines /\ used'[c] = used[c] /\ c \in effected
        BY <1>n, <2>2, <2>4, <3>1, <4>1 DEF SInv, SettingsTypeOK
      <4>3. used[c] \in effected \intersect Inits
        BY <3>1, <4>2 DEF SInv, Latest
      <4>4. CASE e = d
        BY <2>4, <4>2, <4>3, <4>4 DEF SInv, Latest
      <4>5. CASE e # d
        <5>1. e \in effected /\ e \in Lines /\ used'[e] = used[e]
          BY <1>n, <2>2, <2>4, <3>1, <4>5 DEF SInv, SettingsTypeOK
        <5>2. QED BY <3>1, <4>2, <5>1 DEF SInv, NoRegionInversion
      <4>6. QED BY <4>4, <4>5
    <3>2. QED BY <2>6, <3>1 DEF NoRegionInversion
  <2>12. QED BY <1>0, <2>5, <2>7, <2>10, <2>11 DEF SInv
<1>4. ASSUME NEW w \in Workers, SRespond(w) PROVE SInv'
  <2>1. /\ job[w] \in effected
        /\ responses' = Append(responses, job[w])
        /\ UNCHANGED <<settingsVars, accepted, stdout, body>>
    BY <1>4 DEF SRespond, Respond, SendResponse
  <2>2. Responding' = Responding \union {job[w]}
    BY <1>0, <2>1, AppendFacts DEF Responding, TypeOK, SInv, SettingsTypeOK
  <2>3. Writing' = Writing /\ Answered' = Answered
    BY <2>1 DEF Writing, Answered
  <2>4. QED BY <1>0, <2>1, <2>2, <2>3, SettingsKept DEF SInv, Effects
<1>5. ASSUME UNCHANGED settingsVars, accepted \subseteq accepted',
             UNCHANGED <<responses, stdout, body>>
      PROVE  SInv'
  BY <1>0, <1>5, SettingsKept
  DEF SInv, Effects, Responding, Writing, Answered
<1>6. ASSUME NEW w \in Workers, SRespondUnheard(w) PROVE SInv'
  BY <1>5, <1>6 DEF SRespondUnheard, RespondUnheard
<1>7. CASE SOther
  <2>1. UNCHANGED settingsVars
    BY <1>7 DEF SOther
  <2>2. CASE HostClosesStdin \/ HostClosesStdout \/ Reader \/ Main \/ StopCleanup
    BY <1>5, <2>1, <2>2
    DEF HostClosesStdin, HostClosesStdout, Reader, ReadLine, Enqueue,
        StopReading, Main, SignalShutdown, JoinWorkers, JoinWriter,
        JoinCleanup, Join, StopCleanup, EndCleanup
  <2>3. ASSUME NEW w \in Workers,
               LockReceiver(w) \/ Receive(w) \/ ReceiveClosed(w) \/ Panic(w)
        PROVE  SInv'
    BY <1>5, <2>1, <2>3
    DEF LockReceiver, Receive, ReceiveClosed, LeaveReceiver, Panic
  <2>4. CASE Writer
    <3>1. UNCHANGED accepted
      BY <2>4 DEF Writer, TakeResponse, Write, WriteLost, WriteFails,
                  StopWriting, LeaveChannel
    <3>2. CASE TakeResponse
      <4>1. Head(responses) \in Responding /\ Responding' \subseteq Responding
        BY <1>0, <3>2, TailFacts DEF TakeResponse, Responding, TypeOK
      <4>2. Writing' \subseteq {Head(responses)} /\ Answered' = Answered
        BY <3>2 DEF TakeResponse, Writing, Answered
      <4>3. QED BY <1>0, <2>1, <3>1, <4>1, <4>2, SettingsKept DEF SInv, Effects
    <3>3. CASE Write
      <4>1. body \in Writing /\ body \in Requests
        BY <1>0, <3>3 DEF Write, Writing, Inv, TypeInv, TypeOK, Occupied
      <4>2. Answered' = Answered \union {body}
        BY <1>0, <3>3, <4>1, AppendFacts DEF Write, Answered, TypeOK
      <4>3. Writing' = {} /\ Responding' = Responding
        BY <3>3 DEF Write, Writing, Responding
      <4>4. QED BY <1>0, <2>1, <3>1, <4>1, <4>2, <4>3, SettingsKept
            DEF SInv, Effects
    <3>4. CASE WriteLost \/ WriteFails
      <4>1. Writing' = {} /\ Responding' \subseteq Responding /\ Answered' = Answered
        BY <3>4, EmptyFacts
        DEF WriteLost, WriteFails, Writing, Responding, Answered
      <4>2. QED BY <1>0, <2>1, <3>1, <4>1, SettingsKept DEF SInv, Effects
    <3>5. CASE StopWriting
      BY <1>5, <2>1, <3>1, <3>5 DEF StopWriting, LeaveChannel
    <3>6. QED BY <2>4, <3>2, <3>3, <3>4, <3>5 DEF Writer
  <2>5. QED BY <1>7, <2>2, <2>3, <2>4 DEF SOther
<1>8. CASE UNCHANGED allVars
  BY <1>5, <1>8 DEF allVars, vars
<1>9. QED
  BY <1>1, <1>2, <1>3, <1>4, <1>6, <1>7, <1>8 DEF SNext

\* A request written after the response to an initialize never runs without a
\* default region, nor with one that initialize replaced.
THEOREM RegionIsNotSuperseded == SSpec => []NoSupersededRegion
<1>1. SInv => NoSupersededRegion
  BY DEF SInv
<1>2. QED
  BY <1>1, SInvInit, SInvStep, PTL DEF SSpec

\* Successive requests see successive initializes in order.
THEOREM RegionsAreNotInverted == SSpec => []NoRegionInversion
<1>1. SInv => NoRegionInversion
  BY DEF SInv
<1>2. QED
  BY <1>1, SInvInit, SInvStep, PTL DEF SSpec
=============================================================================
