---------------------------- MODULE ServerProofs ----------------------------
(***************************************************************************)
(* For a pool of any size, any way of running and any failures: when run() *)
(* has returned or the handle is gone, no thread of the pool is left, a    *)
(* failure to open has reached the caller, and the server does not listen. *)
(***************************************************************************)
EXTENDS Server, SequenceTheorems, TLAPS

Handlers == {"open", "close", "signal", "shutdown"}
OpenSteps == {"open", "opened", "openFailed"}
Steps == OpenSteps \cup {"none", "idle", "exited", "close", "closing", "closed",
                         "shutdown", "shutting", "shut"}

\* Handler h is among those queued; the open at most once.
Has(queue, h) == \E i \in 1..Len(queue) : queue[i] = h

OpenOnce(queue) ==
    \A i, j \in 1..Len(queue) : queue[i] = "open" /\ queue[j] = "open" => i = j

\* What is left of the queue when its i-th handler has been taken.
Without(queue, i) == SubSeq(queue, 1, i - 1) \o SubSeq(queue, i + 1, Len(queue))

ServerTypes ==
    /\ thread \in [Threads -> Steps]
    /\ posted \in Seq(Handlers)

\* Which handlers and which places of the caller belong to which way of running.
OwnMode ==
    /\ armed \/ main = "arm" => mode = "signal"
    /\ main \in {"future", "serving", "drop"} => mode = "runner"
    /\ mode = "shutdown" =>
         /\ ~Has(posted, "close") /\ ~Has(posted, "signal")
         /\ \A t \in Threads : thread[t] \notin {"close", "closing", "closed"}

\* The server is opened once: the open is not posted yet, or it is queued, or
\* one thread is at it, or it is over.
OpensOnce ==
    /\ main \in {"arm", "post"} =>
         /\ ~Has(posted, "open")
         /\ \A t \in Threads : thread[t] = "none"
         /\ opened = "no"
    /\ OpenOnce(posted)
    /\ \A t, u \in Threads : thread[t] \in OpenSteps /\ thread[u] \in OpenSteps => t = u
    /\ \A t \in Threads : thread[t] \in OpenSteps => ~Has(posted, "open") /\ opened = "no"
    /\ opened # "no" => ~Has(posted, "open")

\* The caller comes to wait() with a started pool, and leaves it when all
\* threads have been joined.
Joined ==
    /\ main \in {"wait", "future", "serving", "drop"} => m_status = "started"
    /\ main \in {"dtor", "done"} => AllExited
    /\ \A t \in Threads : thread[t] = "exited" => stopped
    /\ main \in {"dtor", "done"} => threw \/ stopped

\* A failure to open is on its way to the caller.
FailureKept ==
    /\ opened = "failed" /\ mode # "runner" => exception_caught
    /\ main \in {"serving", "drop"} => opened # "no"
    /\ main = "wait" /\ mode = "runner" => opened # "no"
    /\ opened = "failed" /\ main \in {"serving", "drop", "dtor", "done"} => threw
    /\ opened = "failed" /\ main = "wait" /\ mode = "runner" => threw

\* Who keeps the acceptor open, and who has closed it.
AcceptorKept ==
    /\ m_running_state = "running" => opened = "yes"
    /\ acceptor => m_running_state = "running" \/ \E t \in Threads : thread[t] = "opened"
    /\ \A t \in Threads : thread[t] \in {"closing", "shutting"} => ~acceptor /\ opened = "yes"
    /\ \A t \in Threads : thread[t] = "shut" => overtaken \/ (~acceptor /\ opened # "no")
    /\ mode = "shutdown" /\ stopped =>
         overtaken \/ threw \/ main \in {"unwind", "terminated"} \/ (~acceptor /\ opened # "no")
    /\ main = "done" => ~acceptor \/ mode = "shutdown"

ServerInv ==
    ServerTypes /\ OwnMode /\ OpensOnce /\ Joined /\ FailureKept /\ AcceptorKept

-----------------------------------------------------------------------------
(* The queue of the io_context                                             *)

\* A handler that is posted joins the queue.
LEMMA Appended ==
    ASSUME NEW q \in Seq(Handlers), NEW x \in Handlers, NEW r, r = Append(q, x)
    PROVE  /\ r \in Seq(Handlers)
           /\ \A h : Has(r, h) => Has(q, h) \/ h = x
           /\ OpenOnce(q) /\ (x = "open" => ~Has(q, "open")) => OpenOnce(r)
<1>1. r \in Seq(Handlers) /\ Len(r) = Len(q) + 1 /\ Len(q) \in Nat
  OBVIOUS
<1>2. \A i \in 1..Len(r) : r[i] = IF i <= Len(q) THEN q[i] ELSE x
  BY <1>1
<1>3. \A h : Has(r, h) => Has(q, h) \/ h = x
  BY <1>1, <1>2 DEF Has
<1>4. OpenOnce(q) /\ (x = "open" => ~Has(q, "open")) => OpenOnce(r)
  BY <1>1, <1>2 DEF Has, OpenOnce
<1>. QED
  BY <1>1, <1>3, <1>4

\* A handler that is taken leaves it; the open then is queued no more.
LEMMA Removed ==
    ASSUME NEW q \in Seq(Handlers), NEW i \in 1..Len(q), NEW r,
           r = Without(q, i)
    PROVE  /\ r \in Seq(Handlers)
           /\ \A h : Has(r, h) => Has(q, h)
           /\ OpenOnce(q) => OpenOnce(r)
           /\ OpenOnce(q) /\ q[i] = "open" => ~Has(r, "open")
<1>. DEFINE a == SubSeq(q, 1, i - 1)
            b == SubSeq(q, i + 1, Len(q))
<1>1. /\ a \in Seq(Handlers) /\ Len(a) = i - 1 /\ \A j \in 1..(i - 1) : a[j] = q[j]
      /\ b \in Seq(Handlers) /\ Len(b) = Len(q) - i
      /\ \A j \in 1..(Len(q) - i) : b[j] = q[j + i]
  OBVIOUS
<1>. HIDE DEF a, b
<1>2. r = a \o b
  BY DEF a, b, Without
<1>3. /\ r \in Seq(Handlers) /\ Len(r) = Len(a) + Len(b)
      /\ \A j \in 1..(Len(a) + Len(b)) : r[j] = IF j <= Len(a) THEN a[j] ELSE b[j - Len(a)]
  BY ONLY Zenon, <1>1, <1>2, ConcatProperties
<1>4. Len(q) \in Nat /\ i \in 1..Len(q)
  OBVIOUS
<1>5. r \in Seq(Handlers) /\ Len(r) = Len(q) - 1 /\ Len(q) \in Nat /\ i \in 1..Len(q)
  <2>1. Len(a) = i - 1 /\ Len(b) = Len(q) - i /\ Len(r) = Len(a) + Len(b)
    BY Zenon, <1>1, <1>3
  <2>2. Len(r) = Len(q) - 1
    BY ONLY <1>4, <2>1
  <2>. QED
    BY Zenon, <1>4, <1>3, <2>2
<1>. DEFINE was(j) == IF j < i THEN j ELSE j + 1
<1>6. \A j \in 1..Len(r) : was(j) \in 1..Len(q) \ {i} /\ r[j] = q[was(j)]
  <2>. SUFFICES ASSUME NEW j \in 1..Len(r) PROVE was(j) \in 1..Len(q) \ {i} /\ r[j] = q[was(j)]
    BY Zenon
  <2>1. CASE j < i
    <3>1. j \in 1..(i - 1) /\ j <= Len(a) /\ j \in 1..(Len(a) + Len(b))
      BY ONLY <1>5, <1>1, <2>1, j \in 1..Len(r)
    <3>2. r[j] = q[j]
      BY ONLY Zenon, <1>1, <1>3, <3>1
    <3>. QED
      BY ONLY <1>5, <2>1, <3>2, j \in 1..Len(r)
  <2>2. CASE ~(j < i)
    <3>1. j - Len(a) \in 1..(Len(q) - i) /\ j - Len(a) + i = j + 1 /\ ~(j <= Len(a))
      BY ONLY <1>5, <1>1, <2>2, j \in 1..Len(r)
    <3>2. r[j] = q[j + 1]
      BY ONLY Zenon, <1>5, <1>1, <1>3, <3>1, j \in 1..Len(r)
    <3>. QED
      BY ONLY <1>5, <2>2, <3>2, j \in 1..Len(r)
  <2>. QED
    BY <2>1, <2>2
<1>7. \A j, k \in 1..Len(r) : was(j) = was(k) => j = k
  BY <1>5
<1>. HIDE DEF was
<1>8. \A h : Has(r, h) => Has(q, h)
  BY ONLY <1>6 DEF Has
<1>9. OpenOnce(q) => OpenOnce(r)
  BY ONLY SMTT(30), <1>6, <1>7 DEF OpenOnce
<1>10. ASSUME OpenOnce(q), q[i] = "open" PROVE ~Has(r, "open")
  BY ONLY <1>6, <1>10, i \in 1..Len(q) DEF OpenOnce, Has
<1>. QED
  BY <1>5, <1>8, <1>9, <1>10

-----------------------------------------------------------------------------
(* The invariant                                                           *)

\* The pool has a thread.
LEMMA FirstThread == 1 \in Threads
  BY ServerAssumption DEF Threads

\* A server that has not been started satisfies the invariant.
LEMMA InvInit == ServerInit => ServerInv
<1>. SUFFICES ASSUME ServerInit PROVE ServerInv
  OBVIOUS
<1>1. posted \in Seq(Handlers) /\ (\A h : ~Has(posted, h)) /\ OpenOnce(posted)
  BY DEF ServerInit, Has, OpenOnce
<1>2. thread \in [Threads -> Steps] /\ \A t \in Threads : thread[t] = "none"
  BY Zenon DEF ServerInit, Steps, OpenSteps
<1>. QED
  BY Zenon, <1>1, <1>2 DEF ServerInit, ServerInv, ServerTypes, OwnMode, OpensOnce,
     Joined, FailureKept, AcceptorKept, AllExited, OpenSteps

\* A thread takes a handler from the queue: the open is then with the thread
\* and no longer in the queue, and the signal has become a close.
LEMMA InvTakeHandler ==
    ASSUME ServerInv, NEW t \in Threads, TakeHandler(t)
    PROVE  ServerInv'
<1>1. PICK i \in 1..Len(posted) :
         LET rest == SubSeq(posted, 1, i - 1) \o SubSeq(posted, i + 1, Len(posted))
             signal == posted[i] = "signal"
         IN  /\ thread[t] = "idle"
             /\ ~stopped
             /\ Ready(i)
             /\ thread' = [thread EXCEPT ![t] = IF signal THEN @ ELSE posted[i]]
             /\ posted' = IF signal THEN Append(rest, "close") ELSE rest
             /\ UNCHANGED <<mode, main, stopped, m_status, m_running_state,
                            acceptor, m_cleanup_functor, exception_caught, armed,
                            opened, asked, cannotEnd, overtaken, threw>>
  BY Zenon DEF TakeHandler
<1>. DEFINE rest == Without(posted, i)
<1>2. /\ rest \in Seq(Handlers) /\ OpenOnce(rest)
      /\ \A h : Has(rest, h) => Has(posted, h)
      /\ posted[i] = "open" => ~Has(rest, "open")
  <2>1. posted \in Seq(Handlers) /\ OpenOnce(posted) /\ i \in 1..Len(posted)
    BY Zenon DEF ServerInv, ServerTypes, OpensOnce
  <2>. HIDE DEF rest
  <2>. QED
    BY Zenon, <2>1, Removed DEF rest
<1>3. posted[i] \in Handlers /\ Has(posted, posted[i])
  BY DEF Has, ServerInv, ServerTypes
<1>. HIDE DEF rest
<1>. USE DEF ServerInv, ServerTypes, OwnMode, OpensOnce, Joined, FailureKept, AcceptorKept,
         AllExited, OpenSteps, Steps, Handlers
<1>4. CASE posted[i] = "signal"
  <2>1. thread' = [thread EXCEPT ![t] = "idle"] /\ posted' = Append(rest, "close")
    BY Zenon, <1>1, <1>4 DEF rest, Without
  <2>2. /\ posted' \in Seq(Handlers) /\ OpenOnce(posted')
        /\ \A h : Has(posted', h) => Has(posted, h) \/ h = "close"
    BY Zenon, <1>2, <2>1, Appended
  <2>. QED
    BY ZenonT(60), <1>1, <1>3, <1>4, <2>1, <2>2
<1>5. CASE posted[i] # "signal"
  <2>1. thread' = [thread EXCEPT ![t] = posted[i]] /\ posted' = rest
    BY Zenon, <1>1, <1>5 DEF rest, Without
  <2>2. ServerTypes' /\ Joined' /\ FailureKept'
    BY ZenonT(60), <1>1, <1>2, <1>3, <1>5, <2>1
  <2>3. OwnMode'
    BY ZenonT(60), <1>1, <1>2, <1>3, <1>5, <2>1
  <2>4. OpensOnce'
    BY ZenonT(60), <1>1, <1>2, <1>3, <1>5, <2>1
  <2>5. AcceptorKept'
    BY ZenonT(60), <1>1, <1>3, <1>5, <2>1
  <2>. QED
    BY Zenon, <2>2, <2>3, <2>4, <2>5
<1>. QED
  BY Zenon, <1>4, <1>5

\* The steps of the caller and of the application.
LEMMA InvCaller ==
    ASSUME ServerInv, Caller \/ Signal \/ initiate_shutdown \/ RunnerStop \/ RunnerDrop
                      \/ StartThreadFails
    PROVE  ServerInv'
<1>. USE DEF ServerInv, ServerTypes, OwnMode, OpensOnce, Joined, FailureKept, AcceptorKept,
         AllExited, OpenSteps, Steps, Handlers
<1>1. ASSUME ArmSignal PROVE ServerInv'
  BY Zenon, <1>1 DEF ArmSignal
<1>2. ASSUME open_async PROVE ServerInv'
  BY Zenon, <1>2, Appended DEF open_async
<1>3. ASSUME NEW t \in Threads, StartThread(t) PROVE ServerInv'
  <2>1. /\ main = "spawn" /\ main' \in {"spawn", "status"}
        /\ thread[t] = "none" /\ thread' = [thread EXCEPT ![t] = "idle"]
        /\ UNCHANGED <<mode, posted, stopped, m_status, m_running_state, acceptor,
                       exception_caught, armed, opened, overtaken, threw>>
    BY Zenon, <1>3 DEF StartThread
  <2>. QED
    BY ZenonT(60), <2>1
<1>4. ASSUME StartThreadFails PROVE ServerInv'
  BY Zenon, <1>4 DEF StartThreadFails
<1>5. ASSUME Unwind PROVE ServerInv'
  BY Zenon, <1>5 DEF Unwind
<1>6. ASSUME StatusStarted PROVE ServerInv'
  BY Zenon, <1>6 DEF StatusStarted
<1>7. ASSUME FutureReady PROVE ServerInv'
  BY Zenon, <1>7 DEF FutureReady
<1>8. ASSUME RunnerStop PROVE ServerInv'
  BY Zenon, <1>8, Appended DEF RunnerStop
<1>9. ASSUME RunnerDrop PROVE ServerInv'
  BY Zenon, <1>9 DEF RunnerDrop
<1>10. ASSUME PoolDtor PROVE ServerInv'
  BY Zenon, <1>10 DEF PoolDtor, stop
<1>11. ASSUME wait PROVE ServerInv'
  BY Zenon, <1>11, FirstThread DEF wait
<1>12. ASSUME ServerDtor PROVE ServerInv'
  BY Zenon, <1>12 DEF ServerDtor
<1>13. ASSUME Signal PROVE ServerInv'
  BY Zenon, <1>13, Appended DEF Signal
<1>14. ASSUME initiate_shutdown PROVE ServerInv'
  BY ZenonT(60), <1>14, Appended DEF initiate_shutdown
<1>. HIDE DEF ServerInv
<1>. QED
  BY Zenon, <1>1, <1>2, <1>3, <1>4, <1>5, <1>6, <1>7, <1>8, <1>9, <1>10, <1>11, <1>12, <1>13, <1>14 DEF Caller

\* The steps of a thread of the pool.
LEMMA InvThread ==
    ASSUME ServerInv, NEW t \in Threads, PoolThread(t) \/ CloseFails(t)
    PROVE  ServerInv'
<1>. USE DEF ServerInv, ServerTypes, OwnMode, OpensOnce, Joined, FailureKept, AcceptorKept,
         AllExited, OpenSteps, Steps, Handlers
<1>1. ASSUME ThreadExits(t) PROVE ServerInv'
  BY ZenonT(60), <1>1 DEF ThreadExits
<1>2. ASSUME OpenOk(t) PROVE ServerInv'
  BY ZenonT(60), <1>2 DEF OpenOk
<1>3. ASSUME OpenError(t) PROVE ServerInv'
  BY Zenon, <1>3 DEF OpenError, stop
<1>4. ASSUME close_sync(t) PROVE ServerInv'
  BY ZenonT(60), <1>4 DEF close_sync, Closing, Closed
<1>5. ASSUME CloseEnds(t) PROVE ServerInv'
  BY ZenonT(60), <1>5 DEF CloseEnds, Closed
<1>6. ASSUME CloseOk(t) PROVE ServerInv'
  BY ZenonT(60), <1>6 DEF CloseOk, stop
<1>7. ASSUME CloseFails(t) PROVE ServerInv'
  BY ZenonT(60), <1>7 DEF CloseFails
<1>8. ASSUME open_sync(t) PROVE ServerInv'
  <2>1. ServerTypes' /\ OwnMode' /\ OpensOnce' /\ Joined' /\ FailureKept'
    BY ZenonT(60), <1>8 DEF open_sync
  <2>2. opened = "no" /\ main # "done" /\ m_running_state # "running"
    BY Zenon, <1>8 DEF open_sync
  <2>3. CASE thread' = [thread EXCEPT ![t] = "opened"] /\ acceptor' = TRUE
    BY Zenon, <1>8, <2>1, <2>2, <2>3 DEF open_sync
  <2>4. CASE thread' = [thread EXCEPT ![t] = "openFailed"] /\ UNCHANGED acceptor
    BY Zenon, <1>8, <2>1, <2>2, <2>4 DEF open_sync
  <2>. QED
    BY Zenon, <1>8, <2>3, <2>4 DEF open_sync
<1>. HIDE DEF ServerInv
<1>. QED
  BY Zenon, <1>1, <1>2, <1>3, <1>4, <1>5, <1>6, <1>7, <1>8, InvTakeHandler DEF PoolThread

\* Every step of the caller, of a thread and of the application keeps it.
LEMMA InvStep == ServerInv /\ [ServerNext]_serverVars => ServerInv'
<1>. SUFFICES ASSUME ServerInv, [ServerNext]_serverVars PROVE ServerInv'
  OBVIOUS
<1>1. CASE UNCHANGED serverVars
  BY ZenonT(60), <1>1 DEF serverVars, ServerInv, ServerTypes, OwnMode, OpensOnce, Joined,
     FailureKept, AcceptorKept, AllExited
<1>2. CASE ServerNext
  BY Zenon, <1>2, InvThread, InvCaller DEF ServerNext, Environment
<1>. QED
  BY Zenon, <1>1, <1>2

\* ServerInv, which relates the queue of handlers, the threads that execute
\* them and the caller, holds in every state.
THEOREM ServerInvariant == ServerSpec => []ServerInv
  BY InvInit, InvStep, PTL DEF ServerSpec

\* When run() has returned or the handle is gone, all threads of the pool have
\* ended, and a failure to open the server has reached the caller.
THEOREM ReturnsFinally == ServerSpec => []ReturnIsFinal
<1>1. ServerInv => ReturnIsFinal
  BY Zenon DEF ServerInv, Joined, FailureKept, ReturnIsFinal
<1>. QED
  BY <1>1, ServerInvariant, PTL

\* When run() has returned or the handle is gone, the server does not listen,
\* apart from the two cases in which an existing server stays open.
THEOREM ReturnsClosed == ServerSpec => []ClosedOnReturn
<1>1. ServerInv => ClosedOnReturn
  BY Zenon DEF ServerInv, Joined, AcceptorKept, ClosedOnReturn, AllExited, OpensOnce, OpenSteps
<1>. QED
  BY <1>1, ServerInvariant, PTL

=============================================================================
