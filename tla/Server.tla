------------------------------- MODULE Server -------------------------------
(***************************************************************************)
(* Starting and stopping a server: http_server_t, the pool of threads its  *)
(* io_context runs on (ioctx_on_thread_pool_t) and the three ways to run   *)
(* it on a pool (http_server_run.hpp):                                     *)
(*                                                                         *)
(*   "signal"    run() of settings: the caller waits for SIGINT;           *)
(*   "shutdown"  run() of an existing server without signal handling,      *)
(*               ended by initiate_shutdown() from any thread;             *)
(*   "runner"    run_async(): a handle with stop(), wait() and a           *)
(*               destructor, on top of on_pool_runner_t.                   *)
(*                                                                         *)
(* The caller's thread and the pool's threads interleave step by step.     *)
(* m_status and m_running_state are read and written without a lock; the   *)
(* open/close strand orders "open" and "close", but initiate_shutdown      *)
(* posts past it.                                                          *)
(***************************************************************************)
EXTENDS Naturals, Sequences, FiniteSets

CONSTANTS
    PoolSize,       \* number of threads of the pool
    Modes,          \* the ways of running that are explored
    ServerFaults    \* what may fail: "open", "close", "thread"

ASSUME ServerAssumption ==
    /\ PoolSize \in Nat \ {0}
    /\ Modes \subseteq {"signal", "shutdown", "runner"}
    /\ ServerFaults \subseteq {"open", "close", "thread"}

VARIABLES
    mode,             \* the way of running
    main,             \* where the caller's thread is
    thread,           \* what each pool thread is doing
    posted,           \* handlers queued in the io_context, oldest first
    stopped,          \* io_context::stopped()
    m_status,         \* ioctx_on_thread_pool_t::m_status
    m_running_state,  \* http_server_t::m_running_state
    acceptor,         \* is the acceptor's socket open
    m_cleanup_functor,\* the cleanup functor has not been called yet
    exception_caught, \* an exception is kept for the caller
    armed,            \* break_signals waits for SIGINT
    opened,           \* history: "no", "yes" or "failed"
    asked,            \* history: somebody asked for the end
    cannotEnd,        \* history: a stop that had no effect
    overtaken,        \* history: a shutdown ran before the open had finished
    threw             \* the caller received an exception

serverVars == <<mode, main, thread, posted, stopped, m_status, m_running_state,
                acceptor, m_cleanup_functor, exception_caught, armed, opened,
                asked, cannotEnd, overtaken, threw>>

Threads == 1..PoolSize
Strand == {"open", "close"}
StrandSteps == {"open", "opened", "openFailed", "close", "closing", "closed"}

ServerInit ==
    /\ mode \in Modes
    /\ main = IF mode = "signal" THEN "arm" ELSE "post"
    /\ thread = [t \in Threads |-> "none"]
    /\ posted = <<>>
    /\ stopped = FALSE
    /\ m_status = "stopped"
    /\ m_running_state = "not_running"
    /\ acceptor = FALSE
    /\ m_cleanup_functor = TRUE
    /\ exception_caught = FALSE
    /\ armed = FALSE
    /\ opened = "no"
    /\ asked = FALSE
    /\ cannotEnd = FALSE
    /\ overtaken = FALSE
    /\ threw = FALSE

-----------------------------------------------------------------------------
(* ioctx_on_thread_pool_t                                                  *)

\* stop(): the io_context is stopped only when start() has set m_status; a
\* call that comes earlier is lost.
stop ==
    /\ stopped' = (stopped \/ m_status = "started")
    /\ cannotEnd' = (cannotEnd \/ m_status # "started")

AllExited == \A t \in Threads : thread[t] \in {"none", "exited"}

\* start() creates the threads one by one ...
StartThread(t) ==
    /\ main = "spawn"
    /\ thread[t] = "none"
    /\ \A u \in Threads : u < t => thread[u] # "none"
    /\ thread' = [thread EXCEPT ![t] = "idle"]
    /\ main' = IF t = PoolSize THEN "status" ELSE "spawn"
    /\ UNCHANGED <<mode, posted, stopped, m_status, m_running_state, acceptor,
                   m_cleanup_functor, exception_caught, armed, opened, asked,
                   cannotEnd, overtaken, threw>>

\* ... and when one cannot be created stops the io_context, joins those that
\* were, and throws.
StartThreadFails ==
    /\ "thread" \in ServerFaults
    /\ main = "spawn"
    /\ stopped' = TRUE
    /\ main' = "unwind"
    /\ UNCHANGED <<mode, thread, posted, m_status, m_running_state, acceptor,
                   m_cleanup_functor, exception_caught, armed, opened, asked,
                   cannotEnd, overtaken, threw>>

Unwind ==
    /\ main = "unwind"
    /\ AllExited
    /\ threw' = TRUE
    /\ main' = "dtor"
    /\ UNCHANGED <<mode, thread, posted, stopped, m_status, m_running_state,
                   acceptor, m_cleanup_functor, exception_caught, armed, opened,
                   asked, cannotEnd, overtaken>>

\* m_status = started is the last step of start(): the threads run before it.
StatusStarted ==
    /\ main = "status"
    /\ m_status' = "started"
    /\ main' = IF mode = "runner" THEN "future" ELSE "wait"
    /\ UNCHANGED <<mode, thread, posted, stopped, m_running_state, acceptor,
                   m_cleanup_functor, exception_caught, armed, opened, asked,
                   cannotEnd, overtaken, threw>>

JoinsFirstOnly ==
    /\ main = "wait"
    /\ m_status = "started" => thread[1] = "exited"
    /\ m_status' = "stopped"
    /\ threw' = (threw \/ exception_caught)
    /\ main' = "dtor"
    /\ UNCHANGED <<mode, thread, posted, stopped, m_running_state, acceptor,
                   m_cleanup_functor, exception_caught, armed, opened, asked,
                   cannotEnd, overtaken>>

\* wait() joins every thread of a started pool; then run() rethrows what the
\* handlers kept for it.
wait ==
    /\ main = "wait"
    /\ m_status = "started" => \A t \in Threads : thread[t] = "exited"
    /\ m_status' = "stopped"
    /\ threw' = (threw \/ exception_caught)
    /\ main' = "dtor"
    /\ UNCHANGED <<mode, thread, posted, stopped, m_running_state, acceptor,
                   m_cleanup_functor, exception_caught, armed, opened, asked,
                   cannotEnd, overtaken>>

-----------------------------------------------------------------------------
(* The caller                                                              *)

\* break_signals.async_wait
ArmSignal ==
    /\ main = "arm"
    /\ armed' = TRUE
    /\ main' = "post"
    /\ UNCHANGED <<mode, thread, posted, stopped, m_status, m_running_state,
                   acceptor, m_cleanup_functor, exception_caught, opened, asked,
                   cannotEnd, overtaken, threw>>

\* open_async posts to the open/close strand before the pool has a thread.
open_async ==
    /\ main = "post"
    /\ posted' = Append(posted, "open")
    /\ main' = "spawn"
    /\ UNCHANGED <<mode, thread, stopped, m_status, m_running_state, acceptor,
                   m_cleanup_functor, exception_caught, armed, opened, asked,
                   cannotEnd, overtaken, threw>>

\* running_server_instance_t::start() waits for the promise: on a failure
\* run_async() throws, and destroys the handle.
FutureReady ==
    /\ main = "future"
    /\ opened # "no"
    /\ threw' = (opened = "failed")
    /\ main' = IF opened = "failed" THEN "drop" ELSE "serving"
    /\ UNCHANGED <<mode, thread, posted, stopped, m_status, m_running_state,
                   acceptor, m_cleanup_functor, exception_caught, armed, opened,
                   asked, cannotEnd, overtaken>>

\* on_pool_runner_t::stop() posts the close, and the user calls wait().
RunnerStop ==
    /\ main = "serving"
    /\ posted' = Append(posted, "close")
    /\ asked' = TRUE
    /\ main' = "wait"
    /\ UNCHANGED <<mode, thread, stopped, m_status, m_running_state, acceptor,
                   m_cleanup_functor, exception_caught, armed, opened, cannotEnd,
                   overtaken, threw>>

\* The user drops the handle without stopping it.
RunnerDrop ==
    /\ main = "serving"
    /\ asked' = TRUE
    /\ main' = "drop"
    /\ UNCHANGED <<mode, thread, posted, stopped, m_status, m_running_state,
                   acceptor, m_cleanup_functor, exception_caught, armed, opened,
                   cannotEnd, overtaken, threw>>

\* ~ioctx_on_thread_pool_t of a started pool: stop(), then wait().
PoolDtor ==
    /\ main = "drop"
    /\ stop
    /\ main' = "wait"
    /\ UNCHANGED <<mode, thread, posted, m_status, m_running_state, acceptor,
                   m_cleanup_functor, exception_caught, armed, opened, asked,
                   overtaken, threw>>

\* ~http_server_t calls close_sync(); an existing server outlives run().
ServerDtor ==
    /\ main = "dtor"
    /\ main' = "done"
    /\ IF mode # "shutdown" /\ m_running_state = "running"
       THEN /\ acceptor' = FALSE
            /\ m_cleanup_functor' = FALSE
            /\ m_running_state' = "not_running"
       ELSE UNCHANGED <<acceptor, m_cleanup_functor, m_running_state>>
    /\ UNCHANGED <<mode, thread, posted, stopped, m_status, exception_caught,
                   armed, opened, asked, cannotEnd, overtaken, threw>>

\* SIGINT: the handler of break_signals is queued, once.
Signal ==
    /\ armed
    /\ armed' = FALSE
    /\ posted' = Append(posted, "signal")
    /\ asked' = TRUE
    /\ UNCHANGED <<mode, main, thread, stopped, m_status, m_running_state,
                   acceptor, m_cleanup_functor, exception_caught, opened,
                   cannotEnd, overtaken, threw>>

\* initiate_shutdown, by some thread of the application: posted to the
\* io_context itself and not to the strand.
initiate_shutdown ==
    /\ mode = "shutdown"
    /\ ~asked
    /\ asked' = TRUE
    /\ posted' = Append(posted, "shutdown")
    /\ UNCHANGED <<mode, main, thread, stopped, m_status, m_running_state,
                   acceptor, m_cleanup_functor, exception_caught, armed, opened,
                   cannotEnd, overtaken, threw>>

-----------------------------------------------------------------------------
(* The threads of the pool                                                 *)

StrandFree == \A t \in Threads : thread[t] \notin StrandSteps

\* A handler that can run now: the strand runs one handler at a time.
Ready(i) ==
    LET Blocked(j) == posted[j] \in Strand /\ ~StrandFree
    IN  ~Blocked(i) /\ \A j \in 1..(i - 1) : Blocked(j)

\* io_context::run() takes a handler.  The handler of the signal only posts
\* the close.
TakeHandler(t) ==
    \E i \in 1..Len(posted) :
        LET rest == SubSeq(posted, 1, i - 1) \o SubSeq(posted, i + 1, Len(posted))
            signal == posted[i] = "signal"
        IN  /\ thread[t] = "idle"
            /\ ~stopped
            /\ Ready(i)
            /\ thread' = [thread EXCEPT ![t] = IF signal THEN @ ELSE posted[i]]
            /\ posted' = IF signal THEN Append(rest, "close") ELSE rest
            /\ UNCHANGED <<mode, main, stopped, m_status, m_running_state,
                           acceptor, m_cleanup_functor, exception_caught, armed,
                           opened, asked, cannotEnd, overtaken, threw>>

\* run() returns once the io_context is stopped; the work guard keeps it
\* waiting until then.
ThreadExits(t) ==
    /\ thread[t] = "idle"
    /\ stopped
    /\ thread' = [thread EXCEPT ![t] = "exited"]
    /\ UNCHANGED <<mode, main, posted, stopped, m_status, m_running_state,
                   acceptor, m_cleanup_functor, exception_caught, armed, opened,
                   asked, cannotEnd, overtaken, threw>>

\* open_sync: the acceptor is opened (acceptor_t::open closes the socket again
\* when a step of it fails) and only then the server is running.  The test that
\* it is not running yet succeeds: open is posted once.
open_sync(t) ==
    /\ thread[t] = "open"
    /\ \/ /\ thread' = [thread EXCEPT ![t] = "opened"]
          /\ acceptor' = TRUE
       \/ /\ "open" \in ServerFaults
          /\ thread' = [thread EXCEPT ![t] = "openFailed"]
          /\ UNCHANGED acceptor
    /\ UNCHANGED <<mode, main, posted, stopped, m_status, m_running_state,
                   m_cleanup_functor, exception_caught, armed, opened, asked,
                   cannotEnd, overtaken, threw>>

OpenOk(t) ==
    /\ thread[t] = "opened"
    /\ m_running_state' = "running"
    /\ opened' = "yes"
    /\ thread' = [thread EXCEPT ![t] = "idle"]
    /\ UNCHANGED <<mode, main, posted, stopped, m_status, acceptor,
                   m_cleanup_functor, exception_caught, armed, asked, cannotEnd,
                   overtaken, threw>>

OpenErrorKeepsPool(t) ==
    /\ thread[t] = "openFailed"
    /\ exception_caught' = (mode # "runner")
    /\ opened' = "failed"
    /\ asked' = TRUE
    /\ thread' = [thread EXCEPT ![t] = "idle"]
    /\ UNCHANGED <<mode, main, posted, stopped, m_status, m_running_state,
                   acceptor, m_cleanup_functor, armed, cannotEnd, overtaken,
                   threw>>

\* The error callback of open_async: pool.stop(), then the exception is kept
\* (run) or goes to the promise (run_async).
OpenError(t) ==
    /\ thread[t] = "openFailed"
    /\ stop
    /\ exception_caught' = (mode # "runner")
    /\ opened' = "failed"
    /\ asked' = TRUE
    /\ thread' = [thread EXCEPT ![t] = "idle"]
    /\ UNCHANGED <<mode, main, posted, m_status, m_running_state, acceptor,
                   m_cleanup_functor, armed, overtaken, threw>>

\* The steps of close_sync, run by the strand ("close", "closing", "closed")
\* or by initiate_shutdown ("shutdown", "shutting", "shut").
Closing(pc) == IF pc = "close" THEN "closing" ELSE "shutting"
Closed(pc) == IF pc \in {"close", "closing"} THEN "closed" ELSE "shut"

CloseKeepsAcceptor(t) ==
    /\ thread[t] \in {"close", "shutdown"}
    /\ overtaken' = (overtaken \/ (thread[t] = "shutdown" /\ opened = "no"))
    /\ thread' = [thread EXCEPT ![t] = Closed(@)]
    /\ UNCHANGED <<mode, main, posted, stopped, m_status, m_running_state,
                   acceptor, m_cleanup_functor, exception_caught, armed, opened,
                   asked, cannotEnd, threw>>

\* close_sync does nothing for a server that is not running (yet).
close_sync(t) ==
    /\ thread[t] \in {"close", "shutdown"}
    /\ overtaken' = (overtaken \/ (thread[t] = "shutdown" /\ opened = "no"))
    /\ thread' = [thread EXCEPT ![t] =
           IF m_running_state = "running" THEN Closing(@) ELSE Closed(@)]
    /\ acceptor' = (acceptor /\ m_running_state # "running")
    /\ UNCHANGED <<mode, main, posted, stopped, m_status, m_running_state,
                   m_cleanup_functor, exception_caught, armed, opened, asked,
                   cannotEnd, threw>>

CloseEnds(t) ==
    /\ thread[t] \in {"closing", "shutting"}
    /\ m_cleanup_functor' = FALSE
    /\ m_running_state' = "not_running"
    /\ thread' = [thread EXCEPT ![t] = Closed(@)]
    /\ UNCHANGED <<mode, main, posted, stopped, m_status, acceptor,
                   exception_caught, armed, opened, asked, cannotEnd, overtaken,
                   threw>>

\* acceptor.close() throws.  On the strand the error callback keeps the
\* exception (run) or drops it (runner), and nobody stops the pool; out of the
\* handler of initiate_shutdown it ends the process.
CloseFails(t) ==
    /\ "close" \in ServerFaults
    /\ thread[t] \in {"close", "shutdown"}
    /\ m_running_state = "running"
    /\ thread' = [thread EXCEPT ![t] = "idle"]
    /\ main' = IF thread[t] = "shutdown" THEN "terminated" ELSE main
    /\ exception_caught' = (exception_caught \/ mode = "signal")
    /\ cannotEnd' = TRUE
    /\ UNCHANGED <<mode, posted, stopped, m_status, m_running_state, acceptor,
                   m_cleanup_functor, armed, opened, asked, overtaken, threw>>

\* After close_sync: pool.stop() by the close callback, io_context.stop() by
\* initiate_shutdown.
CloseOk(t) ==
    /\ \/ thread[t] = "closed" /\ stop
       \/ thread[t] = "shut" /\ stopped' = TRUE /\ UNCHANGED cannotEnd
    /\ thread' = [thread EXCEPT ![t] = "idle"]
    /\ UNCHANGED <<mode, main, posted, m_status, m_running_state, acceptor,
                   m_cleanup_functor, exception_caught, armed, opened, asked,
                   overtaken, threw>>

-----------------------------------------------------------------------------
PoolThread(t) ==
    \/ TakeHandler(t) \/ ThreadExits(t)
    \/ open_sync(t) \/ OpenOk(t) \/ OpenError(t)
    \/ close_sync(t) \/ CloseEnds(t) \/ CloseOk(t)

Caller ==
    \/ ArmSignal \/ open_async \/ (\E t \in Threads : StartThread(t))
    \/ Unwind \/ StatusStarted \/ FutureReady \/ PoolDtor \/ wait \/ ServerDtor

Environment ==
    \/ Signal \/ initiate_shutdown \/ RunnerStop \/ RunnerDrop
    \/ StartThreadFails \/ \E t \in Threads : CloseFails(t)

ServerNext ==
    /\ main # "terminated"
    /\ \/ \E t \in Threads : PoolThread(t)
       \/ Caller
       \/ Environment

ServerSpec == ServerInit /\ [][ServerNext]_serverVars

\* Every thread is scheduled; nobody has to raise a signal, stop or fail.
ServerFairSpec ==
    /\ ServerSpec
    /\ WF_serverVars(main # "terminated" /\ Caller)
    /\ \A t \in Threads : WF_serverVars(main # "terminated" /\ PoolThread(t))

-----------------------------------------------------------------------------
\* When run() has returned, or the handle is gone, no thread of the pool is
\* left to run a handler that refers to the caller's stack, and a failure to
\* open the server has reached the caller as an exception (start(), wait() and
\* the "propagated" exception of run()).
ReturnIsFinal ==
    main = "done" => /\ AllExited
                     /\ opened = "failed" => threw

\* A server does not listen after run() has returned or its handle is gone,
\* whatever order opening, closing, failing and destruction came in.  An
\* existing server, which outlives run(), stays open in two cases: run() throws
\* because a thread could not be created, and an initiate_shutdown ran before
\* the open had finished (it is not on the strand, and its close_sync finds a
\* server that is not running yet).
ClosedOnReturn ==
    main = "done" => ~acceptor \/ (mode = "shutdown" /\ (threw \/ overtaken))

\* Once its end has been asked for (SIGINT, initiate_shutdown, stop(), the
\* destructor of the handle) or the server could not be opened, the caller
\* returns; except when stop() came before m_status said started or closing
\* the acceptor failed, after which nothing stops the io_context.
AskedEnds ==
    asked ~> (main \in {"done", "terminated"} \/ cannotEnd)

=============================================================================
