------------------------------ MODULE Acceptor ------------------------------
(***************************************************************************)
(* restinio::impl::acceptor_t together with its connection count limiter.  *)
(*                                                                         *)
(* The acceptor owns a pool of socket slots.  open() starts one chain of   *)
(* accepts per slot; a chain is an async_accept whose completion handler   *)
(* creates a connection and asks the limiter for the next accept on the    *)
(* same slot.  Handlers of different slots run on different threads of the *)
(* pool, so every critical section of the limiter, and every call made     *)
(* between two of them, is a step of its own.                              *)
(*                                                                         *)
(* A chain is named <<slot, epoch>>, epoch being the number of the open()  *)
(* that started it: the code only knows the slot.                          *)
(***************************************************************************)
EXTENDS ConnectionCountLimiter

CONSTANTS
  Slots,       \* 0 .. concurrent_accepts_count - 1
  MaxOpens,    \* bound: how many times the server is opened
  Conns,       \* identities of live connections
  Separate,    \* m_separate_accept_and_create_connect
  Faults       \* which of the failures below the environment may inject

ASSUME AcceptorAssumption ==
  /\ Slots \in SUBSET Nat
  /\ IsFiniteSet(Slots)
  /\ MaxOpens \in Nat \ {0}
  /\ IsFiniteSet(Conns)
  /\ Separate \in BOOLEAN
  /\ Faults \subseteq {"deny", "endpoint", "accept", "create"}

VARIABLES
  isOpen,      \* m_acceptor.is_open()
  opens,       \* number of open() calls so far
  chain,       \* what each accept chain is doing
  conn,        \* "none", "made" (create_and_init_connection built), "open"
  madeBy       \* the chain whose handler built a connection

acceptorVars == <<isOpen, opens, chain, conn, madeBy>>
vars == <<limiterVars, acceptorVars>>

Chains == Slots \X (1 .. MaxOpens)

\* "opening"   the loop of open() has still to call accept_next for the slot
\* "posted"    schedule_next_accept_attempt posted accept_next
\* "handled"   the completion handler is about to call accept_next
\* "granted"   the limiter said yes, call_accept_now is about to be called
\* "accepting" async_accept is outstanding
\* "accepted"  async_accept succeeded, its handler has still to run
\* "pending"   the slot is on the limiter's stack
\* "dead"      the handler got an error code and did nothing
ChainStates == {"none", "opening", "posted", "handled", "granted", "accepting",
                "accepted", "pending", "dead"}

Init ==
  /\ LimiterInit
  /\ isOpen = FALSE
  /\ opens = 0
  /\ chain = [c \in Chains |-> "none"]
  /\ conn = [k \in Conns |-> "none"]
  /\ madeBy = [k \in Conns |-> <<>>]
-----------------------------------------------------------------------------
Move(c, to) == chain' = [chain EXCEPT ![c] = to]

\* open(): bind, listen and one accept_next per slot.  A failing bind closes
\* the acceptor again and leaves everything as it was.
open ==
  /\ ~isOpen
  /\ opens < MaxOpens
  /\ isOpen' = TRUE
  /\ opens' = opens + 1
  /\ chain' = [c \in Chains |-> IF c[2] = opens + 1 THEN "opening" ELSE chain[c]]
  /\ UNCHANGED <<limiterVars, conn, madeBy>>

\* close(): outstanding accepts are completed with operation_aborted, and
\* the handler ignores them.
close ==
  /\ isOpen
  /\ isOpen' = FALSE
  /\ chain' = [c \in Chains |-> IF chain[c] = "accepting" THEN "dead" ELSE chain[c]]
  /\ UNCHANGED <<limiterVars, opens, conn, madeBy>>

\* May this chain enter accept_next now?  open() goes through the slots in
\* order; without separation the handler first creates the connection.
MayAcceptNext(c) ==
  \/ chain[c] = "posted"
  \/ /\ chain[c] = "opening"
     /\ \A d \in Chains : d[2] = c[2] /\ d[1] < c[1] => chain[d] # "opening"
  \/ /\ chain[c] = "handled"
     /\ Separate \/ \A k \in Conns : ~(conn[k] = "made" /\ madeBy[k] = c)

accept_next(c) ==
  /\ MayAcceptNext(c)
  /\ \/ AcceptNow /\ Move(c, "granted")
     \/ StorePending(c) /\ Move(c, "pending")
  /\ UNCHANGED <<isOpen, opens, conn, madeBy>>

\* async_accept on a closed acceptor completes with an error.
call_accept_now(c) ==
  /\ chain[c] = "granted"
  /\ Move(c, IF isOpen THEN "accepting" ELSE "dead")
  /\ UNCHANGED <<limiterVars, isOpen, opens, conn, madeBy>>

\* A client connects: the operation completes without error.
AsyncAcceptDone(c) ==
  /\ chain[c] = "accepting"
  /\ Move(c, "accepted")
  /\ UNCHANGED <<limiterVars, isOpen, opens, conn, madeBy>>

\* The operation completes with an error: "if( !ec )" skips everything, the
\* call of accept_next at the end of accept_current_connection included.
AsyncAcceptFailed(c) ==
  /\ "accept" \in Faults
  /\ chain[c] = "accepting"
  /\ Move(c, "dead")
  /\ UNCHANGED <<limiterVars, isOpen, opens, conn, madeBy>>

\* The handler when the IP-blocker denies the peer, or when remote_endpoint()
\* throws because the peer is gone: no lifetime monitor is made.
NoMonitor(c) ==
  /\ Faults \cap {"deny", "endpoint"} # {}
  /\ chain[c] = "accepted"
  /\ Move(c, "handled")
  /\ UNCHANGED <<limiterVars, isOpen, opens, conn, madeBy>>

\* The handler when the peer is allowed: the lifetime monitor is captured by
\* create_and_init_connection, which is posted or called at once.
do_accept_current_connection(c, k) ==
  /\ chain[c] = "accepted"
  /\ conn[k] = "none"
  /\ increment_parallel_connections
  /\ Move(c, "handled")
  /\ conn' = [conn EXCEPT ![k] = "made"]
  /\ madeBy' = [madeBy EXCEPT ![k] = c]
  /\ UNCHANGED <<isOpen, opens>>

create_new_connection(k) ==
  /\ conn[k] = "made"
  /\ conn' = [conn EXCEPT ![k] = "open"]
  /\ madeBy' = [madeBy EXCEPT ![k] = <<>>]
  /\ UNCHANGED <<limiterVars, isOpen, opens, chain>>

\* A faulty variant of DestroyMonitor: the slot is taken off the stack and
\* schedule_next_accept_attempt is not called.
DestroyMonitorUnposted(k) ==
  /\ conn[k] = "open"
  /\ decrement_parallel_connections
  /\ conn' = [conn EXCEPT ![k] = "none"]
  /\ madeBy' = [madeBy EXCEPT ![k] = <<>>]
  /\ UNCHANGED <<isOpen, opens, chain>>

\* ~connection_lifetime_monitor_t: of a connection that is destroyed, or of
\* one that create_new_connection failed to build.  The slot the limiter
\* takes off its stack is posted to accept_next.
DestroyMonitor(k) ==
  /\ \/ conn[k] = "open"
     \/ conn[k] = "made" /\ "create" \in Faults
  /\ decrement_parallel_connections
  /\ conn' = [conn EXCEPT ![k] = "none"]
  /\ madeBy' = [madeBy EXCEPT ![k] = <<>>]
  /\ chain' = IF WakesPending
                THEN [chain EXCEPT ![index_to_activate] = "posted"]
                ELSE chain
  /\ UNCHANGED <<isOpen, opens>>

ChainStep(c) ==
  \/ accept_next(c)
  \/ call_accept_now(c)
  \/ AsyncAcceptDone(c)
  \/ AsyncAcceptFailed(c)
  \/ NoMonitor(c)
  \/ \E k \in Conns : do_accept_current_connection(c, k)

Next ==
  \/ open
  \/ close
  \/ \E c \in Chains : ChainStep(c)
  \/ \E k \in Conns : create_new_connection(k) \/ DestroyMonitor(k)

Spec == Init /\ [][Next]_vars

\* The thread pool runs posted handlers, and a connection does not live for
\* ever: its timers close it.  Clients, open and close owe nothing.
Fairness ==
  /\ \A c \in Chains :
       /\ WF_vars(accept_next(c))
       /\ WF_vars(call_accept_now(c))
       /\ WF_vars(NoMonitor(c) \/ \E k \in Conns : do_accept_current_connection(c, k))
  /\ \A k \in Conns : WF_vars(create_new_connection(k)) /\ WF_vars(DestroyMonitor(k))

FairSpec == Spec /\ Fairness
-----------------------------------------------------------------------------
ChainsIn(states) == {c \in Chains : chain[c] \in states}
Monitors == {k \in Conns : conn[k] # "none"}
Granted == ChainsIn({"granted", "accepting", "accepted"})

\* Every variable has its type; in particular neither counter, a size_t in
\* the code, is ever decremented below zero.
TypeOK ==
  /\ m_active_accepts \in Nat
  /\ m_connections \in Nat
  /\ m_pending_indexes \in Seq(Chains)
  /\ isOpen \in BOOLEAN
  /\ opens \in 0 .. MaxOpens
  /\ chain \in [Chains -> ChainStates]
  /\ conn \in [Conns -> {"none", "made", "open"}]
  /\ madeBy \in [Conns -> Chains \cup {<<>>}]

\* The limiter keeps its promise whatever threads interleave and whatever
\* accept fails or is denied: there are never more live connections than
\* m_max_parallel_connections, granted accepts counted in, so that a client
\* accepted next still fits.
LimitRespected ==
  Cardinality(Monitors) + Cardinality(Granted) <= MaxParallel

\* The comments in increment_ and decrement_parallel_connections: "Expects
\* that m_active_accepts [m_connections] is always greater than 0".  A handler
\* that will decrement a counter finds its own unit in it.
CountersCoverOwners ==
  /\ m_active_accepts >= Cardinality(Granted)
  /\ m_connections = Cardinality(Monitors)

\* No lost wake-up: a slot waits on the stack only while all places are taken
\* or promised to a slot whose accept_next is already posted.  Otherwise
\* decrement_parallel_connections, which wakes one slot per call, could leave
\* a slot asleep beside a free place for ever.
NoLostWakeup ==
  m_pending_indexes # <<>> =>
    m_active_accepts + m_connections + Cardinality(ChainsIn({"posted"})) >= MaxParallel

\* A place of the limiter was given to an accept that ended without a
\* connection, or the accept chain of a slot was dropped.
Leaked ==
  \/ m_active_accepts > Cardinality(Granted)
  \/ \E c \in Chains : c[2] = opens /\ chain[c] = "dead"

\* An open acceptor comes back to listening for ever: at any time later some
\* slot has an accept outstanding again, unless the acceptor was closed or a
\* place leaked.
AcceptingResumes ==
  isOpen ~> (~isOpen \/ Leaked \/ ChainsIn({"accepting"}) # {})

\* What the attention note of actual_limiter_t says of its counter: "it seems
\* that the missing call to increment_parallel_connections() could be only on
\* the shutdown of the acceptor".  Before any shutdown the counter would then
\* be exactly the number of granted accepts.
ActiveAcceptsExact ==
  isOpen /\ opens = 1 => m_active_accepts = Cardinality(Granted)
=============================================================================
