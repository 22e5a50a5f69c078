----------------------- MODULE ConnectionCountLimiter -----------------------
(***************************************************************************)
(* restinio::connection_count_limits::impl::actual_limiter_t: the mutex-   *)
(* protected counters that bound the number of parallel connections.       *)
(*                                                                         *)
(* Each operator below is one critical section of the class: it is the     *)
(* part of the method that runs under m_lock.  What the method does after  *)
(* releasing the lock (call_accept_now, schedule_next_accept_attempt) is a *)
(* step of the acceptor, module Acceptor, which extends this one.          *)
(***************************************************************************)
EXTENDS Integers, Sequences, FiniteSets

CONSTANT MaxParallel     \* m_max_parallel_connections

ASSUME MaxParallelAssumption == MaxParallel \in Nat \ {0}

VARIABLES
  m_active_accepts,      \* async_accept calls that were granted
  m_connections,         \* live connection_lifetime_monitor_t objects
  m_pending_indexes      \* stack of socket slots waiting for a free place

limiterVars == <<m_active_accepts, m_connections, m_pending_indexes>>

LimiterInit ==
  /\ m_active_accepts = 0
  /\ m_connections = 0
  /\ m_pending_indexes = <<>>

\* Faulty variants of the operators that follow them, used to show that the
\* properties notice such a mistake.
HasFreeSlotsOffByOne == m_active_accepts + m_connections <= MaxParallel

has_free_slots == m_active_accepts + m_connections < MaxParallel

\* increment_parallel_connections: a granted accept became a connection.
increment_parallel_connections ==
  /\ m_active_accepts' = m_active_accepts - 1
  /\ m_connections' = m_connections + 1
  /\ UNCHANGED m_pending_indexes

AcceptNowUncounted ==
  /\ has_free_slots
  /\ UNCHANGED limiterVars

\* The two outcomes of the critical section of accept_next(index).
AcceptNow ==
  /\ has_free_slots
  /\ m_active_accepts' = m_active_accepts + 1
  /\ UNCHANGED <<m_connections, m_pending_indexes>>

StorePending(index) ==
  /\ ~has_free_slots
  /\ m_pending_indexes' = Append(m_pending_indexes, index)
  /\ UNCHANGED <<m_active_accepts, m_connections>>

WakesPendingStale ==
  /\ m_active_accepts + m_connections < MaxParallel
  /\ m_pending_indexes # <<>>

\* The critical section of decrement_parallel_connections.  The slot on top
\* of the stack is taken off when a place is free after the decrement.
WakesPending ==
  /\ m_active_accepts + m_connections - 1 < MaxParallel
  /\ m_pending_indexes # <<>>

index_to_activate == m_pending_indexes[Len(m_pending_indexes)]

DecrementTwice ==
  /\ m_connections' = m_connections - 2
  /\ UNCHANGED <<m_active_accepts, m_pending_indexes>>

decrement_parallel_connections ==
  /\ m_connections' = m_connections - 1
  /\ m_pending_indexes' =
       IF WakesPending
         THEN SubSeq(m_pending_indexes, 1, Len(m_pending_indexes) - 1)
         ELSE m_pending_indexes
  /\ UNCHANGED m_active_accepts
=============================================================================
