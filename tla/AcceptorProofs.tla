--------------------------- MODULE AcceptorProofs ---------------------------
(***************************************************************************)
(* For any number of slots, any limit, any number of openings and any      *)
(* combination of failures: the limiter never admits more connections than *)
(* its limit, its counters never underflow, and it loses no wake-up.       *)
(***************************************************************************)
EXTENDS Acceptor, FiniteSetTheorems, SequenceTheorems, TLAPS

\* The places given out never exceed the limit.
SumBound == m_active_accepts + m_connections <= MaxParallel

\* The stack holds each waiting chain once, and only waiting chains.
PendingConsistent ==
  /\ \A n \in 1 .. Len(m_pending_indexes) : chain[m_pending_indexes[n]] = "pending"
  /\ \A m, n \in 1 .. Len(m_pending_indexes) :
       m_pending_indexes[m] = m_pending_indexes[n] => m = n

\* Chains of an opening that has not happened do nothing.
FutureIdle == \A c \in Chains : c[2] > opens => chain[c] = "none"

IInv ==
  /\ TypeOK
  /\ SumBound
  /\ CountersCoverOwners
  /\ PendingConsistent
  /\ NoLostWakeup
  /\ FutureIdle
-----------------------------------------------------------------------------
\* The chains, and any selection of them or of the connections, are finite.
LEMMA FinitePools ==
  /\ IsFiniteSet(Chains)
  /\ \A states : IsFiniteSet(ChainsIn(states)) /\ Cardinality(ChainsIn(states)) \in Nat
  /\ IsFiniteSet(Monitors) /\ Cardinality(Monitors) \in Nat
<1>1. IsFiniteSet(1 .. MaxOpens)
  BY FS_Interval, AcceptorAssumption
<1>2. IsFiniteSet(Chains)
  BY <1>1, FS_Product, AcceptorAssumption DEF Chains
<1>3. ASSUME NEW states
      PROVE IsFiniteSet(ChainsIn(states)) /\ Cardinality(ChainsIn(states)) \in Nat
  <2>1. ChainsIn(states) \subseteq Chains
    BY DEF ChainsIn
  <2> QED
    BY <2>1, <1>2, FS_Subset, FS_CardinalityType
<1>4. IsFiniteSet(Monitors) /\ Cardinality(Monitors) \in Nat
  <2>1. Monitors \subseteq Conns
    BY DEF Monitors
  <2> QED
    BY <2>1, FS_Subset, FS_CardinalityType, AcceptorAssumption
<1> QED
  BY <1>2, <1>3, <1>4

\* Adding one element to, or removing one from, a finite set.
LEMMA CardAdd ==
  ASSUME NEW S, NEW x, x \notin S, IsFiniteSet(S)
  PROVE  Cardinality(S \cup {x}) = Cardinality(S) + 1
BY FS_AddElement

LEMMA CardRemove ==
  ASSUME NEW S, NEW x, x \in S, IsFiniteSet(S)
  PROVE  Cardinality(S \ {x}) = Cardinality(S) - 1
BY FS_RemoveElement

\* What a step of one chain does to the number of chains in given states.
LEMMA MoveCount ==
  ASSUME NEW c \in Chains, NEW to, NEW states, TypeOK,
         chain' = [chain EXCEPT ![c] = to]
  PROVE
    /\ chain[c] \notin states /\ to \in states =>
         Cardinality(ChainsIn(states)') = Cardinality(ChainsIn(states)) + 1
    /\ chain[c] \in states /\ to \notin states =>
         Cardinality(ChainsIn(states)') = Cardinality(ChainsIn(states)) - 1
    /\ chain[c] \in states /\ to \in states =>
         Cardinality(ChainsIn(states)') = Cardinality(ChainsIn(states))
    /\ chain[c] \notin states /\ to \notin states =>
         Cardinality(ChainsIn(states)') = Cardinality(ChainsIn(states))
<1>1. CASE chain[c] \notin states /\ to \in states
  <2>1. ChainsIn(states)' = ChainsIn(states) \cup {c} /\ c \notin ChainsIn(states)
    BY <1>1 DEF ChainsIn, TypeOK
  <2> QED
    BY <1>1, <2>1, CardAdd, FinitePools
<1>2. CASE chain[c] \in states /\ to \notin states
  <2>1. ChainsIn(states)' = ChainsIn(states) \ {c} /\ c \in ChainsIn(states)
    BY <1>2 DEF ChainsIn, TypeOK
  <2> QED
    BY <1>2, <2>1, CardRemove, FinitePools
<1>3. CASE chain[c] \in states <=> to \in states
  <2>1. ChainsIn(states)' = ChainsIn(states)
    BY <1>3 DEF ChainsIn, TypeOK
  <2> QED
    BY <1>3, <2>1
<1> QED
  BY <1>1, <1>2, <1>3

\* Replacing the state of one connection, likewise.
LEMMA MonitorCount ==
  ASSUME NEW k \in Conns, NEW to, TypeOK, conn' = [conn EXCEPT ![k] = to]
  PROVE
    /\ conn[k] = "none" /\ to # "none" =>
         Cardinality(Monitors') = Cardinality(Monitors) + 1
    /\ conn[k] # "none" /\ to = "none" =>
         Cardinality(Monitors') = Cardinality(Monitors) - 1
    /\ conn[k] # "none" /\ to # "none" =>
         Cardinality(Monitors') = Cardinality(Monitors)
<1>1. CASE conn[k] = "none" /\ to # "none"
  <2>1. Monitors' = Monitors \cup {k} /\ k \notin Monitors
    BY <1>1 DEF Monitors, TypeOK
  <2> QED
    BY <1>1, <2>1, CardAdd, FinitePools
<1>2. CASE conn[k] # "none" /\ to = "none"
  <2>1. Monitors' = Monitors \ {k} /\ k \in Monitors
    BY <1>2 DEF Monitors, TypeOK
  <2> QED
    BY <1>2, <2>1, CardRemove, FinitePools
<1>3. CASE conn[k] # "none" /\ to # "none"
  <2>1. Monitors' = Monitors
    BY <1>3 DEF Monitors, TypeOK
  <2> QED
    BY <1>3, <2>1
<1> QED
  BY <1>1, <1>2, <1>3, SMT
-----------------------------------------------------------------------------
\* A freshly built acceptor, its limiter empty, satisfies the invariant.
LEMMA InitIInv == Init => IInv
<1> SUFFICES ASSUME Init PROVE IInv
  OBVIOUS
<1> USE DEF Init, LimiterInit
<1>1. TypeOK
  <2>1. m_pending_indexes \in Seq(Chains)
    OBVIOUS
  <2>2. chain \in [Chains -> ChainStates] /\ conn \in [Conns -> {"none", "made", "open"}]
    BY DEF ChainStates
  <2>3. madeBy \in [Conns -> Chains \cup {<<>>}]
    BY Zenon
  <2>4. m_active_accepts \in Nat /\ m_connections \in Nat /\ opens \in 0 .. MaxOpens
    BY AcceptorAssumption
  <2>5. isOpen \in BOOLEAN
    BY Zenon
  <2> QED
    BY <2>1, <2>2, <2>3, <2>4, <2>5 DEF TypeOK
<1>2. Granted = {} /\ Monitors = {}
  BY DEF Granted, ChainsIn, Monitors
<1>3. Cardinality(Granted) = 0 /\ Cardinality(Monitors) = 0
  BY <1>2, FS_EmptySet
<1>4. SumBound /\ PendingConsistent /\ NoLostWakeup
  BY MaxParallelAssumption DEF SumBound, PendingConsistent, NoLostWakeup
<1> QED
  BY <1>1, <1>3, <1>4 DEF IInv, CountersCoverOwners, FutureIdle

\* open() starts the chains of an epoch in which nothing ran before.
LEMMA OpenStep == IInv /\ open => IInv'
<1> SUFFICES ASSUME IInv, open PROVE IInv'
  OBVIOUS
<1> USE DEF IInv
<1>1. \A c \in Chains : c[2] = opens + 1 => chain[c] = "none"
  BY DEF FutureIdle, TypeOK
<1>2. TypeOK'
  BY AcceptorAssumption DEF TypeOK, open, limiterVars, ChainStates
<1>3. ChainsIn({"granted", "accepting", "accepted"})' = ChainsIn({"granted", "accepting", "accepted"})
      /\ ChainsIn({"posted"})' = ChainsIn({"posted"})
  BY <1>1 DEF ChainsIn, open
<1>4. Monitors' = Monitors
  BY DEF Monitors, open
<1>5. SumBound' /\ CountersCoverOwners' /\ NoLostWakeup'
  BY <1>3, <1>4 DEF SumBound, CountersCoverOwners, NoLostWakeup, Granted, open, limiterVars
<1>6. PendingConsistent'
  <2>1. ASSUME NEW n \in 1 .. Len(m_pending_indexes)
        PROVE chain'[m_pending_indexes[n]] = "pending"
    <3>1. m_pending_indexes[n] \in Chains
      BY DEF TypeOK
    <3>2. chain[m_pending_indexes[n]] = "pending"
      BY DEF PendingConsistent
    <3> QED
      BY <1>1, <3>1, <3>2 DEF open
  <2> QED
    BY <2>1 DEF PendingConsistent, open, limiterVars
<1>7. FutureIdle'
  BY DEF FutureIdle, open, TypeOK, Chains
<1> QED
  BY <1>2, <1>5, <1>6, <1>7

\* close() aborts the outstanding accepts: the counter stays, the owners go.
LEMMA CloseStep == IInv /\ close => IInv'
<1> SUFFICES ASSUME IInv, close PROVE IInv'
  OBVIOUS
<1> USE DEF IInv
<1>2. TypeOK'
  BY Zenon DEF TypeOK, close, limiterVars, ChainStates
<1>3. ChainsIn({"granted", "accepting", "accepted"})' \subseteq ChainsIn({"granted", "accepting", "accepted"})
      /\ ChainsIn({"posted"})' = ChainsIn({"posted"})
  BY DEF ChainsIn, close
<1>4. Monitors' = Monitors
  BY DEF Monitors, close
<1>5. Cardinality(Granted') <= Cardinality(Granted)
  BY <1>3, FS_Subset, FinitePools DEF Granted
<1>6. Cardinality(Granted') \in Nat /\ Cardinality(Granted) \in Nat
  <2>1. IsFiniteSet(Granted')
    BY <1>3, FS_Subset, FinitePools DEF Granted
  <2> QED
    BY <2>1, FS_CardinalityType, FinitePools DEF Granted
<1>7. CountersCoverOwners'
  BY <1>4, <1>5, <1>6 DEF CountersCoverOwners, close, limiterVars, TypeOK
<1>8. SumBound' /\ NoLostWakeup'
  BY <1>3 DEF SumBound, NoLostWakeup, close, limiterVars
<1>9. PendingConsistent'
  <2>1. ASSUME NEW n \in 1 .. Len(m_pending_indexes)
        PROVE chain'[m_pending_indexes[n]] = "pending"
    <3>1. m_pending_indexes[n] \in Chains /\ chain[m_pending_indexes[n]] = "pending"
      BY DEF TypeOK, PendingConsistent
    <3> QED
      BY <3>1 DEF close
  <2> QED
    BY <2>1 DEF PendingConsistent, close, limiterVars
<1>10. FutureIdle'
  BY DEF FutureIdle, close
<1> QED
  BY <1>2, <1>7, <1>8, <1>9, <1>10

\* Moving a chain that is not on the stack leaves the stack consistent.
LEMMA PendingKept ==
  ASSUME IInv, NEW c \in Chains, NEW to, chain[c] # "pending",
         chain' = [chain EXCEPT ![c] = to], UNCHANGED m_pending_indexes
  PROVE  PendingConsistent'
<1>1. ASSUME NEW n \in 1 .. Len(m_pending_indexes)
      PROVE chain'[m_pending_indexes[n]] = "pending"
  <2>1. m_pending_indexes[n] \in Chains /\ chain[m_pending_indexes[n]] = "pending"
    BY DEF IInv, TypeOK, PendingConsistent
  <2> QED
    BY <2>1 DEF IInv, TypeOK
<1> QED
  BY <1>1 DEF IInv, PendingConsistent

\* A step of a chain that touches neither the limiter nor a monitor, and does
\* not make the chain an owner of a place, keeps the invariant.
LEMMA QuietMove ==
  ASSUME IInv, NEW c \in Chains, NEW to \in ChainStates,
         chain' = [chain EXCEPT ![c] = to],
         UNCHANGED <<m_active_accepts, m_connections, m_pending_indexes, isOpen, opens,
                     conn, madeBy>>,
         chain[c] \notin {"none", "pending", "posted"}, to # "posted",
         to \in {"granted", "accepting", "accepted"} =>
           chain[c] \in {"granted", "accepting", "accepted"}
  PROVE  IInv'
<1> DEFINE G == {"granted", "accepting", "accepted"}
<1> USE DEF IInv
<1>1. TypeOK'
  BY DEF TypeOK
<1>2. Cardinality(ChainsIn({"posted"})') = Cardinality(ChainsIn({"posted"}))
  BY ZenonT(30), MoveCount
<1>3. Cardinality(Granted') \in {Cardinality(Granted), Cardinality(Granted) - 1}
  <2> HIDE DEF G
  <2>1. to \in G => chain[c] \in G
    BY DEF G
  <2>2. Cardinality(ChainsIn(G)') \in {Cardinality(ChainsIn(G)), Cardinality(ChainsIn(G)) - 1}
    BY Zenon, <2>1, MoveCount
  <2> QED
    BY <2>2 DEF Granted, G
<1>4. Monitors' = Monitors
  BY DEF Monitors
<1>5. Cardinality(Granted) \in Nat
  BY FinitePools DEF Granted
<1>6. CountersCoverOwners'
  BY <1>3, <1>4, <1>5 DEF CountersCoverOwners, TypeOK
<1>7. SumBound' /\ NoLostWakeup'
  BY <1>2 DEF SumBound, NoLostWakeup
<1>8. PendingConsistent'
  BY Zenon, PendingKept
<1>9. FutureIdle'
  BY DEF FutureIdle, TypeOK
<1> QED
  BY <1>1, <1>6, <1>7, <1>8, <1>9

\* accept_next either takes a place for the chain or puts it on the stack.
LEMMA AcceptNextStep ==
  ASSUME IInv, NEW c \in Chains, accept_next(c)
  PROVE  IInv'
<1> DEFINE G == {"granted", "accepting", "accepted"}
<1> USE DEF IInv
<1>1. chain[c] \in {"posted", "opening", "handled"}
  BY DEF accept_next, MayAcceptNext
<1>2. UNCHANGED <<isOpen, opens, conn, madeBy>>
  BY DEF accept_next
<1>3. Monitors' = Monitors
  BY <1>2 DEF Monitors
<1>4. Cardinality(Granted) \in Nat /\ Cardinality(ChainsIn({"posted"})) \in Nat
  BY FinitePools DEF Granted
<1>5. CASE AcceptNow /\ Move(c, "granted")
  <2>1. chain' = [chain EXCEPT ![c] = "granted"]
    BY <1>5 DEF Move
  <2>2. m_active_accepts' = m_active_accepts + 1
        /\ UNCHANGED <<m_connections, m_pending_indexes>>
    BY <1>5 DEF AcceptNow
  <2>3. TypeOK'
    BY <2>1, <2>2, <1>2 DEF TypeOK, ChainStates
  <2>4. Cardinality(Granted') = Cardinality(Granted) + 1
    <3> HIDE DEF G
    <3>1. chain[c] \notin G /\ "granted" \in G
      BY <1>1 DEF G
    <3>2. Cardinality(ChainsIn(G)') = Cardinality(ChainsIn(G)) + 1
      BY Zenon, <3>1, <2>1, MoveCount
    <3> QED
      BY <3>2 DEF Granted, G
  <2>5. Cardinality(ChainsIn({"posted"})') >= Cardinality(ChainsIn({"posted"})) - 1
    <3>1. TypeOK /\ "granted" \notin {"posted"}
      OBVIOUS
    <3>2. CASE chain[c] \in {"posted"}
      <4>1. Cardinality(ChainsIn({"posted"})') = Cardinality(ChainsIn({"posted"})) - 1
        BY <3>1, <3>2, <2>1, MoveCount, Zenon
      <4> QED
        BY <4>1, <1>4
    <3>3. CASE chain[c] \notin {"posted"}
      <4>1. Cardinality(ChainsIn({"posted"})') = Cardinality(ChainsIn({"posted"}))
        BY <3>1, <3>3, <2>1, MoveCount, Zenon
      <4> QED
        BY <4>1, <1>4
    <3> QED
      BY <3>2, <3>3
  <2>6. Cardinality(ChainsIn({"posted"})') \in Nat
    <3>1. ChainsIn({"posted"})' \subseteq ChainsIn({"posted"})
      BY <2>1 DEF ChainsIn, TypeOK
    <3> QED
      BY <3>1, FinitePools, FS_Subset, FS_CardinalityType
  <2>7. SumBound'
    BY <1>5, <2>2, MaxParallelAssumption DEF SumBound, AcceptNow, has_free_slots, TypeOK
  <2>8. CountersCoverOwners'
    BY <2>2, <2>4, <1>3, <1>4 DEF CountersCoverOwners, TypeOK
  <2>9. NoLostWakeup'
    BY <2>2, <2>5, <2>6, <1>4, MaxParallelAssumption DEF NoLostWakeup, TypeOK
  <2>10. PendingConsistent'
    BY Zenon, <2>1, <2>2, <1>1, PendingKept
  <2>11. FutureIdle'
    BY <2>1, <1>1, <1>2 DEF FutureIdle, TypeOK
  <2> QED
    BY <2>3, <2>7, <2>8, <2>9, <2>10, <2>11
<1>6. CASE StorePending(c) /\ Move(c, "pending")
  <2>1. chain' = [chain EXCEPT ![c] = "pending"]
    BY <1>6 DEF Move
  <2>2. m_pending_indexes' = Append(m_pending_indexes, c)
        /\ UNCHANGED <<m_active_accepts, m_connections>>
    BY <1>6 DEF StorePending
  <2>3. TypeOK'
    BY <2>1, <2>2, <1>2 DEF TypeOK, ChainStates
  <2>4. Cardinality(Granted') = Cardinality(Granted)
    <3> HIDE DEF G
    <3>1. chain[c] \notin G /\ "pending" \notin G
      BY <1>1 DEF G
    <3>2. Cardinality(ChainsIn(G)') = Cardinality(ChainsIn(G))
      BY Zenon, <3>1, <2>1, MoveCount
    <3> QED
      BY <3>2 DEF Granted, G
  <2>5. SumBound' /\ CountersCoverOwners'
    BY <2>2, <2>4, <1>3 DEF SumBound, CountersCoverOwners
  <2>6. NoLostWakeup'
    <3>1. m_active_accepts + m_connections >= MaxParallel
      BY <1>6, MaxParallelAssumption DEF StorePending, has_free_slots, TypeOK
    <3>2. Cardinality(ChainsIn({"posted"})') \in Nat
      <4>1. ChainsIn({"posted"})' \subseteq ChainsIn({"posted"})
        BY <2>1 DEF ChainsIn, TypeOK
      <4> QED
        BY <4>1, FinitePools, FS_Subset, FS_CardinalityType
    <3> QED
      BY <3>1, <3>2, <2>2, MaxParallelAssumption DEF NoLostWakeup, TypeOK
  <2>7. PendingConsistent'
    <3>1. \A n \in 1 .. Len(m_pending_indexes) :
            m_pending_indexes[n] \in Chains /\ m_pending_indexes[n] # c
      BY <1>1 DEF PendingConsistent, TypeOK
    <3>2. Len(m_pending_indexes') = Len(m_pending_indexes) + 1
          /\ Len(m_pending_indexes) \in Nat
          /\ \A n \in 1 .. Len(m_pending_indexes) : m_pending_indexes'[n] = m_pending_indexes[n]
      BY <2>2 DEF TypeOK
    <3>2a. m_pending_indexes'[Len(m_pending_indexes) + 1] = c
      BY <2>2 DEF TypeOK
    <3>3. \A n \in 1 .. Len(m_pending_indexes') : chain'[m_pending_indexes'[n]] = "pending"
      <4> SUFFICES ASSUME NEW n \in 1 .. Len(m_pending_indexes')
                   PROVE chain'[m_pending_indexes'[n]] = "pending"
        OBVIOUS
      <4>1. CASE n \in 1 .. Len(m_pending_indexes)
        <5>1. m_pending_indexes'[n] \in Chains /\ m_pending_indexes'[n] # c
              /\ chain[m_pending_indexes'[n]] = "pending"
          BY <4>1, <3>1, <3>2 DEF PendingConsistent
        <5> QED
          BY <5>1, <2>1 DEF TypeOK
      <4>2. CASE n = Len(m_pending_indexes) + 1
        <5>1. m_pending_indexes'[n] = c
          BY <4>2, <3>2a, Zenon
        <5>2. chain'[c] = "pending"
          BY <2>1 DEF TypeOK
        <5> QED
          BY <5>1, <5>2, Zenon
      <4> QED
        BY <4>1, <4>2, <3>2
    <3>4. \A m, n \in 1 .. Len(m_pending_indexes') :
            m_pending_indexes'[m] = m_pending_indexes'[n] => m = n
      BY <3>1, <3>2, <3>2a DEF PendingConsistent
    <3> QED
      BY <3>3, <3>4 DEF PendingConsistent
  <2>8. FutureIdle'
    BY <2>1, <1>1, <1>2 DEF FutureIdle, TypeOK
  <2> QED
    BY <2>3, <2>5, <2>6, <2>7, <2>8
<1> QED
  BY <1>5, <1>6 DEF accept_next

\* The steps of a chain that do not reach the limiter.
LEMMA QuietSteps ==
  ASSUME IInv, NEW c \in Chains,
         \/ call_accept_now(c)
         \/ AsyncAcceptDone(c)
         \/ AsyncAcceptFailed(c)
         \/ NoMonitor(c)
  PROVE  IInv'
<1> USE DEF Move, ChainStates, limiterVars
<1>1. CASE call_accept_now(c)
  <2>1. PICK to \in {"accepting", "dead"} : chain' = [chain EXCEPT ![c] = to]
    BY Zenon, <1>1 DEF call_accept_now
  <2> QED
    BY Zenon, <1>1, <2>1, QuietMove DEF call_accept_now
<1>2. CASE AsyncAcceptDone(c)
  BY Zenon, <1>2, QuietMove DEF AsyncAcceptDone
<1>3. CASE AsyncAcceptFailed(c)
  BY Zenon, <1>3, QuietMove DEF AsyncAcceptFailed
<1>4. CASE NoMonitor(c)
  BY Zenon, <1>4, QuietMove DEF NoMonitor
<1> QED
  BY <1>1, <1>2, <1>3, <1>4

\* A granted accept becomes a connection: the place changes hands.
LEMMA DoAcceptStep ==
  ASSUME IInv, NEW c \in Chains, NEW k \in Conns, do_accept_current_connection(c, k)
  PROVE  IInv'
<1> DEFINE G == {"granted", "accepting", "accepted"}
<1> USE DEF IInv
<1>1. chain[c] = "accepted" /\ chain' = [chain EXCEPT ![c] = "handled"]
  BY DEF do_accept_current_connection, Move
<1>2. conn[k] = "none" /\ conn' = [conn EXCEPT ![k] = "made"]
      /\ madeBy' = [madeBy EXCEPT ![k] = c]
  BY DEF do_accept_current_connection
<1>3. m_active_accepts' = m_active_accepts - 1 /\ m_connections' = m_connections + 1
      /\ UNCHANGED <<m_pending_indexes, isOpen, opens>>
  BY DEF do_accept_current_connection, increment_parallel_connections
<1>4. Cardinality(Granted) \in Nat /\ Cardinality(Granted) >= 1
      /\ Cardinality(Granted') = Cardinality(Granted) - 1
  <2>1. c \in Granted /\ IsFiniteSet(Granted) /\ Cardinality(Granted) \in Nat
    BY Zenon, <1>1, FinitePools DEF Granted, ChainsIn
  <2>2. Cardinality(Granted) # 0
    BY <2>1, FS_EmptySet
  <2> HIDE DEF G
  <2>3. chain[c] \in G /\ "handled" \notin G
    BY <1>1 DEF G
  <2>4. Cardinality(ChainsIn(G)') = Cardinality(ChainsIn(G)) - 1
    BY Zenon, <2>3, <1>1, MoveCount
  <2> QED
    BY <2>1, <2>2, <2>4 DEF Granted, G
<1>5. Cardinality(Monitors') = Cardinality(Monitors) + 1
  <2>1. TypeOK /\ "made" # "none"
    OBVIOUS
  <2> QED
    BY <2>1, <1>2, MonitorCount, Zenon
<1>6. Cardinality(ChainsIn({"posted"})') = Cardinality(ChainsIn({"posted"}))
  <2>1. TypeOK /\ chain[c] \notin {"posted"} /\ "handled" \notin {"posted"}
    BY <1>1
  <2> QED
    BY <2>1, <1>1, MoveCount, Zenon
<1>7. m_active_accepts >= 1
  BY <1>4 DEF CountersCoverOwners, TypeOK
<1>8. TypeOK'
  BY <1>1, <1>2, <1>3, <1>7 DEF TypeOK, ChainStates
<1>9. SumBound' /\ CountersCoverOwners'
  BY SMTT(30), <1>3, <1>4, <1>5, FinitePools, MaxParallelAssumption
  DEF SumBound, CountersCoverOwners, TypeOK
<1>10. NoLostWakeup'
  BY <1>3, <1>6, FinitePools, MaxParallelAssumption DEF NoLostWakeup, TypeOK
<1>11. PendingConsistent'
  BY Zenon, <1>1, <1>3, PendingKept
<1>12. FutureIdle'
  BY <1>1, <1>3 DEF FutureIdle, TypeOK
<1> QED
  BY <1>8, <1>9, <1>10, <1>11, <1>12

\* The connection object takes the monitor over.
LEMMA CreateStep ==
  ASSUME IInv, NEW k \in Conns, create_new_connection(k)
  PROVE  IInv'
<1> USE DEF IInv
<1>1. conn[k] = "made" /\ conn' = [conn EXCEPT ![k] = "open"]
      /\ madeBy' = [madeBy EXCEPT ![k] = <<>>]
      /\ UNCHANGED <<m_active_accepts, m_connections, m_pending_indexes, isOpen, opens, chain>>
  BY DEF create_new_connection, limiterVars
<1>2. Cardinality(Monitors') = Cardinality(Monitors)
  <2>1. TypeOK /\ conn[k] # "none" /\ "open" # "none"
    BY <1>1
  <2> QED
    BY <2>1, <1>1, MonitorCount, Zenon
<1>3. ChainsIn({"posted"})' = ChainsIn({"posted"}) /\ Granted' = Granted
  BY <1>1 DEF ChainsIn, Granted
<1>4. TypeOK'
  BY <1>1 DEF TypeOK
<1> QED
  BY <1>1, <1>2, <1>3, <1>4
  DEF SumBound, CountersCoverOwners, PendingConsistent, NoLostWakeup, FutureIdle

\* A monitor goes: its place is free, and the slot on top of the stack, if
\* any, is on its way to take it.
LEMMA DestroyStep ==
  ASSUME IInv, NEW k \in Conns, DestroyMonitor(k)
  PROVE  IInv'
<1> DEFINE c == index_to_activate
           G == {"granted", "accepting", "accepted"}
<1> USE DEF IInv
<1>1. conn[k] # "none" /\ conn' = [conn EXCEPT ![k] = "none"]
      /\ madeBy' = [madeBy EXCEPT ![k] = <<>>]
      /\ UNCHANGED <<isOpen, opens>>
  BY DEF DestroyMonitor
<1>2. m_connections' = m_connections - 1 /\ UNCHANGED m_active_accepts
  BY DEF DestroyMonitor, decrement_parallel_connections
<1>3. Cardinality(Monitors) \in Nat \ {0} /\ Cardinality(Monitors') = Cardinality(Monitors) - 1
  <2>1. TypeOK /\ k \in Monitors
    BY <1>1 DEF Monitors
  <2>2. Cardinality(Monitors') = Cardinality(Monitors) - 1
    BY <2>1, <1>1, MonitorCount, Zenon
  <2> QED
    BY <2>1, <2>2, FinitePools, FS_EmptySet
<1>4. m_connections >= 1 /\ m_connections = Cardinality(Monitors)
  BY <1>3 DEF CountersCoverOwners
<1>5. SumBound'
  BY <1>2, <1>4, MaxParallelAssumption DEF SumBound, TypeOK
<1>6. m_active_accepts + m_connections - 1 < MaxParallel
  BY MaxParallelAssumption DEF SumBound, TypeOK
<1>7. CASE m_pending_indexes = <<>>
  <2>1. UNCHANGED <<m_pending_indexes, chain>>
    BY <1>7 DEF DestroyMonitor, decrement_parallel_connections, WakesPending
  <2>2. TypeOK'
    BY <1>1, <1>2, <1>4, <2>1 DEF TypeOK
  <2>3. CountersCoverOwners'
    BY <1>2, <1>3, <1>4, <2>1 DEF CountersCoverOwners, Granted, ChainsIn
  <2>4. PendingConsistent' /\ NoLostWakeup' /\ FutureIdle'
    BY <1>1, <1>7, <2>1 DEF PendingConsistent, NoLostWakeup, FutureIdle
  <2> QED
    BY <1>5, <2>2, <2>3, <2>4
<1>8. CASE m_pending_indexes # <<>>
  <2> DEFINE n == Len(m_pending_indexes)
  <2>1. WakesPending
    BY <1>6, <1>8 DEF WakesPending
  <2>2. n \in Nat \ {0} /\ c \in Chains /\ chain[c] = "pending"
    BY <1>8 DEF index_to_activate, TypeOK, PendingConsistent
  <2>3. chain' = [chain EXCEPT ![c] = "posted"]
    BY <2>1 DEF DestroyMonitor
  <2>4. m_pending_indexes' = SubSeq(m_pending_indexes, 1, n - 1)
    BY <2>1 DEF DestroyMonitor, decrement_parallel_connections
  <2>5. m_pending_indexes' \in Seq(Chains) /\ Len(m_pending_indexes') = n - 1
        /\ \A m \in 1 .. n - 1 : m_pending_indexes'[m] = m_pending_indexes[m]
    <3>1. \A m \in 1 .. n - 1 : m_pending_indexes[m] \in Chains
      BY <2>2 DEF TypeOK
    <3>2. 1 \in Int /\ n - 1 \in Int
      BY <2>2
    <3> HIDE DEF n
    <3>3. SubSeq(m_pending_indexes, 1, n - 1) \in Seq(Chains)
          /\ Len(SubSeq(m_pending_indexes, 1, n - 1)) = (IF 1 <= n - 1 THEN (n - 1) - 1 + 1 ELSE 0)
          /\ \A m \in 1 .. (n - 1) - 1 + 1 :
               SubSeq(m_pending_indexes, 1, n - 1)[m] = m_pending_indexes[1 + m - 1]
      BY <3>1, <3>2, SubSeqProperties
    <3> QED
      BY <2>2, <2>4, <3>3
  <2>6. TypeOK'
    BY <1>1, <1>2, <1>4, <2>2, <2>3, <2>5 DEF TypeOK, ChainStates
  <2>7. Cardinality(Granted') = Cardinality(Granted)
    <3>1. TypeOK /\ chain[c] \notin G /\ "posted" \notin G
      BY <2>2
    <3>2. Cardinality(ChainsIn(G)') = Cardinality(ChainsIn(G))
      <4> HIDE DEF G, c
      <4> QED
        BY <3>1, <2>2, <2>3, MoveCount, Zenon
    <3> QED
      BY <3>2 DEF Granted
  <2>8. CountersCoverOwners'
    BY <1>2, <1>3, <1>4, <2>7 DEF CountersCoverOwners
  <2>9. Cardinality(ChainsIn({"posted"})') = Cardinality(ChainsIn({"posted"})) + 1
    <3>1. TypeOK /\ chain[c] \notin {"posted"} /\ "posted" \in {"posted"}
      BY <2>2
    <3> HIDE DEF c
    <3> QED
      BY <3>1, <2>2, <2>3, MoveCount, Zenon
  <2>10. NoLostWakeup'
    <3>1. Cardinality(ChainsIn({"posted"})) \in Nat
      BY FinitePools
    <3>2. m_active_accepts + m_connections + Cardinality(ChainsIn({"posted"})) >= MaxParallel
      BY <1>8 DEF NoLostWakeup
    <3> QED
      BY <1>2, <2>9, <3>1, <3>2, MaxParallelAssumption DEF NoLostWakeup, TypeOK
  <2>11. PendingConsistent'
    <3>1. ASSUME NEW m \in 1 .. n - 1
          PROVE chain'[m_pending_indexes'[m]] = "pending"
      <4>1. m \in 1 .. n /\ n \in 1 .. n /\ m # n
        BY <2>2
      <4>2. m_pending_indexes[m] # c /\ m_pending_indexes[m] \in Chains
            /\ chain[m_pending_indexes[m]] = "pending"
        BY <4>1 DEF PendingConsistent, index_to_activate, TypeOK
      <4> QED
        BY <4>2, <2>3, <2>5 DEF TypeOK
    <3>2. \A l, m \in 1 .. n - 1 : m_pending_indexes'[l] = m_pending_indexes'[m] => l = m
      BY <2>2, <2>5 DEF PendingConsistent
    <3> QED
      BY <2>5, <3>1, <3>2 DEF PendingConsistent
  <2>12. FutureIdle'
    BY <1>1, <2>2, <2>3 DEF FutureIdle, TypeOK
  <2> QED
    BY <1>5, <2>6, <2>8, <2>10, <2>11, <2>12
<1> QED
  BY <1>7, <1>8
-----------------------------------------------------------------------------
\* Every step of every thread keeps the invariant.
LEMMA NextIInv == IInv /\ [Next]_vars => IInv'
<1> SUFFICES ASSUME IInv, [Next]_vars PROVE IInv'
  OBVIOUS
<1>1. CASE open
  BY <1>1, OpenStep
<1>2. CASE close
  BY <1>2, CloseStep
<1>3. ASSUME NEW c \in Chains, ChainStep(c) PROVE IInv'
  BY <1>3, AcceptNextStep, QuietSteps, DoAcceptStep DEF ChainStep
<1>4. ASSUME NEW k \in Conns, create_new_connection(k) \/ DestroyMonitor(k) PROVE IInv'
  BY <1>4, CreateStep, DestroyStep
<1>5. CASE UNCHANGED vars
  BY <1>5 DEF vars, limiterVars, acceptorVars, IInv, TypeOK, SumBound, CountersCoverOwners,
              PendingConsistent, NoLostWakeup, FutureIdle, Granted, ChainsIn, Monitors
<1> QED
  BY <1>1, <1>2, <1>3, <1>4, <1>5 DEF Next

\* The inductive invariant holds in every reachable state.
LEMMA SpecIInv == Spec => []IInv
BY InitIInv, NextIInv, PTL DEF Spec

\* Neither counter of the limiter ever goes below zero, and every variable
\* keeps its type, however the handlers of the slots interleave.
THEOREM TypeCorrect == Spec => []TypeOK
<1>1. IInv => TypeOK
  BY DEF IInv
<1> QED
  BY <1>1, SpecIInv, PTL

\* decrement_parallel_connections wakes exactly enough slots: none sleeps on
\* the stack beside a place that nobody has been told of.
THEOREM WakeupsKept == Spec => []NoLostWakeup
<1>1. IInv => NoLostWakeup
  BY DEF IInv
<1> QED
  BY <1>1, SpecIInv, PTL

\* A handler that decrements a counter of the limiter owns a unit of it.
THEOREM OwnersCounted == Spec => []CountersCoverOwners
<1>1. IInv => CountersCoverOwners
  BY DEF IInv
<1> QED
  BY <1>1, SpecIInv, PTL

\* accept_next never lets the server exceed m_max_parallel_connections, not
\* even counting the clients that granted accepts may still bring in.
THEOREM LimitHolds == Spec => []LimitRespected
<1>1. IInv => LimitRespected
  BY FinitePools, MaxParallelAssumption
  DEF IInv, TypeOK, SumBound, CountersCoverOwners, LimitRespected, Granted
<1> QED
  BY <1>1, SpecIInv, PTL
=============================================================================
