--------------------------- MODULE SendfileProofs ---------------------------
(***************************************************************************)
(* FileSentExact for files, parts and chunks of every size.                *)
(***************************************************************************)
EXTENDS Sendfile, SequenceTheorems, TLAPS

Runners == [m_next_write_offset : Nat, m_remained_size : Nat,
            m_transfered_size : Nat, m_chunk_size : Nat \ {0}]

Going == {"start", "again", "sendfile", "waiting", "read", "writing"}

SendfileTypes ==
    /\ socket \in {"tcp", "other"}
    /\ range \in [m_offset : Nat, m_size : Nat]
    /\ file_size \in Nat
    /\ runner \in Runners
    /\ at \in Going \cup {"idle"}
    /\ runner.m_transfered_size + runner.m_remained_size = range.m_size

\* While the operation goes on, the counters say what is on the wire.  Between
\* read and the end of the write the next offset is ahead by the buffer.
GoingOn ==
    at \in Going =>
        /\ told = <<>>
        /\ wire = OctetsFrom(range.m_offset, runner.m_transfered_size)
        /\ at = "writing" =>
             /\ socket = "other"
             /\ Len(buffer) \in 0..runner.m_remained_size
             /\ buffer = OctetsFrom(range.m_offset + runner.m_transfered_size, Len(buffer))
             /\ runner.m_next_write_offset =
                    range.m_offset + runner.m_transfered_size + Len(buffer)
        /\ at # "writing" =>
             runner.m_next_write_offset = range.m_offset + runner.m_transfered_size

\* After the end the callback has been called once; a failed write may have
\* put octets on the wire that were not counted.
Over(result, onWire) ==
    /\ told = <<result>>
    /\ onWire \in runner.m_transfered_size..range.m_size
    /\ wire = OctetsFrom(range.m_offset, onWire)
    /\ socket = "tcp" => onWire = runner.m_transfered_size
    /\ result.written = runner.m_transfered_size
    /\ result.ec = "ok" => runner.m_remained_size = 0

EndedOnce == at = "idle" => \E result, onWire : Over(result, onWire)

SendfileInv == SendfileTypes /\ GoingOn /\ EndedOnce

-----------------------------------------------------------------------------
(* Sequences of consecutive octets                                         *)

\* The octets from an offset are a sequence of that length.
LEMMA OctetsType ==
    ASSUME NEW o \in Nat, NEW n \in Nat
    PROVE  OctetsFrom(o, n) \in Seq(Nat) /\ Len(OctetsFrom(o, n)) = n
<1>1. \A i \in 1..n : o + i - 1 \in Nat
  OBVIOUS
<1>2. OctetsFrom(o, n) \in [1..n -> Nat]
  BY <1>1 DEF OctetsFrom
<1>. QED
  BY <1>2

\* Octets that follow octets continue them.
LEMMA OctetsJoin ==
    ASSUME NEW o \in Nat, NEW n \in Nat, NEW k \in Nat
    PROVE  OctetsFrom(o, n) \o OctetsFrom(o + n, k) = OctetsFrom(o, n + k)
<1>. DEFINE a == OctetsFrom(o, n)
            b == OctetsFrom(o + n, k)
            c == OctetsFrom(o, n + k)
<1>1. a \in Seq(Nat) /\ Len(a) = n /\ b \in Seq(Nat) /\ Len(b) = k
      /\ c \in Seq(Nat) /\ Len(c) = n + k
  BY SMTT(30), OctetsType
<1>2. /\ \A i \in 1..n : a[i] = o + i - 1
      /\ \A i \in 1..k : b[i] = o + n + i - 1
      /\ \A i \in 1..(n + k) : c[i] = o + i - 1
  BY DEF OctetsFrom
<1>. HIDE DEF a, b, c
<1>3. /\ a \o b \in Seq(Nat) /\ Len(a \o b) = n + k
      /\ \A i \in 1..(n + k) : (a \o b)[i] = IF i <= n THEN a[i] ELSE b[i - n]
  BY Zenon, <1>1, ConcatProperties
<1>4. ASSUME NEW i \in 1..(n + k)
      PROVE  (a \o b)[i] = c[i]
  <2>1. CASE i <= n
    BY <1>2, <1>3, <2>1
  <2>2. CASE i > n
    <3>1. i - n \in 1..k
      BY <2>2
    <3>2. (a \o b)[i] = b[i - n]
      BY <1>3, <2>2
    <3>3. b[i - n] = o + n + (i - n) - 1
      BY <1>2, <3>1
    <3>. QED
      BY <1>2, <3>2, <3>3
  <2>3. i <= n \/ i > n
    OBVIOUS
  <2>. QED
    BY ONLY Zenon, <2>1, <2>2, <2>3
<1>5. a \o b = c
  BY Zenon, <1>1, <1>3, <1>4, SeqEqual
<1>. QED
  BY <1>5 DEF a, b, c

\* A prefix of the octets from an offset.
LEMMA OctetsPrefix ==
    ASSUME NEW o \in Nat, NEW n \in Nat, NEW k \in 0..n
    PROVE  SubSeq(OctetsFrom(o, n), 1, k) = OctetsFrom(o, k)
<1>1. SubSeq(OctetsFrom(o, n), 1, k) = [i \in 1..k |-> OctetsFrom(o, n)[i]]
  BY OctetsType
<1>2. \A i \in 1..k : OctetsFrom(o, n)[i] = o + i - 1
  BY DEF OctetsFrom
<1>. QED
  BY <1>1, <1>2 DEF OctetsFrom

-----------------------------------------------------------------------------
(* The invariant                                                           *)

\* A part of a file that exists is a range of naturals, and chunks are not
\* empty: what start_sendfile_operation hands to the runner.
LEMMA InitInv == SendfileInit => SendfileInv
<1>. SUFFICES ASSUME SendfileInit
              PROVE  SendfileInv
  OBVIOUS
<1>. USE SendfileAssumption
<1>1. PICK offset \in 0..file_size, size \in PartSizes, chunk \in ChunkSizes :
        /\ range = offset_and_size(file_size, offset, size)
        /\ range.m_size > 0
        /\ runner = [m_next_write_offset |-> range.m_offset,
                     m_remained_size |-> range.m_size,
                     m_transfered_size |-> 0, m_chunk_size |-> clarify_chunk_size(chunk)]
  BY DEF SendfileInit
<1>2. file_size \in Nat /\ offset \in Nat /\ size \in Nat /\ chunk \in Nat
  BY DEF SendfileInit
<1>3. range \in [m_offset : Nat, m_size : Nat]
  BY <1>1, <1>2 DEF offset_and_size, Least
<1>4. clarify_chunk_size(chunk) \in Nat \ {0}
  BY <1>2 DEF clarify_chunk_size
<1>5. runner \in Runners
  BY <1>1, <1>3, <1>4 DEF Runners
<1>6. SendfileTypes
  BY <1>1, <1>2, <1>3, <1>5 DEF SendfileInit, SendfileTypes, Going
<1>7. wire = OctetsFrom(range.m_offset, 0)
  BY DEF SendfileInit, OctetsFrom
<1>. QED
  BY <1>1, <1>3, <1>6, <1>7 DEF SendfileInit, SendfileInv, GoingOn, EndedOnce, Going

\* The callback ends the operation: the octets on the wire are those that the
\* counters say, or more of them when a write has failed.
LEMMA CallbackEnds ==
    ASSUME NEW ec, NEW onWire, SendfileTypes', told = <<>>, m_after_sendfile_cb(ec),
           onWire \in (runner'.m_transfered_size)..(range'.m_size),
           wire' = OctetsFrom(range'.m_offset, onWire),
           socket' = "tcp" => onWire = runner'.m_transfered_size,
           ec = "ok" => runner'.m_remained_size = 0
    PROVE  SendfileInv'
<1>0. PICK result : result = [ec |-> ec, written |-> runner'.m_transfered_size]
  BY Zenon
<1>1. told' = <<result>> /\ at' = "idle"
  BY <1>0 DEF m_after_sendfile_cb
<1>2. Over(result, onWire)'
  BY <1>0, <1>1 DEF Over
<1>3. EndedOnce'
  BY <1>2 DEF EndedOnce
<1>. QED
  BY <1>1, <1>3 DEF SendfileInv, GoingOn, Going

\* A step that moves no octet keeps the invariant: it goes on or it calls back.
LEMMA NothingMoves ==
    ASSUME SendfileInv, at \in Going \ {"writing"},
           UNCHANGED <<socket, range, file_size, runner, wire>>,
           NEW to \in Going \ {"writing"}, NEW ec,
           Goes(to) \/ m_after_sendfile_cb(ec),
           ec = "ok" => runner.m_remained_size = 0
    PROVE  SendfileInv'
<1>1. told = <<>> /\ wire = OctetsFrom(range.m_offset, runner.m_transfered_size)
      /\ runner.m_next_write_offset = range.m_offset + runner.m_transfered_size
  BY DEF SendfileInv, GoingOn
<1>2. CASE Goes(to)
  <2>1. SendfileTypes'
    BY <1>2 DEF SendfileInv, SendfileTypes, Goes
  <2>2. GoingOn'
    BY <1>1, <1>2 DEF GoingOn, Goes
  <2>. QED
    BY <1>2, <2>1, <2>2 DEF SendfileInv, EndedOnce, Goes, Going
<1>3. CASE m_after_sendfile_cb(ec)
  <2>1. SendfileTypes'
    BY <1>3 DEF SendfileInv, SendfileTypes, m_after_sendfile_cb
  <2>2. PICK n : n = runner.m_transfered_size
    OBVIOUS
  <2>3. n \in (runner'.m_transfered_size)..(range'.m_size)
    BY <2>2 DEF SendfileInv, SendfileTypes, Runners
  <2>. QED
    BY <1>1, <1>3, <2>1, <2>2, <2>3, CallbackEnds
<1>. QED
  BY <1>2, <1>3

\* No step of the operation, of the kernel or of another process breaks it.
LEMMA NextInv == SendfileInv /\ [SendfileNext]_sendfileVars => SendfileInv'
<1>. SUFFICES ASSUME SendfileInv, [SendfileNext]_sendfileVars
              PROVE  SendfileInv'
  OBVIOUS
<1>. USE DEF Going
<1>1. CASE try_turn_non_blocking_mode
  BY <1>1, NothingMoves DEF try_turn_non_blocking_mode
<1>2. CASE SendfileCall
  <2>1. at = "sendfile" /\ UNCHANGED <<socket, range, file_size, buffer>>
    BY Zenon, <1>2 DEF SendfileCall
  <2>2. CASE UNCHANGED <<runner, wire>> /\ try_initiate_waiting_for_write_readiness
    BY <2>1, <2>2, NothingMoves DEF try_initiate_waiting_for_write_readiness
  <2>3. CASE UNCHANGED <<runner, wire>> /\ m_after_sendfile_cb("sendfile_failed")
    BY <2>1, <2>3, NothingMoves
  <2>4. ASSUME NEW n \in 1..Least(Portion, Available),
               wire' = wire \o Octets(n),
               runner' = [runner EXCEPT !.m_next_write_offset = @ + n,
                                        !.m_remained_size = @ - n,
                                        !.m_transfered_size = @ + n],
               Goes("sendfile")
        PROVE  SendfileInv'
    <3>1. n \in Nat /\ n <= runner.m_remained_size
      BY DEF SendfileInv, SendfileTypes, Runners, Least, Portion, Available
    <3>a. runner \in Runners
      BY DEF SendfileInv, SendfileTypes
    <3>b. /\ runner.m_next_write_offset + n \in Nat /\ runner.m_remained_size - n \in Nat
          /\ runner.m_transfered_size + n \in Nat
      BY <3>1, <3>a DEF Runners
    <3>2. /\ runner'.m_transfered_size = runner.m_transfered_size + n
          /\ runner'.m_remained_size = runner.m_remained_size - n
          /\ runner'.m_next_write_offset = runner.m_next_write_offset + n
          /\ runner' \in Runners
      BY ONLY Zenon, <2>4, <3>a, <3>b DEF Runners
    <3>3. /\ told = <<>> /\ wire = OctetsFrom(range.m_offset, runner.m_transfered_size)
          /\ runner.m_next_write_offset = range.m_offset + runner.m_transfered_size
      BY <2>1 DEF SendfileInv, GoingOn
    <3>4. /\ range.m_offset \in Nat /\ runner.m_transfered_size \in Nat
          /\ runner.m_remained_size \in Nat
          /\ runner.m_transfered_size + runner.m_remained_size = range.m_size
      BY DEF SendfileInv, SendfileTypes, Runners
    <3>5. at' = "sendfile" /\ told' = <<>>
      BY <2>4, <3>3 DEF Goes
    <3>6. (runner.m_transfered_size + n) + (runner.m_remained_size - n) = range.m_size
      BY <3>1, <3>4
    <3>7. SendfileTypes'
      BY <2>1, <3>2, <3>5, <3>6 DEF SendfileInv, SendfileTypes
    <3>8. wire' = OctetsFrom(range.m_offset, runner.m_transfered_size)
                  \o OctetsFrom(range.m_offset + runner.m_transfered_size, n)
      BY <2>4, <3>3 DEF Octets
    <3>9. wire' = OctetsFrom(range.m_offset, runner.m_transfered_size + n)
      BY Zenon, <3>1, <3>4, <3>8, OctetsJoin
    <3>10. runner.m_next_write_offset + n = range.m_offset + (runner.m_transfered_size + n)
      BY <3>1, <3>3, <3>4
    <3>11. GoingOn'
      BY <2>1, <3>2, <3>5, <3>9, <3>10 DEF GoingOn
    <3>. QED
      BY <3>5, <3>7, <3>11 DEF SendfileInv, EndedOnce
  <2>. QED
    BY Zenon, <1>2, <2>2, <2>3, <2>4 DEF SendfileCall
<1>3. CASE WriteReady
  BY <1>3, NothingMoves DEF WriteReady
<1>4. CASE StartReading
  BY <1>4, NothingMoves DEF StartReading
<1>5. CASE ReadPortion
  <2>1. /\ at = "read" /\ socket = "other"
        /\ UNCHANGED <<socket, range, file_size, wire>>
    BY <1>5 DEF ReadPortion
  <2>2. /\ told = <<>> /\ wire = OctetsFrom(range.m_offset, runner.m_transfered_size)
        /\ runner.m_next_write_offset = range.m_offset + runner.m_transfered_size
    BY <2>1 DEF SendfileInv, GoingOn
  <2>3. ASSUME NEW n \in 1..Least(Portion, Available),
               runner' = [runner EXCEPT !.m_next_write_offset = @ + n],
               \/ buffer' = Octets(n) /\ Goes("writing")
               \/ UNCHANGED buffer /\ m_after_sendfile_cb("async_write_call_failed")
        PROVE  SendfileInv'
    <3>1. n \in Nat /\ n <= runner.m_remained_size
      BY DEF SendfileInv, SendfileTypes, Runners, Least, Portion, Available
    <3>2. SendfileTypes'
      BY SMTT(30), <2>1, <2>3, <3>1
         DEF SendfileInv, SendfileTypes, Runners, Goes, m_after_sendfile_cb
    <3>3. /\ runner'.m_transfered_size = runner.m_transfered_size
          /\ runner'.m_remained_size = runner.m_remained_size
          /\ runner'.m_next_write_offset = runner.m_next_write_offset + n
      BY <2>3 DEF SendfileInv, SendfileTypes, Runners
    <3>4. CASE buffer' = Octets(n) /\ Goes("writing")
      <4>1. runner.m_next_write_offset \in Nat
        BY DEF SendfileInv, SendfileTypes, Runners
      <4>2. Len(buffer') = n
        BY <3>1, <3>4, <4>1, OctetsType DEF Octets
      <4>3. buffer' = OctetsFrom(range.m_offset + runner.m_transfered_size, n)
        BY <2>2, <3>4 DEF Octets
      <4>4. n \in 0..runner.m_remained_size
        BY <3>1 DEF SendfileInv, SendfileTypes, Runners
      <4>5. GoingOn'
        BY <2>1, <2>2, <3>3, <3>4, <4>2, <4>3, <4>4 DEF GoingOn, Goes
      <4>. QED
        BY <3>2, <3>4, <4>5 DEF SendfileInv, EndedOnce, Goes
    <3>5. CASE m_after_sendfile_cb("async_write_call_failed")
      <4>1. PICK w : w = runner.m_transfered_size
        OBVIOUS
      <4>2. w \in (runner'.m_transfered_size)..(range'.m_size)
        BY <2>1, <3>3, <4>1 DEF SendfileInv, SendfileTypes, Runners
      <4>. QED
        BY <2>1, <2>2, <3>2, <3>3, <3>5, <4>1, <4>2, CallbackEnds
    <3>. QED
      BY <2>3, <3>4, <3>5
  <2>4. CASE UNCHANGED <<runner, buffer>> /\ m_after_sendfile_cb("eof")
    BY <2>1, <2>4, NothingMoves
  <2>5. CASE UNCHANGED <<runner, buffer>> /\ m_after_sendfile_cb("read_failed")
    BY <2>1, <2>5, NothingMoves
  <2>. QED
    BY <1>5, <2>3, <2>4, <2>5 DEF ReadPortion
<1>6. CASE PortionWritten
  <2>1. /\ at = "writing" /\ socket = "other"
        /\ UNCHANGED <<socket, range, file_size>>
    BY <1>6 DEF PortionWritten
  <2>. DEFINE sent == runner.m_transfered_size
              b == Len(buffer)
  <2>2. /\ told = <<>> /\ wire = OctetsFrom(range.m_offset, sent)
        /\ b \in 0..runner.m_remained_size
        /\ buffer = OctetsFrom(range.m_offset + sent, b)
        /\ runner.m_next_write_offset = range.m_offset + sent + b
    BY <2>1 DEF SendfileInv, GoingOn
  <2>3. /\ range.m_offset \in Nat /\ sent \in Nat /\ b \in Nat
        /\ runner.m_remained_size \in Nat /\ range.m_size \in Nat
        /\ sent + runner.m_remained_size = range.m_size
    BY <2>2 DEF SendfileInv, SendfileTypes, Runners
  <2>. HIDE DEF sent, b
  <2>6. wire \o buffer = OctetsFrom(range.m_offset, sent + b)
    BY ZenonT(30), <2>2, <2>3, OctetsJoin
  <2>4. CASE /\ wire' = wire \o buffer /\ Transferred(Len(buffer))
             /\ IF runner'.m_remained_size = 0 THEN m_after_sendfile_cb("ok")
                ELSE Goes("read")
    <3>0. runner' = [runner EXCEPT !.m_remained_size = @ - b, !.m_transfered_size = @ + b]
      BY <2>4 DEF Transferred, b
    <3>1. /\ runner'.m_transfered_size = sent + b
          /\ runner'.m_remained_size = runner.m_remained_size - b
          /\ runner'.m_next_write_offset = runner.m_next_write_offset
          /\ runner' \in Runners
      <4>1. runner \in Runners
        BY DEF SendfileInv, SendfileTypes
      <4>2. runner.m_remained_size - b \in Nat /\ runner.m_transfered_size + b \in Nat
        BY <2>2, <2>3 DEF sent
      <4>. QED
        BY ONLY Zenon, <3>0, <4>1, <4>2 DEF Runners, sent
    <3>2. at' \in Going \cup {"idle"}
      BY <2>4 DEF Goes, m_after_sendfile_cb
    <3>3. SendfileTypes'
      BY <2>1, <2>2, <2>3, <3>1, <3>2 DEF SendfileInv, SendfileTypes
    <3>4. wire' = OctetsFrom(range.m_offset, sent + b)
      BY <2>4, <2>6
    <3>5. CASE runner'.m_remained_size = 0
      <4>1. PICK w : w = sent + b
        OBVIOUS
      <4>2. w \in (runner'.m_transfered_size)..(range'.m_size)
        BY <2>1, <2>2, <2>3, <3>1, <4>1
      <4>. QED
        BY SMTT(30), <2>1, <2>2, <2>4, <3>1, <3>3, <3>4, <3>5, <4>1, <4>2, CallbackEnds
    <3>6. CASE runner'.m_remained_size # 0
      <4>1. GoingOn'
        <5>1. at' = "read" /\ told' = <<>>
          BY <2>2, <2>4, <3>6 DEF Goes
        <5>2. range.m_offset + sent + b = range.m_offset + (sent + b)
          BY <2>3
        <5>. QED
          BY <2>1, <2>2, <3>1, <3>4, <5>1, <5>2 DEF GoingOn
      <4>. QED
        BY <2>4, <3>3, <3>6, <4>1 DEF SendfileInv, EndedOnce, Goes
    <3>. QED
      BY <3>5, <3>6
  <2>5. ASSUME NEW k \in 0..(Len(buffer) - 1), wire' = wire \o SubSeq(buffer, 1, k),
               UNCHANGED runner, m_after_sendfile_cb("write_failed")
        PROVE  SendfileInv'
    <3>1. k \in Nat /\ k \in 0..b
      BY <2>3 DEF b
    <3>2. SendfileTypes'
      BY <2>1, <2>5 DEF SendfileInv, SendfileTypes, m_after_sendfile_cb
    <3>3. SubSeq(buffer, 1, k) = OctetsFrom(range.m_offset + sent, k)
      <4>1. range.m_offset + sent \in Nat
        BY <2>3
      <4>2. SubSeq(OctetsFrom(range.m_offset + sent, b), 1, k)
                = OctetsFrom(range.m_offset + sent, k)
        BY ONLY Zenon, <2>3, <3>1, <4>1, OctetsPrefix
      <4>. QED
        BY ONLY <2>2, <4>2
    <3>4. wire' = OctetsFrom(range.m_offset, sent + k)
      <4>1. OctetsFrom(range.m_offset, sent) \o OctetsFrom(range.m_offset + sent, k)
                = OctetsFrom(range.m_offset, sent + k)
        BY ONLY ZenonT(30), <2>3, <3>1, OctetsJoin
      <4>. QED
        BY ONLY <2>2, <2>5, <3>3, <4>1
    <3>5. PICK w : w = sent + k
      OBVIOUS
    <3>6. w \in sent..range.m_size
      BY <2>2, <2>3, <3>1, <3>5
    <3>7. w \in (runner'.m_transfered_size)..(range'.m_size)
      BY <2>1, <2>5, <3>6 DEF sent
    <3>. QED
      BY Zenon, <2>1, <2>2, <2>5, <3>2, <3>4, <3>5, <3>7, CallbackEnds
  <2>. QED
    BY <1>6, <2>4, <2>5 DEF PortionWritten
<1>7. CASE Truncate
  <2>1. file_size' \in Nat
    BY <1>7 DEF Truncate, SendfileInv, SendfileTypes
  <2>2. UNCHANGED <<socket, range, runner, at, buffer, wire, told>>
    BY <1>7 DEF Truncate
  <2>. QED
    BY <2>1, <2>2 DEF SendfileInv, SendfileTypes, GoingOn, EndedOnce, Over
<1>8. CASE UNCHANGED sendfileVars
  BY <1>8 DEF sendfileVars, SendfileInv, SendfileTypes, GoingOn, EndedOnce, Over
<1>. QED
  BY <1>1, <1>2, <1>3, <1>4, <1>5, <1>6, <1>7, <1>8 DEF SendfileNext

\* The invariant says what FileSentExact says of both phases.
LEMMA InvExact == SendfileInv => FileSentExact
<1>. SUFFICES ASSUME SendfileInv
              PROVE  FileSentExact
  OBVIOUS
<1>1. /\ range.m_offset \in Nat /\ range.m_size \in Nat /\ runner.m_transfered_size \in Nat
      /\ runner.m_remained_size \in Nat
      /\ runner.m_transfered_size + runner.m_remained_size = range.m_size
  BY DEF SendfileInv, SendfileTypes, Runners
<1>2. CASE at \in Going
  <2>1. told = <<>> /\ wire = OctetsFrom(range.m_offset, runner.m_transfered_size)
    BY <1>2 DEF SendfileInv, GoingOn
  <2>2. Len(wire) = runner.m_transfered_size
    BY SMTT(30), <1>1, <2>1, OctetsType
  <2>. QED
    BY <1>1, <1>2, <2>1, <2>2 DEF FileSentExact, Going
<1>3. CASE at = "idle"
  <2>1. PICK result, onWire : Over(result, onWire)
    BY <1>3 DEF SendfileInv, EndedOnce
  <2>2. onWire \in Nat /\ onWire <= range.m_size /\ runner.m_transfered_size <= onWire
    BY <1>1, <2>1 DEF Over
  <2>3. Len(wire) = onWire /\ wire = OctetsFrom(range.m_offset, onWire)
    BY <1>1, <2>1, <2>2, OctetsType DEF Over
  <2>4. told = <<result>> /\ result.written = runner.m_transfered_size
    BY <2>1 DEF Over
  <2>5. result.ec = "ok" => runner.m_transfered_size = range.m_size
    BY <1>1, <2>1 DEF Over
  <2>6. socket = "tcp" => onWire = runner.m_transfered_size
    BY <2>1 DEF Over
  <2>7. Len(told) = 1 /\ told # <<>> /\ DOMAIN told = {1} /\ told[1] = result
    BY <2>4
  <2>8. /\ result.ec = "ok" => Len(wire) = range.m_size /\ result.written = range.m_size
        /\ result.written <= Len(wire)
        /\ socket = "tcp" => result.written = Len(wire)
    BY <1>1, <2>2, <2>3, <2>4, <2>5, <2>6
  <2>. QED
    BY <1>3, <2>2, <2>3, <2>7, <2>8 DEF FileSentExact
<1>. QED
  BY <1>2, <1>3 DEF SendfileInv, SendfileTypes

\* Whatever the sizes of the file, of the part and of the chunks, whatever the
\* kernel takes in one call and wherever a call fails: the wire holds the part
\* from its first octet on, and the callback tells the truth, once.
THEOREM SendfileExact == SendfileSpec => []FileSentExact
<1>. QED
  BY InitInv, NextInv, InvExact, PTL DEF SendfileSpec
=============================================================================
