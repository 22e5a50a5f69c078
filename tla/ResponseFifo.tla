---------------------------- MODULE ResponseFifo ----------------------------
(***************************************************************************)
(* What a pipelined HTTP connection promises about responses, with no ring *)
(* and no write groups: requests are queued, the parts of a response are   *)
(* collected while it waits, only the response at the head is sent, it     *)
(* leaves the queue when its last part is sent, and a response that closes *)
(* the connection is the last one.                                         *)
(***************************************************************************)
EXTENDS Integers, Sequences

CONSTANTS
  Capacity,      \* how many responses may be under way
  Parts          \* the parts of responses

VARIABLES
  queue,         \* the responses under way: [id, parts, final, close]
  nextId,        \* the id of the next request
  sent,          \* every part sent, in the order of sending
  last           \* the response sent last closes the connection

fifoVars == <<queue, nextId, sent, last>>

Init ==
  /\ queue = <<>>
  /\ nextId = 0
  /\ sent = <<>>
  /\ last = FALSE

Request ==
  /\ Len(queue) < Capacity
  /\ queue' = Append(queue, [id |-> nextId, parts |-> <<>>, final |-> FALSE, close |-> FALSE])
  /\ nextId' = nextId + 1
  /\ UNCHANGED <<sent, last>>

Respond(i, part, final, close) ==
  /\ ~last
  /\ ~queue[i].final
  /\ queue' = [queue EXCEPT ![i] = [id |-> @.id, parts |-> Append(@.parts, part), final |-> final, close |-> close]]
  /\ UNCHANGED <<nextId, sent, last>>

\* Some of the parts at hand are sent, at least one.
Transmit(n) ==
  /\ ~last
  /\ queue # <<>>
  /\ n <= Len(Head(queue).parts)
  /\ sent' = sent \o SubSeq(Head(queue).parts, 1, n)
  /\ LET rest == SubSeq(Head(queue).parts, n + 1, Len(Head(queue).parts))
     IN  IF rest = <<>> /\ Head(queue).final
           THEN queue' = Tail(queue) /\ last' = Head(queue).close
           ELSE queue' = [queue EXCEPT ![1].parts = rest] /\ UNCHANGED last
  /\ UNCHANGED nextId

\* The connection is lost.
Abandon ==
  /\ queue' = <<>>
  /\ UNCHANGED <<nextId, sent, last>>

Next ==
  \/ Request
  \/ \E i \in DOMAIN queue, part \in Parts, final, close \in BOOLEAN : Respond(i, part, final, close)
  \/ queue # <<>> /\ \E n \in 1 .. Len(Head(queue).parts) : Transmit(n)
  \/ Abandon

Spec == Init /\ [][Next]_fifoVars
=============================================================================
