------------------------- MODULE PipelinedResponses -------------------------
(***************************************************************************)
(* response_coordinator_t and the calls made to it: the reader registers   *)
(* requests, handlers append parts of responses in any order (late ones    *)
(* and ones too many included), the writer takes groups, and the           *)
(* connection resets it when it closes.  Shown to implement ResponseFifo.  *)
(***************************************************************************)
EXTENDS ResponseCoordinator

CONSTANTS
  MaxRequests,   \* bound: requests registered
  MaxParts       \* bound: parts offered for one request

ASSUME PipelineAssumption ==
  /\ MaxRequests \in Nat
  /\ MaxParts \in Nat

VARIABLES
  registered,    \* history: how many requests were registered
  offered,       \* history: how many parts each request's handler offered
  out,           \* history: the parts taken by the writer, in order
  dropped        \* history: parts refused by a throw, or dropped by reset

vars == <<coordinatorVars, registered, offered, out, dropped>>

Requests == 0 .. MaxRequests - 1

\* Part n of the response to a request; only the first has a status line.
PartSet == {p \in [req : Requests, n : 1 .. MaxParts, status : BOOLEAN, notif : BOOLEAN] :
              p.status = (p.n = 1)}

Init ==
  /\ CoordinatorInit
  /\ registered = 0
  /\ offered = [r \in Requests |-> 0]
  /\ out = <<>>
  /\ dropped = {}

Register ==
  /\ registered < MaxRequests
  /\ register_new_request
  /\ registered' = registered + 1
  /\ UNCHANGED <<offered, out, dropped>>

\* A handler offers the next part of its response.
Offer(part) ==
  /\ part.req < registered
  /\ part.n = offered[part.req] + 1
  /\ offered' = [offered EXCEPT ![part.req] = @ + 1]

RespondPart(part) ==
  /\ Offer(part)
  /\ \E final, close \in BOOLEAN : append_response(part.req % IdModulus, final, close, part)
  /\ UNCHANGED <<registered, out, dropped>>

\* append_response throws; the write group is destroyed.
RespondRefused(part) ==
  /\ Offer(part)
  /\ ~CanAppend(part.req % IdModulus)
  /\ dropped' = dropped \cup {<<part.req, part.n>>}
  /\ UNCHANGED <<coordinatorVars, registered, out>>

Write ==
  /\ pop_ready_buffers
  /\ out' = out \o ready_group
  /\ UNCHANGED <<registered, offered, dropped>>

\* The parts of a response that wait, one write group after the other.
PartsOf(ctx) ==
  LET upTo[n \in 0 .. Len(ctx.m_write_groups)] == IF n = 0 THEN <<>> ELSE upTo[n - 1] \o ctx.m_write_groups[n]
  IN  upTo[Len(ctx.m_write_groups)]

Names(parts) == {<<parts[k].req, parts[k].n>> : k \in DOMAIN parts}
Queued == UNION {Names(PartsOf(Live[i])) : i \in DOMAIN Live}

Reset ==
  /\ reset
  /\ dropped' = dropped \cup Queued
  /\ UNCHANGED <<registered, offered, out>>

Next ==
  \/ Register
  \/ \E part \in PartSet : RespondPart(part) \/ RespondRefused(part)
  \/ Write
  \/ Reset

Spec == Init /\ [][Next]_vars
-----------------------------------------------------------------------------
TypeOK ==
  /\ m_first_element_index \in Cells
  /\ m_elements_exists \in 0 .. MaxReq
  /\ m_request_id_counter \in 0 .. IdModulus - 1
  /\ m_connection_closed_response_occured \in BOOLEAN
  /\ DOMAIN m_contexts = Cells
  /\ \A i \in Cells :
       /\ m_contexts[i].request_id \in 0 .. IdModulus - 1
       /\ m_contexts[i].m_write_groups \in Seq(Seq(PartSet))
       /\ m_contexts[i].final \in BOOLEAN
       /\ m_contexts[i].close \in BOOLEAN
  /\ registered \in 0 .. MaxRequests
  /\ offered \in [Requests -> 0 .. MaxParts]

\* "Keeps track of maximum N (max_req_count) pipelined requests": get_by_req_id
\* finds each request under way in its own cell of the ring, and no other.
LookupExact ==
  /\ \A d \in 0 .. m_elements_exists - 1 :
       LET id == m_contexts[Cell(d)].request_id
       IN  Known(id) /\ get_real_index(id) = Cell(d)
  /\ \A id \in 0 .. IdModulus - 1 :
       Known(id) => m_contexts[get_real_index(id)].request_id = id

\* reinit() does not clear the write groups of a cell that is used again, so
\* every cell that is not in use must have been left without any: otherwise
\* parts of an old response would be sent as part of a new one.
FreeCellsEmpty ==
  \A d \in m_elements_exists .. MaxReq - 1 : m_contexts[Cell(d)].m_write_groups = <<>>

\* Every part a handler offered is in exactly one place: waiting in the ring,
\* given to the writer, or dropped with an error.  (A part given to the writer
\* twice, or dropped after it was written, would notify its handler twice.)
PartsConserved ==
  /\ Names(out) \cap Queued = {}
  /\ Names(out) \cap dropped = {}
  /\ Queued \cap dropped = {}
  /\ \A j, k \in DOMAIN out : j # k => <<out[j].req, out[j].n>> # <<out[k].req, out[k].n>>
  /\ Names(out) \cup Queued \cup dropped =
       {p \in Requests \X (1 .. MaxParts) : p[2] <= offered[p[1]]}

\* A notificator belongs to the end of a write group: no part that has one is
\* followed by another part in the same group, for write_group_t::merge would
\* overwrite it.
NotificatorEndsGroup ==
  \A i \in DOMAIN Live : \A g \in DOMAIN Live[i].m_write_groups :
    LET group == Live[i].m_write_groups[g]
    IN  \A k \in 1 .. Len(group) - 1 : ~group[k].notif

\* The ring of contexts with its merged write groups implements the queue of
\* responses of ResponseFifo.
ResponseOf(ctx) == [id |-> ctx.request_id, parts |-> PartsOf(ctx), final |-> ctx.final, close |-> ctx.close]
ResponseQueue == [i \in 1 .. m_elements_exists |-> ResponseOf(Live[i])]

Fifo == INSTANCE ResponseFifo WITH
  Capacity <- MaxReq,
  Parts <- PartSet,
  queue <- ResponseQueue,
  nextId <- registered,
  sent <- out,
  last <- m_connection_closed_response_occured

ImplementsFifo == Fifo!Spec
=============================================================================
