------------------------ MODULE ResponseCoordinator ------------------------
(***************************************************************************)
(* restinio::impl::response_coordinator_t: the ring of response contexts   *)
(* that puts the pieces of pipelined responses in the order of their       *)
(* requests.                                                               *)
(*                                                                         *)
(* The operators are the methods of the class.  A method that may throw    *)
(* has its precondition as an operator of its own (CanAppend, is_full,     *)
(* closed); the modules that extend this one say what the caller does with *)
(* the exception.                                                          *)
(*                                                                         *)
(* What a caller hands in is a part: a record with at least the fields     *)
(* status (it carries the status line) and notif (it has an after-write    *)
(* notificator).  A write group is the sequence of the parts merged in it. *)
(***************************************************************************)
EXTENDS Integers, Sequences

CONSTANTS
  MaxReq,        \* max_req_count, the size of the ring
  IdModulus      \* request_id_t counts modulo this (2^32 in the code)

ASSUME CoordinatorAssumption ==
  /\ MaxReq \in Nat \ {0}
  /\ IdModulus \in Nat \ {0}

VARIABLES
  m_contexts,
  m_first_element_index,
  m_elements_exists,
  m_request_id_counter,
  m_connection_closed_response_occured

coordinatorVars ==
  <<m_contexts, m_first_element_index, m_elements_exists, m_request_id_counter,
    m_connection_closed_response_occured>>

Cells == 0 .. MaxReq - 1

\* A context as reinit(req_id) leaves one that holds no write groups.
FreshContext(id) ==
  [request_id |-> id, m_write_groups |-> <<>>, final |-> FALSE, close |-> FALSE]

CoordinatorInit ==
  /\ m_contexts = [i \in Cells |-> FreshContext(0)]
  /\ m_first_element_index = 0
  /\ m_elements_exists = 0
  /\ m_request_id_counter = 0
  /\ m_connection_closed_response_occured = FALSE
-----------------------------------------------------------------------------
closed == m_connection_closed_response_occured
empty == m_elements_exists = 0
is_full == m_elements_exists = MaxReq
is_able_to_get_more_messages == ~closed /\ ~is_full

\* The cell at the given distance from the first one.
Cell(distance) == (m_first_element_index + distance) % MaxReq

front == m_contexts[m_first_element_index]
back == m_contexts[Cell(m_elements_exists - 1)]

\* get_by_req_id(id) is not nullptr ...
Known(id) == ~empty /\ front.request_id <= id /\ id <= back.request_id
\* ... and points to this cell.
get_real_index(id) == Cell(id - front.request_id)
-----------------------------------------------------------------------------
\* Faulty variants of the operators that follow them, used to show that the
\* properties notice such a mistake.
RegisterUnchecked ==
  /\ m_elements_exists <= MaxReq
  /\ m_contexts' = [m_contexts EXCEPT ![Cell(m_elements_exists)] =
                      [@ EXCEPT !.request_id = m_request_id_counter, !.final = FALSE, !.close = FALSE]]
  /\ m_elements_exists' = m_elements_exists + 1
  /\ m_request_id_counter' = (m_request_id_counter + 1) % IdModulus
  /\ UNCHANGED <<m_first_element_index, m_connection_closed_response_occured>>

\* register_new_request, which throws when the ring is full.  reinit leaves
\* the write groups of the cell alone.
register_new_request ==
  /\ ~is_full
  /\ m_contexts' = [m_contexts EXCEPT ![Cell(m_elements_exists)] =
                      [@ EXCEPT !.request_id = m_request_id_counter, !.final = FALSE, !.close = FALSE]]
  /\ m_elements_exists' = m_elements_exists + 1
  /\ m_request_id_counter' = (m_request_id_counter + 1) % IdModulus
  /\ UNCHANGED <<m_first_element_index, m_connection_closed_response_occured>>

\* The notificator of a group is that of the part merged last.
has_after_write_notificator(group) == group[Len(group)].notif

EnqueueAlwaysMerges(groups, part) ==
  IF groups # <<>>
    THEN [groups EXCEPT ![Len(groups)] = Append(@, part)]
    ELSE Append(groups, <<part>>)

enqueue_group(groups, part) ==
  IF groups # <<>> /\ ~has_after_write_notificator(groups[Len(groups)]) /\ ~part.status
    THEN [groups EXCEPT ![Len(groups)] = Append(@, part)]
    ELSE Append(groups, <<part>>)

\* append_response throws unless:
CanAppend(id) == ~closed /\ Known(id) /\ ~m_contexts[get_real_index(id)].final

append_response(id, final, close, part) ==
  /\ CanAppend(id)
  /\ LET ctx == m_contexts[get_real_index(id)]
     IN  m_contexts' = [m_contexts EXCEPT ![get_real_index(id)] =
                          [ctx EXCEPT !.final = final, !.close = close,
                                      !.m_write_groups = enqueue_group(ctx.m_write_groups, part)]]
  /\ UNCHANGED <<m_first_element_index, m_elements_exists, m_request_id_counter,
                 m_connection_closed_response_occured>>

\* pop_ready_buffers throws when closed and returns nothing unless:
HasReadyBuffers == ~empty /\ front.m_write_groups # <<>>

ready_group == front.m_write_groups[1]

PopOnFinalFlag == front.final

\* The group taken is the last one of a complete response.
CompletesFront == Len(front.m_write_groups) = 1 /\ front.final

PopKeepsOpen ==
  /\ ~closed
  /\ HasReadyBuffers
  /\ m_contexts' = [m_contexts EXCEPT ![m_first_element_index].m_write_groups = Tail(@)]
  /\ m_first_element_index' = IF CompletesFront THEN Cell(1) ELSE m_first_element_index
  /\ m_elements_exists' = IF CompletesFront THEN m_elements_exists - 1 ELSE m_elements_exists
  /\ UNCHANGED <<m_request_id_counter, m_connection_closed_response_occured>>

pop_ready_buffers ==
  /\ ~closed
  /\ HasReadyBuffers
  /\ m_contexts' = [m_contexts EXCEPT ![m_first_element_index].m_write_groups = Tail(@)]
  /\ m_connection_closed_response_occured' =
       (m_connection_closed_response_occured \/ (CompletesFront /\ front.close))
  /\ m_first_element_index' = IF CompletesFront THEN Cell(1) ELSE m_first_element_index
  /\ m_elements_exists' = IF CompletesFront THEN m_elements_exists - 1 ELSE m_elements_exists
  /\ UNCHANGED m_request_id_counter

\* reset(): every context is popped, its groups dequeued and their
\* notificators invoked with an error.
ResetPartly ==
  /\ m_first_element_index' = Cell(m_elements_exists)
  /\ m_elements_exists' = 0
  /\ UNCHANGED <<m_contexts, m_request_id_counter, m_connection_closed_response_occured>>

reset ==
  /\ m_contexts' = [i \in Cells |->
                      IF \E d \in 0 .. m_elements_exists - 1 : i = Cell(d)
                        THEN [m_contexts[i] EXCEPT !.m_write_groups = <<>>]
                        ELSE m_contexts[i]]
  /\ m_first_element_index' = Cell(m_elements_exists)
  /\ m_elements_exists' = 0
  /\ UNCHANGED <<m_request_id_counter, m_connection_closed_response_occured>>

\* The contexts in use, first one first.
Live == [i \in 1 .. m_elements_exists |-> m_contexts[Cell(i - 1)]]
=============================================================================
