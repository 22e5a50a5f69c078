---------------------- MODULE PipelinedResponsesProofs ----------------------
(***************************************************************************)
(* Proofs about the ring of response_coordinator_t, for rings of any size  *)
(* and any number of requests below the modulus of request_id_t.           *)
(*                                                                         *)
(* The cells in use follow each other from m_first_element_index on,       *)
(* modulo the size of the ring, and hold consecutive request ids that end  *)
(* with the last one registered.  That is what makes get_by_req_id, which  *)
(* only computes with the ids of the first and the last cell, exact.       *)
(***************************************************************************)
EXTENDS PipelinedResponses, SequenceLemmas, TLAPS

\* A write group is not empty, and only its last part has a notificator.
GroupSet == {g \in Seq(PartSet) : g # <<>> /\ \A k \in 1 .. Len(g) - 1 : ~g[k].notif}
Groups == Seq(GroupSet)
Contexts == [request_id : 0 .. IdModulus - 1, m_write_groups : Groups, final : BOOLEAN, close : BOOLEAN]

Shape ==
  /\ m_contexts \in [Cells -> Contexts]
  /\ m_first_element_index \in Cells
  /\ m_elements_exists \in 0 .. MaxReq
  /\ registered \in 0 .. MaxRequests
  /\ m_elements_exists <= registered

\* The ids in the ring are the last ones given out.
Ids ==
  /\ m_request_id_counter = registered % IdModulus
  /\ \A d \in 0 .. m_elements_exists - 1 : m_contexts[Cell(d)].request_id = registered - m_elements_exists + d

IInv == Shape /\ Ids /\ FreeCellsEmpty
-----------------------------------------------------------------------------
(* The arithmetic of the ring. *)

\* The cell at distance d from cell f.
At(f, d) == (f + d) % MaxReq

\* push_response_context and get_real_index stay inside the ring.
LEMMA AtInRing ==
  ASSUME NEW f \in Cells, NEW d \in 0 .. MaxReq
  PROVE  At(f, d) \in Cells
BY CoordinatorAssumption DEF At, Cells

LEMMA AtValue ==
  ASSUME NEW f \in Cells, NEW d \in 0 .. MaxReq
  PROVE  At(f, d) = IF f + d < MaxReq THEN f + d ELSE f + d - MaxReq
BY CoordinatorAssumption DEF At, Cells

\* Two distances below the size of the ring give two cells.
LEMMA AtInjective ==
  ASSUME NEW f \in Cells, NEW d \in 0 .. MaxReq - 1, NEW e \in 0 .. MaxReq - 1, At(f, d) = At(f, e)
  PROVE  d = e
<1>0. MaxReq \in Nat
  BY CoordinatorAssumption
<1>1. d \in 0 .. MaxReq /\ e \in 0 .. MaxReq
  BY CoordinatorAssumption
<1>2. /\ At(f, d) = IF f + d < MaxReq THEN f + d ELSE f + d - MaxReq
      /\ At(f, e) = IF f + e < MaxReq THEN f + e ELSE f + e - MaxReq
  BY <1>1, AtValue
<1>3. f \in 0 .. MaxReq - 1
  BY DEF Cells
<1>4. (IF f + d < MaxReq THEN f + d ELSE f + d - MaxReq) = (IF f + e < MaxReq THEN f + e ELSE f + e - MaxReq)
  BY Zenon, <1>2
<1> QED
  BY ONLY <1>0, <1>3, <1>4, d \in 0 .. MaxReq - 1, e \in 0 .. MaxReq - 1

\* Every cell is at some distance from the first one.
LEMMA AtSurjective ==
  ASSUME NEW f \in Cells, NEW i \in Cells
  PROVE  \E d \in 0 .. MaxReq - 1 : At(f, d) = i
<1>1. f \in 0 .. MaxReq - 1 /\ i \in 0 .. MaxReq - 1
  BY DEF Cells
<1>2. CASE f <= i
  <2>1. i - f \in 0 .. MaxReq - 1 /\ i - f \in 0 .. MaxReq
    BY <1>1, <1>2, CoordinatorAssumption
  <2>2. At(f, i - f) = i
    BY <1>1, <2>1, AtValue, CoordinatorAssumption
  <2> QED
    BY <2>1, <2>2
<1>3. CASE ~(f <= i)
  <2>1. i - f + MaxReq \in 0 .. MaxReq - 1 /\ i - f + MaxReq \in 0 .. MaxReq
    BY <1>1, <1>3, CoordinatorAssumption
  <2>2. At(f, i - f + MaxReq) = i
    BY <1>1, <2>1, AtValue, CoordinatorAssumption
  <2> QED
    BY <2>1, <2>2
<1> QED
  BY <1>2, <1>3

\* pop_response_context moves the first cell on by one.
LEMMA AtNext ==
  ASSUME NEW f \in Cells, NEW d \in 0 .. MaxReq - 1
  PROVE  At(At(f, 1), d) = At(f, d + 1)
<1>1. f \in 0 .. MaxReq - 1 /\ 1 \in 0 .. MaxReq /\ d \in 0 .. MaxReq /\ d + 1 \in 0 .. MaxReq
  BY CoordinatorAssumption DEF Cells
<1>2. At(f, 1) \in Cells /\ At(f, 1) = IF f + 1 < MaxReq THEN f + 1 ELSE f + 1 - MaxReq
  BY <1>1, AtInRing, AtValue
<1>3. At(f, d + 1) = IF f + (d + 1) < MaxReq THEN f + (d + 1) ELSE f + (d + 1) - MaxReq
  BY <1>1, AtValue
<1>4. At(At(f, 1), d) = IF At(f, 1) + d < MaxReq THEN At(f, 1) + d ELSE At(f, 1) + d - MaxReq
  BY Zenon, <1>1, <1>2, AtValue
<1> QED
  BY <1>1, <1>2, <1>3, <1>4, CoordinatorAssumption
-----------------------------------------------------------------------------
(* The invariant. *)

\* enqueue_group makes write groups of write groups: it merges a part only
\* into a group that does not end with a notificator.
LEMMA EnqueueType ==
  ASSUME NEW groups \in Groups, NEW part \in PartSet
  PROVE  enqueue_group(groups, part) \in Groups
<1>1. <<part>> \in GroupSet
  BY DEF GroupSet
<1>2. Append(groups, <<part>>) \in Groups
  BY <1>1 DEF Groups
<1>3. ASSUME groups # <<>>, ~has_after_write_notificator(groups[Len(groups)])
      PROVE  [groups EXCEPT ![Len(groups)] = Append(@, part)] \in Groups
  <2>1. Len(groups) \in 1 .. Len(groups) /\ groups[Len(groups)] \in GroupSet
    BY <1>3 DEF Groups
  <2>2. ASSUME NEW g \in GroupSet, ~has_after_write_notificator(g)
        PROVE  Append(g, part) \in GroupSet
    <3>1. g \in Seq(PartSet) /\ g # <<>> /\ \A k \in 1 .. Len(g) - 1 : ~g[k].notif
      BY DEF GroupSet
    <3>2. ~g[Len(g)].notif
      BY <2>2 DEF has_after_write_notificator
    <3>3. \A k \in 1 .. Len(g) : ~g[k].notif
      BY <3>1, <3>2
    <3>4. Append(g, part) \in Seq(PartSet) /\ Append(g, part) # <<>> /\ Len(Append(g, part)) - 1 = Len(g)
          /\ \A k \in 1 .. Len(g) : Append(g, part)[k] = g[k]
      BY <3>1, AppendProperties
    <3> QED
      BY Zenon, <3>3, <3>4 DEF GroupSet
  <2>3. Append(groups[Len(groups)], part) \in GroupSet
    BY <1>3, <2>1, <2>2
  <2> QED
    BY <2>1, <2>3 DEF Groups
<1> QED
  BY Zenon, <1>2, <1>3 DEF enqueue_group

\* The two conjuncts about the cells, with the first cell as a parameter.
LEMMA CellIsAt == \A d : Cell(d) = At(m_first_element_index, d)
BY DEF Cell, At

LEMMA InitIInv == Init => IInv
<1> SUFFICES ASSUME Init PROVE IInv
  OBVIOUS
<1>1. FreshContext(0) \in Contexts
  <2>1. 0 \in 0 .. IdModulus - 1 /\ <<>> \in Groups
    BY CoordinatorAssumption DEF Groups
  <2> QED
    BY <2>1 DEF FreshContext, Contexts
<1>2. Shape
  BY <1>1, CoordinatorAssumption, PipelineAssumption DEF Init, CoordinatorInit, Shape, Cells
<1>3. Ids
  BY CoordinatorAssumption DEF Init, CoordinatorInit, Ids
<1>4. FreeCellsEmpty
  <2> SUFFICES ASSUME NEW d \in m_elements_exists .. MaxReq - 1
               PROVE  m_contexts[Cell(d)].m_write_groups = <<>>
    BY DEF FreeCellsEmpty
  <2>1. m_first_element_index \in Cells /\ d \in 0 .. MaxReq
    BY <1>2, CoordinatorAssumption DEF Shape
  <2>2. Cell(d) \in Cells
    BY <2>1, AtInRing, CellIsAt
  <2> QED
    BY <2>2 DEF Init, CoordinatorInit, FreshContext
<1> QED
  BY <1>2, <1>3, <1>4 DEF IInv

\* register_new_request takes the first free cell and gives it the next id.
LEMMA RegisterStep ==
  ASSUME MaxRequests <= IdModulus, IInv, Register
  PROVE  IInv'
<1> DEFINE f == m_first_element_index
           e == m_elements_exists
           c == At(f, e)
<1>1. /\ f \in Cells /\ e \in 0 .. MaxReq - 1 /\ e \in 0 .. MaxReq /\ registered \in 0 .. MaxRequests - 1
      /\ e <= registered /\ MaxReq \in Nat \ {0} /\ MaxRequests \in Nat /\ IdModulus \in Nat \ {0}
  BY CoordinatorAssumption, PipelineAssumption DEF IInv, Shape, Register, register_new_request, is_full
<1>2. /\ f' = f /\ e' = e + 1 /\ registered' = registered + 1
      /\ m_contexts' = [m_contexts EXCEPT ![c] = [m_contexts[c] EXCEPT !.request_id = m_request_id_counter,
                                                     !.final = FALSE, !.close = FALSE]]
      /\ m_request_id_counter' = (m_request_id_counter + 1) % IdModulus
  BY Zenon, CellIsAt DEF Register, register_new_request
<1>3. m_request_id_counter = registered
  <2>1. registered % IdModulus = registered
    BY <1>1
  <2> QED
    BY <2>1 DEF IInv, Ids
<1>4. c \in Cells
  BY <1>1, AtInRing
<1>5. m_contexts \in [Cells -> Contexts]
  BY DEF IInv, Shape
<1>6. [m_contexts[c] EXCEPT !.request_id = m_request_id_counter, !.final = FALSE, !.close = FALSE] \in Contexts
  <2>1. m_contexts[c] \in Contexts /\ registered \in 0 .. IdModulus - 1
    BY <1>1, <1>4, <1>5
  <2> QED
    BY Zenon, <2>1, <1>3 DEF Contexts
<1>7. /\ m_contexts'[c].request_id = registered
      /\ \A i \in Cells \ {c} : m_contexts'[i] = m_contexts[i]
  <2>1. m_contexts[c] \in Contexts
    BY <1>4, <1>5
  <2>2. [m_contexts[c] EXCEPT !.request_id = m_request_id_counter, !.final = FALSE, !.close = FALSE].request_id
          = registered
    BY <2>1, <1>3 DEF Contexts
  <2> QED
    BY <1>2, <1>4, <1>5, <2>2
<1>8. Shape'
  BY <1>1, <1>2, <1>4, <1>5, <1>6 DEF Shape, Cells
<1>9. \A d \in 0 .. MaxReq - 1 : d # e => At(f, d) \in Cells \ {c}
  <2> SUFFICES ASSUME NEW d \in 0 .. MaxReq - 1, d # e
               PROVE  At(f, d) \in Cells \ {c}
    OBVIOUS
  <2>1. d \in 0 .. MaxReq
    BY <1>1
  <2> QED
    BY <1>1, <2>1, AtInRing, AtInjective
<1>10. Ids'
  <2>1. m_request_id_counter' = registered' % IdModulus
    BY <1>2, <1>3
  <2>2. ASSUME NEW d \in 0 .. e' - 1
        PROVE  m_contexts'[At(f, d)].request_id = registered' - e' + d
    <3>1. CASE d = e
      BY <1>1, <1>2, <1>7, <3>1
    <3>2. CASE d # e
      <4>1. d \in 0 .. e - 1 /\ d \in 0 .. MaxReq - 1
        BY <1>1, <1>2, <3>2
      <4>2. m_contexts[At(f, d)].request_id = registered - e + d
        BY <4>1, CellIsAt DEF IInv, Ids
      <4>3. m_contexts'[At(f, d)] = m_contexts[At(f, d)]
        BY <1>7, <1>9, <3>2, <4>1
      <4>4. registered' - e' + d = registered - e + d
        BY <1>1, <1>2, <4>1
      <4> QED
        BY <4>2, <4>3, <4>4
    <3> QED
      BY <3>1, <3>2
  <2>3. \A d : Cell(d)' = At(f, d)
    BY <1>2 DEF Cell, At
  <2> QED
    BY <2>1, <2>2, <2>3 DEF Ids
<1>11. FreeCellsEmpty'
  <2> SUFFICES ASSUME NEW d \in e' .. MaxReq - 1
               PROVE  m_contexts'[At(f, d)].m_write_groups = <<>>
    BY <1>2 DEF FreeCellsEmpty, Cell, At
  <2>1. d \in e .. MaxReq - 1 /\ d \in 0 .. MaxReq - 1 /\ d # e
    BY <1>1, <1>2
  <2>2. m_contexts[At(f, d)].m_write_groups = <<>>
    BY <2>1, CellIsAt DEF IInv, FreeCellsEmpty
  <2> QED
    BY <1>7, <1>9, <2>1, <2>2
<1> QED
  BY <1>8, <1>10, <1>11 DEF IInv

\* Known(id) is the range of the ids in the ring.
LEMMA KnownRange ==
  ASSUME IInv, NEW id \in Nat, Known(id)
  PROVE  /\ m_elements_exists \in 1 .. MaxReq
         /\ front.request_id = registered - m_elements_exists
         /\ id - front.request_id \in 0 .. m_elements_exists - 1
         /\ m_contexts[get_real_index(id)].request_id = id
<1>1. /\ m_elements_exists \in 1 .. MaxReq /\ registered \in Nat /\ m_elements_exists <= registered
      /\ MaxReq \in Nat \ {0} /\ m_first_element_index \in 0 .. MaxReq - 1
  BY CoordinatorAssumption, PipelineAssumption DEF Known, empty, IInv, Shape, Cells
<1>2. Cell(0) = m_first_element_index
  BY <1>1 DEF Cell
<1>3. 0 \in 0 .. m_elements_exists - 1 /\ m_elements_exists - 1 \in 0 .. m_elements_exists - 1
  BY <1>1
<1>4. front.request_id = registered - m_elements_exists
  <2>1. m_contexts[Cell(0)].request_id = registered - m_elements_exists + 0
    BY <1>3 DEF IInv, Ids
  <2> QED
    BY <2>1, <1>1, <1>2 DEF front
<1>5. back.request_id = registered - 1
  <2>1. m_contexts[Cell(m_elements_exists - 1)].request_id = registered - m_elements_exists + (m_elements_exists - 1)
    BY <1>3 DEF IInv, Ids
  <2> QED
    BY <2>1, <1>1 DEF back
<1>6. id - front.request_id \in 0 .. m_elements_exists - 1
  BY <1>1, <1>4, <1>5 DEF Known
<1>7. m_contexts[Cell(id - front.request_id)].request_id = registered - m_elements_exists + (id - front.request_id)
  BY <1>6 DEF IInv, Ids
<1>8. registered - m_elements_exists + (id - front.request_id) = id
  BY <1>1, <1>4
<1> QED
  BY <1>1, <1>4, <1>6, <1>7, <1>8 DEF get_real_index

\* A step that leaves the ring's shape and its ids alone, and puts write groups
\* only in a cell that is in use, keeps the invariant.
LEMMA GroupsStep ==
  ASSUME IInv,
         NEW k \in 0 .. m_elements_exists - 1,
         NEW ctx \in Contexts,
         ctx.request_id = m_contexts[At(m_first_element_index, k)].request_id,
         m_contexts' = [m_contexts EXCEPT ![At(m_first_element_index, k)] = ctx],
         UNCHANGED <<m_first_element_index, m_elements_exists, m_request_id_counter, registered>>
  PROVE  IInv'
<1> DEFINE f == m_first_element_index
           e == m_elements_exists
           c == At(f, k)
<1>1. /\ f \in Cells /\ e \in 0 .. MaxReq /\ k \in 0 .. MaxReq - 1 /\ k \in 0 .. MaxReq
      /\ MaxReq \in Nat \ {0} /\ m_contexts \in [Cells -> Contexts]
  BY CoordinatorAssumption DEF IInv, Shape
<1>2. c \in Cells
  BY <1>1, AtInRing
<1>3. m_contexts' \in [Cells -> Contexts] /\ m_contexts'[c] = ctx
      /\ \A i \in Cells \ {c} : m_contexts'[i] = m_contexts[i]
  BY <1>1, <1>2
<1>4. \A d : Cell(d)' = At(f, d) /\ Cell(d) = At(f, d)
  BY DEF Cell, At
<1>5. Shape'
  BY <1>3 DEF IInv, Shape
<1>6. Ids'
  <2>1. ASSUME NEW d \in 0 .. e - 1
        PROVE  m_contexts'[At(f, d)].request_id = m_contexts[At(f, d)].request_id
    <3>1. d \in 0 .. MaxReq
      BY <1>1
    <3>2. At(f, d) \in Cells
      BY <1>1, <3>1, AtInRing
    <3> QED
      BY <1>3, <3>2
  <2> QED
    BY <2>1, <1>4 DEF IInv, Ids
<1>7. FreeCellsEmpty'
  <2> SUFFICES ASSUME NEW d \in e .. MaxReq - 1
               PROVE  m_contexts'[At(f, d)].m_write_groups = <<>>
    BY <1>4 DEF FreeCellsEmpty
  <2>1. d \in 0 .. MaxReq - 1 /\ d \in 0 .. MaxReq /\ d # k
    BY <1>1
  <2>2. At(f, d) \in Cells \ {c}
    BY <1>1, <2>1, AtInRing, AtInjective
  <2>3. m_contexts[At(f, d)].m_write_groups = <<>>
    BY <1>4 DEF IInv, FreeCellsEmpty
  <2> QED
    BY <1>3, <2>2, <2>3
<1> QED
  BY <1>5, <1>6, <1>7 DEF IInv

\* append_response puts the part in the cell of its request.
LEMMA RespondStep ==
  ASSUME IInv, NEW part \in PartSet, RespondPart(part)
  PROVE  IInv'
<1>1. PICK final \in BOOLEAN, close \in BOOLEAN : append_response(part.req % IdModulus, final, close, part)
  BY DEF RespondPart
<1> DEFINE id == part.req % IdModulus
           k == id - front.request_id
           old == m_contexts[Cell(k)]
           ctx == [old EXCEPT !.final = final, !.close = close,
                              !.m_write_groups = enqueue_group(old.m_write_groups, part)]
<1>2. id \in Nat
  <2>1. part.req \in Nat
    BY PipelineAssumption DEF PartSet, Requests
  <2> QED
    BY <2>1, CoordinatorAssumption
<1>3. k \in 0 .. m_elements_exists - 1
  BY <1>1, <1>2, KnownRange DEF append_response, CanAppend
<1>4. Cell(k) = At(m_first_element_index, k)
  BY CellIsAt
<1>5. old \in Contexts
  <2>1. m_first_element_index \in Cells /\ k \in 0 .. MaxReq /\ m_contexts \in [Cells -> Contexts]
    BY <1>3, CoordinatorAssumption DEF IInv, Shape
  <2> QED
    BY <2>1, <1>4, AtInRing
<1>6. ctx \in Contexts /\ ctx.request_id = old.request_id
  <2>1. enqueue_group(old.m_write_groups, part) \in Groups
    BY <1>5, EnqueueType DEF Contexts
  <2> QED
    BY Zenon, <1>5, <2>1 DEF Contexts
<1>7. m_contexts' = [m_contexts EXCEPT ![At(m_first_element_index, k)] = ctx]
  BY Zenon, <1>1, <1>4 DEF append_response, get_real_index
<1>8. UNCHANGED <<m_first_element_index, m_elements_exists, m_request_id_counter, registered>>
  BY <1>1 DEF append_response, RespondPart
<1> HIDE DEF ctx
<1> QED
  BY Zenon, <1>3, <1>4, <1>6, <1>7, <1>8, GroupsStep

\* pop_ready_buffers takes a group from the first cell, and frees the cell only
\* when that was the last group of a complete response.
LEMMA WriteStep ==
  ASSUME IInv, Write
  PROVE  IInv'
<1> DEFINE f == m_first_element_index
           e == m_elements_exists
           ctx == [front EXCEPT !.m_write_groups = Tail(front.m_write_groups)]
<1>1. /\ f \in Cells /\ e \in 1 .. MaxReq /\ e \in 0 .. MaxReq /\ registered \in 0 .. MaxRequests
      /\ e <= registered /\ MaxReq \in Nat \ {0} /\ MaxRequests \in Nat /\ m_contexts \in [Cells -> Contexts]
  BY CoordinatorAssumption, PipelineAssumption DEF IInv, Shape, Write, pop_ready_buffers, HasReadyBuffers, empty
<1>2. At(f, 0) = f
  <2>1. f \in 0 .. MaxReq - 1
    BY DEF IInv, Shape, Cells
  <2> QED
    BY <1>1, <2>1 DEF At
<1>3. /\ front \in Contexts /\ front.m_write_groups \in Groups /\ front.m_write_groups # <<>>
  <2>1. front \in Contexts
    BY <1>1 DEF front
  <2>2. front.m_write_groups # <<>>
    BY DEF Write, pop_ready_buffers, HasReadyBuffers
  <2> QED
    BY <2>1, <2>2 DEF Contexts
<1>4. ctx \in Contexts /\ ctx.request_id = front.request_id
      /\ ctx.m_write_groups = Tail(front.m_write_groups)
  <2>1. Tail(front.m_write_groups) \in Groups
    BY <1>3 DEF Groups
  <2> QED
    BY Zenon, <1>3, <2>1 DEF Contexts
<1>5. m_contexts' = [m_contexts EXCEPT ![f] = ctx] /\ UNCHANGED <<m_request_id_counter, registered>>
  BY DEF Write, pop_ready_buffers, front
<1>6. 0 \in 0 .. e - 1
  BY <1>1
<1> HIDE DEF ctx
<1>7. CASE ~CompletesFront
  <2>1. UNCHANGED <<m_first_element_index, m_elements_exists>>
    BY <1>7 DEF Write, pop_ready_buffers
  <2>2. ctx.request_id = m_contexts[At(f, 0)].request_id /\ m_contexts' = [m_contexts EXCEPT ![At(f, 0)] = ctx]
    BY Zenon, <1>2, <1>4, <1>5 DEF front
  <2> QED
    BY Zenon, <1>4, <1>5, <1>6, <2>1, <2>2, GroupsStep
<1>8. CASE CompletesFront
  <2>1. f' = At(f, 1) /\ e' = e - 1
    BY <1>8, CellIsAt DEF Write, pop_ready_buffers
  <2>2. ctx.m_write_groups = <<>>
    <3>1. Len(front.m_write_groups) = 1
      BY <1>8 DEF CompletesFront
    <3>2. Tail(front.m_write_groups) \in Groups /\ Len(Tail(front.m_write_groups)) = 0
      BY <1>3, <3>1 DEF Groups
    <3>3. \A s \in Groups : Len(s) = 0 => s = <<>>
      BY DEF Groups
    <3> QED
      BY Zenon, <1>4, <3>2, <3>3
  <2>3. /\ m_contexts' \in [Cells -> Contexts] /\ m_contexts'[f] = ctx
        /\ \A i \in Cells \ {f} : m_contexts'[i] = m_contexts[i]
    BY <1>1, <1>4, <1>5
  <2>4. At(f, 1) \in Cells
    <3>1. 1 \in 0 .. MaxReq
      BY <1>1
    <3> QED
      BY <1>1, <3>1, AtInRing
  <2>5. Shape'
    BY <1>1, <1>5, <2>1, <2>3, <2>4 DEF Shape, Cells
  <2>6. \A d \in 0 .. MaxReq - 1 : Cell(d)' = At(f, d + 1)
    <3> SUFFICES ASSUME NEW d \in 0 .. MaxReq - 1
                 PROVE  Cell(d)' = At(f, d + 1)
      OBVIOUS
    <3>1. At(At(f, 1), d) = At(f, d + 1)
      BY <1>1, AtNext
    <3>2. Cell(d)' = (f' + d) % MaxReq
      BY DEF Cell
    <3> QED
      BY <2>1, <3>1, <3>2 DEF At
  <2>7. \A d \in 1 .. MaxReq - 1 : At(f, d) \in Cells \ {f}
    <3> SUFFICES ASSUME NEW d \in 1 .. MaxReq - 1
                 PROVE  At(f, d) \in Cells \ {f}
      OBVIOUS
    <3>1. d \in 0 .. MaxReq /\ d \in 0 .. MaxReq - 1 /\ 0 \in 0 .. MaxReq - 1 /\ d # 0
      BY <1>1
    <3>2. At(f, d) \in Cells
      BY <1>1, <3>1, AtInRing
    <3>3. At(f, d) # At(f, 0)
      BY <1>1, <3>1, AtInjective
    <3> QED
      BY <1>2, <3>2, <3>3
  <2>8. Ids'
    <3>1. ASSUME NEW d \in 0 .. e' - 1
          PROVE  m_contexts'[Cell(d)'].request_id = registered' - e' + d
      <4>1. d \in 0 .. MaxReq - 1 /\ d + 1 \in 0 .. e - 1 /\ d + 1 \in 1 .. MaxReq - 1
        BY <1>1, <2>1
      <4>2. m_contexts[At(f, d + 1)].request_id = registered - e + (d + 1)
        BY <4>1, CellIsAt DEF IInv, Ids
      <4>3. m_contexts'[At(f, d + 1)] = m_contexts[At(f, d + 1)]
        BY <2>3, <2>7, <4>1
      <4>4. registered' - e' + d = registered - e + (d + 1)
        BY <1>1, <1>5, <2>1, <4>1
      <4>5. Cell(d)' = At(f, d + 1)
        BY <2>6, <4>1
      <4> QED
        BY <4>2, <4>3, <4>4, <4>5
    <3>2. m_request_id_counter' = registered' % IdModulus
      BY <1>5 DEF IInv, Ids
    <3> QED
      BY <3>1, <3>2 DEF Ids
  <2>9. FreeCellsEmpty'
    <3> SUFFICES ASSUME NEW d \in e' .. MaxReq - 1
                 PROVE  m_contexts'[Cell(d)'].m_write_groups = <<>>
      BY DEF FreeCellsEmpty
    <3>1. d \in 0 .. MaxReq - 1 /\ d + 1 \in e .. MaxReq
      BY <1>1, <2>1
    <3>2. Cell(d)' = At(f, d + 1)
      BY <2>6, <3>1
    <3>3. CASE d + 1 = MaxReq
      <4>1. At(f, d + 1) = f
        <5>1. f \in 0 .. MaxReq - 1 /\ d + 1 \in 0 .. MaxReq
          BY <1>1, <3>3 DEF Cells
        <5>2. At(f, d + 1) = IF f + (d + 1) < MaxReq THEN f + (d + 1) ELSE f + (d + 1) - MaxReq
          BY <1>1, <5>1, AtValue
        <5> QED
          BY <1>1, <3>3, <5>1, <5>2
      <4> QED
        BY <2>2, <2>3, <3>2, <4>1
    <3>4. CASE d + 1 # MaxReq
      <4>1. d + 1 \in e .. MaxReq - 1 /\ d + 1 \in 1 .. MaxReq - 1
        BY <1>1, <3>1, <3>4
      <4>2. m_contexts[At(f, d + 1)].m_write_groups = <<>>
        BY <4>1, CellIsAt DEF IInv, FreeCellsEmpty
      <4> QED
        BY <2>3, <2>7, <3>2, <4>1, <4>2
    <3> QED
      BY <3>3, <3>4
  <2> QED
    BY <2>5, <2>8, <2>9 DEF IInv
<1> QED
  BY <1>7, <1>8

\* reset() empties every cell in use; the others are empty already.
LEMMA ResetStep ==
  ASSUME IInv, Reset
  PROVE  IInv'
<1> DEFINE f == m_first_element_index
           e == m_elements_exists
           InUse(i) == \E d \in 0 .. e - 1 : i = Cell(d)
           Emptied(i) == [m_contexts[i] EXCEPT !.m_write_groups = <<>>]
<1>1. /\ f \in Cells /\ e \in 0 .. MaxReq /\ MaxReq \in Nat \ {0} /\ m_contexts \in [Cells -> Contexts]
      /\ registered \in 0 .. MaxRequests /\ MaxRequests \in Nat
  BY CoordinatorAssumption, PipelineAssumption DEF IInv, Shape
<1>2. /\ m_contexts' = [i \in Cells |-> IF InUse(i) THEN Emptied(i) ELSE m_contexts[i]]
      /\ f' = At(f, e) /\ e' = 0 /\ UNCHANGED <<m_request_id_counter, registered>>
  BY CellIsAt DEF Reset, reset
<1>3. \A i \in Cells : Emptied(i) \in Contexts /\ Emptied(i).m_write_groups = <<>>
  <2> SUFFICES ASSUME NEW i \in Cells
               PROVE  Emptied(i) \in Contexts /\ Emptied(i).m_write_groups = <<>>
    OBVIOUS
  <2>1. m_contexts[i] \in Contexts /\ <<>> \in Groups
    BY <1>1 DEF Groups
  <2> QED
    BY <2>1 DEF Contexts
<1>4. \A i \in Cells : ~InUse(i) => m_contexts[i].m_write_groups = <<>>
  <2> SUFFICES ASSUME NEW i \in Cells, ~InUse(i)
               PROVE  m_contexts[i].m_write_groups = <<>>
    OBVIOUS
  <2>1. PICK d \in 0 .. MaxReq - 1 : At(f, d) = i
    BY <1>1, AtSurjective
  <2>2. d \in e .. MaxReq - 1
    BY <1>1, <2>1, CellIsAt
  <2> QED
    BY <2>1, <2>2, CellIsAt DEF IInv, FreeCellsEmpty
<1> HIDE DEF InUse, Emptied
<1>5. /\ m_contexts' \in [Cells -> Contexts]
      /\ \A i \in Cells : m_contexts'[i].m_write_groups = <<>>
  BY <1>1, <1>2, <1>3, <1>4
<1>6. At(f, e) \in Cells
  BY <1>1, AtInRing
<1>7. Shape'
  BY <1>1, <1>2, <1>5, <1>6 DEF Shape
<1>8. Ids'
  BY <1>2 DEF IInv, Ids
<1>9. FreeCellsEmpty'
  <2> SUFFICES ASSUME NEW d \in e' .. MaxReq - 1
               PROVE  m_contexts'[Cell(d)'].m_write_groups = <<>>
    BY DEF FreeCellsEmpty
  <2>1. d \in 0 .. MaxReq
    BY <1>1, <1>2
  <2>2. At(At(f, e), d) \in Cells
    BY <1>6, <2>1, AtInRing
  <2>3. Cell(d)' = At(At(f, e), d)
    BY <1>2 DEF Cell, At
  <2> QED
    BY <1>5, <2>2, <2>3
<1> QED
  BY <1>7, <1>8, <1>9 DEF IInv

\* The invariant does not mention the history variables.
LEMMA QuietStep ==
  ASSUME IInv, UNCHANGED <<coordinatorVars, registered>>
  PROVE  IInv'
BY DEF IInv, Shape, Ids, FreeCellsEmpty, Cell, coordinatorVars

LEMMA NextIInv ==
  ASSUME MaxRequests <= IdModulus, IInv, [Next]_vars
  PROVE  IInv'
<1>1. CASE Register
  BY <1>1, RegisterStep
<1>2. ASSUME NEW part \in PartSet, RespondPart(part)
      PROVE  IInv'
  BY <1>2, RespondStep
<1>3. ASSUME NEW part \in PartSet, RespondRefused(part)
      PROVE  IInv'
  BY <1>3, QuietStep DEF RespondRefused
<1>4. CASE Write
  BY <1>4, WriteStep
<1>5. CASE Reset
  BY <1>5, ResetStep
<1>6. CASE UNCHANGED vars
  BY <1>6, QuietStep DEF vars
<1> QED
  BY <1>1, <1>2, <1>3, <1>4, <1>5, <1>6 DEF Next

LEMMA SpecIInv ==
  ASSUME MaxRequests <= IdModulus
  PROVE  Spec => []IInv
<1>1. IInv /\ [Next]_vars => IInv'
  BY NextIInv
<1> QED
  BY <1>1, InitIInv, PTL DEF Spec

\* get_by_req_id finds each request under way in its own cell of the ring and
\* no other, for a ring of any size, as long as request_id_t does not wrap.
THEOREM LookupIsExact ==
  ASSUME MaxRequests <= IdModulus
  PROVE  Spec => []LookupExact
<1>1. IInv => LookupExact
  <2> SUFFICES ASSUME IInv PROVE LookupExact
    OBVIOUS
  <2>1. ASSUME NEW id \in 0 .. IdModulus - 1, Known(id)
        PROVE  m_contexts[get_real_index(id)].request_id = id
    <3>1. id \in Nat
      BY CoordinatorAssumption
    <3> QED
      BY <2>1, <3>1, KnownRange
  <2>2. ASSUME NEW d \in 0 .. m_elements_exists - 1
        PROVE  LET id == m_contexts[Cell(d)].request_id
               IN  Known(id) /\ get_real_index(id) = Cell(d)
    <3> DEFINE e == m_elements_exists
               id == m_contexts[Cell(d)].request_id
    <3>1. /\ e \in 1 .. MaxReq /\ registered \in Nat /\ e <= registered /\ MaxReq \in Nat \ {0}
          /\ m_first_element_index \in 0 .. MaxReq - 1
      BY CoordinatorAssumption, PipelineAssumption DEF IInv, Shape, Cells
    <3>2. Cell(0) = m_first_element_index
      BY <3>1 DEF Cell
    <3>3. 0 \in 0 .. e - 1 /\ e - 1 \in 0 .. e - 1
      BY <3>1
    <3>4. \A n \in 0 .. e - 1 : m_contexts[Cell(n)].request_id = registered - e + n
      BY DEF IInv, Ids
    <3>5. m_contexts[m_first_element_index].request_id = registered - e + 0
      BY <3>2, <3>3, <3>4
    <3>6. front.request_id = registered - e
      BY <3>1, <3>5 DEF front
    <3>7. back.request_id = registered - e + (e - 1)
      BY <3>3, <3>4 DEF back
    <3>8. id = registered - e + d
      BY <3>4
    <3>9. Known(id)
      BY <3>1, <3>6, <3>7, <3>8 DEF Known, empty
    <3>10. id - front.request_id = d
      BY <3>1, <3>6, <3>8
    <3> HIDE DEF id
    <3>11. get_real_index(id) = Cell(d)
      BY <3>10 DEF get_real_index
    <3> QED
      BY <3>9, <3>11 DEF id
  <2> QED
    BY <2>1, <2>2 DEF LookupExact
<1> QED
  BY <1>1, SpecIInv, PTL

\* A cell that is not in use holds no write groups, so that reinit(), which
\* does not clear them, never hands parts of one response to another.
THEOREM FreeCellsAreEmpty ==
  ASSUME MaxRequests <= IdModulus
  PROVE  Spec => []FreeCellsEmpty
<1>1. IInv => FreeCellsEmpty
  BY DEF IInv
<1> QED
  BY <1>1, SpecIInv, PTL
-----------------------------------------------------------------------------
(* What each operation does to the cells in use, by their distance from    *)
(* the first one.                                                          *)

Responses == [id : 0 .. IdModulus - 1, parts : Seq(PartSet), final : BOOLEAN, close : BOOLEAN]

\* A context, and what the operations make of one, field by field.
LEMMA ContextFields ==
  ASSUME NEW ctx \in Contexts
  PROVE  ctx = [request_id |-> ctx.request_id, m_write_groups |-> ctx.m_write_groups,
                final |-> ctx.final, close |-> ctx.close]
BY Zenon DEF Contexts

LEMMA ContextReinit ==
  ASSUME NEW ctx \in Contexts, NEW id \in 0 .. IdModulus - 1
  PROVE  [ctx EXCEPT !.request_id = id, !.final = FALSE, !.close = FALSE] =
           [request_id |-> id, m_write_groups |-> ctx.m_write_groups, final |-> FALSE, close |-> FALSE]
<1> DEFINE r == [ctx EXCEPT !.request_id = id, !.final = FALSE, !.close = FALSE]
<1>1. r \in Contexts
  BY Zenon DEF Contexts
<1>2. r.request_id = id /\ r.m_write_groups = ctx.m_write_groups /\ r.final = FALSE /\ r.close = FALSE
  BY Zenon DEF Contexts
<1> HIDE DEF r
<1>3. r = [request_id |-> r.request_id, m_write_groups |-> r.m_write_groups, final |-> r.final, close |-> r.close]
  BY Zenon, <1>1, ContextFields
<1> QED
  BY Zenon, <1>2, <1>3 DEF r

LEMMA ContextExtend ==
  ASSUME NEW ctx \in Contexts, NEW groups \in Groups, NEW final \in BOOLEAN, NEW close \in BOOLEAN
  PROVE  [ctx EXCEPT !.final = final, !.close = close, !.m_write_groups = groups] =
           [request_id |-> ctx.request_id, m_write_groups |-> groups, final |-> final, close |-> close]
<1> DEFINE r == [ctx EXCEPT !.final = final, !.close = close, !.m_write_groups = groups]
<1>1. r \in Contexts
  BY Zenon DEF Contexts
<1>2. r.request_id = ctx.request_id /\ r.m_write_groups = groups /\ r.final = final /\ r.close = close
  BY Zenon DEF Contexts
<1> HIDE DEF r
<1>3. r = [request_id |-> r.request_id, m_write_groups |-> r.m_write_groups, final |-> r.final, close |-> r.close]
  BY Zenon, <1>1, ContextFields
<1> QED
  BY Zenon, <1>2, <1>3 DEF r

LEMMA ContextTake ==
  ASSUME NEW ctx \in Contexts, NEW groups \in Groups
  PROVE  [ctx EXCEPT !.m_write_groups = groups] =
           [request_id |-> ctx.request_id, m_write_groups |-> groups, final |-> ctx.final, close |-> ctx.close]
<1> DEFINE r == [ctx EXCEPT !.m_write_groups = groups]
<1>1. r \in Contexts
  BY Zenon DEF Contexts
<1>2. r.request_id = ctx.request_id /\ r.m_write_groups = groups /\ r.final = ctx.final /\ r.close = ctx.close
  BY Zenon DEF Contexts
<1> HIDE DEF r
<1>3. r = [request_id |-> r.request_id, m_write_groups |-> r.m_write_groups, final |-> r.final, close |-> r.close]
  BY Zenon, <1>1, ContextFields
<1> QED
  BY Zenon, <1>2, <1>3 DEF r

\* A write group is a sequence of parts.
LEMMA GroupsAreSequences ==
  ASSUME NEW groups \in Groups
  PROVE  /\ groups \in Seq(Seq(PartSet))
         /\ Joined(groups) \in Seq(PartSet)
         /\ \A g \in 1 .. Len(groups) : groups[g] \in Seq(PartSet) /\ groups[g] # <<>>
<1>1. GroupSet \subseteq Seq(PartSet)
  BY DEF GroupSet
<1>2. groups \in Seq(Seq(PartSet))
  BY Zenon, <1>1, SeqMonotonic DEF Groups
<1>3. \A g \in 1 .. Len(groups) : groups[g] \in GroupSet
  BY Zenon, ElementOfSeq DEF Groups
<1> QED
  BY Zenon, <1>1, <1>2, <1>3, JoinedType DEF GroupSet

\* The parts of a context are the concatenation of its groups.
LEMMA PartsAreJoined == \A ctx : PartsOf(ctx) = Joined(ctx.m_write_groups)
BY Zenon DEF PartsOf, Joined

LEMMA ResponseFields ==
  ASSUME NEW ctx
  PROVE  /\ ResponseOf(ctx).id = ctx.request_id /\ ResponseOf(ctx).parts = Joined(ctx.m_write_groups)
         /\ ResponseOf(ctx).final = ctx.final /\ ResponseOf(ctx).close = ctx.close
BY Zenon, PartsAreJoined DEF ResponseOf

LEMMA ResponseType ==
  ASSUME NEW ctx \in Contexts
  PROVE  ResponseOf(ctx) \in Responses
<1>1. /\ ctx.m_write_groups \in Groups /\ ctx.request_id \in 0 .. IdModulus - 1
      /\ ctx.final \in BOOLEAN /\ ctx.close \in BOOLEAN
  BY DEF Contexts
<1>2. PartsOf(ctx) \in Seq(PartSet)
  BY Zenon, <1>1, GroupsAreSequences, PartsAreJoined
<1> QED
  BY Zenon, <1>1, <1>2 DEF ResponseOf, Responses

\* The queue of responses is that of the cells in use.
QueueOf(contexts, f, e) == [i \in 1 .. e |-> ResponseOf(contexts[At(f, i - 1)])]

LEMMA QueueIs == ResponseQueue = QueueOf(m_contexts, m_first_element_index, m_elements_exists)
<1>1. \A i \in 1 .. m_elements_exists : Live[i] = m_contexts[At(m_first_element_index, i - 1)]
  BY Zenon, CellIsAt DEF Live
<1> QED
  BY Zenon, <1>1 DEF ResponseQueue, QueueOf

LEMMA QueueNextIs == ResponseQueue' = QueueOf(m_contexts', m_first_element_index', m_elements_exists')
<1>1. \A d : Cell(d)' = At(m_first_element_index', d)
  BY DEF Cell, At
<1>2. \A i \in 1 .. m_elements_exists' : Live'[i] = m_contexts'[At(m_first_element_index', i - 1)]
  BY Zenon, <1>1 DEF Live
<1> QED
  BY Zenon, <1>2 DEF ResponseQueue, QueueOf, ResponseOf

LEMMA QueueShape ==
  ASSUME NEW contexts \in [Cells -> Contexts], NEW f \in Cells, NEW e \in 0 .. MaxReq
  PROVE  /\ QueueOf(contexts, f, e) \in Seq(Responses)
         /\ Len(QueueOf(contexts, f, e)) = e
         /\ \A i \in 1 .. e : /\ QueueOf(contexts, f, e)[i] = ResponseOf(contexts[At(f, i - 1)])
                              /\ contexts[At(f, i - 1)] \in Contexts
<1> DEFINE q == QueueOf(contexts, f, e)
<1>1. e \in Nat /\ MaxReq \in Nat
  BY CoordinatorAssumption
<1>2. ASSUME NEW i \in 1 .. e
      PROVE  q[i] = ResponseOf(contexts[At(f, i - 1)]) /\ contexts[At(f, i - 1)] \in Contexts
  <2>1. i - 1 \in 0 .. MaxReq
    BY <1>1
  <2>2. At(f, i - 1) \in Cells
    BY <1>1, <2>1, AtInRing
  <2> QED
    BY Zenon, <2>2 DEF QueueOf
<1>3. \A i \in 1 .. e : q[i] \in Responses
  BY Zenon, <1>2, ResponseType
<1>4. q \in [1 .. e -> Responses]
  BY Zenon, <1>3 DEF QueueOf
<1> HIDE DEF q
<1>5. q \in Seq(Responses) /\ Len(q) = e
  BY <1>1, <1>4
<1> QED
  BY Zenon, <1>2, <1>5 DEF q

LEMMA RegisterCells ==
  ASSUME MaxRequests <= IdModulus, IInv, Register
  PROVE  /\ m_elements_exists < MaxReq
         /\ m_first_element_index' = m_first_element_index
         /\ m_elements_exists' = m_elements_exists + 1
         /\ m_contexts'[At(m_first_element_index, m_elements_exists)] = FreshContext(registered)
         /\ \A d \in 0 .. m_elements_exists - 1 :
              m_contexts'[At(m_first_element_index, d)] = m_contexts[At(m_first_element_index, d)]
<1> DEFINE f == m_first_element_index
           e == m_elements_exists
           c == At(f, e)
<1>1. /\ f \in Cells /\ e \in 0 .. MaxReq - 1 /\ e \in 0 .. MaxReq /\ registered \in 0 .. MaxRequests - 1
      /\ MaxReq \in Nat \ {0} /\ MaxRequests \in Nat /\ IdModulus \in Nat \ {0}
      /\ m_contexts \in [Cells -> Contexts]
  BY CoordinatorAssumption, PipelineAssumption DEF IInv, Shape, Register, register_new_request, is_full
<1>2. /\ f' = f /\ e' = e + 1
      /\ m_contexts' = [m_contexts EXCEPT ![c] = [m_contexts[c] EXCEPT !.request_id = m_request_id_counter,
                                                     !.final = FALSE, !.close = FALSE]]
  BY Zenon, CellIsAt DEF Register, register_new_request
<1>3. m_request_id_counter = registered
  <2>1. registered % IdModulus = registered
    BY <1>1
  <2> QED
    BY <2>1 DEF IInv, Ids
<1>4. c \in Cells
  BY <1>1, AtInRing
<1>5. m_contexts[c].m_write_groups = <<>>
  <2>1. e \in e .. MaxReq - 1
    BY <1>1
  <2> QED
    BY Zenon, <2>1, CellIsAt DEF IInv, FreeCellsEmpty
<1>6. [m_contexts[c] EXCEPT !.request_id = m_request_id_counter, !.final = FALSE, !.close = FALSE]
        = FreshContext(registered)
  <2>1. m_contexts[c] \in Contexts /\ registered \in 0 .. IdModulus - 1
    BY <1>1, <1>4
  <2> QED
    BY Zenon, <1>1, <1>3, <1>5, <2>1, ContextReinit DEF FreshContext
<1>7. m_contexts'[c] = FreshContext(registered) /\ \A i \in Cells \ {c} : m_contexts'[i] = m_contexts[i]
  BY Zenon, <1>1, <1>2, <1>4, <1>6
<1>8. ASSUME NEW d \in 0 .. e - 1
      PROVE  m_contexts'[At(f, d)] = m_contexts[At(f, d)]
  <2>1. d \in 0 .. MaxReq - 1 /\ d \in 0 .. MaxReq /\ d # e
    BY <1>1
  <2>2. At(f, d) \in Cells \ {c}
    BY <1>1, <2>1, AtInRing, AtInjective
  <2> QED
    BY Zenon, <1>7, <2>2
<1>9. e < MaxReq
  BY <1>1
<1> QED
  BY Zenon, <1>2, <1>7, <1>8, <1>9
LEMMA RespondCells ==
  ASSUME MaxRequests <= IdModulus, IInv, NEW part \in PartSet, RespondPart(part)
  PROVE  \E k \in 0 .. m_elements_exists - 1, final \in BOOLEAN, close \in BOOLEAN :
           LET old == m_contexts[At(m_first_element_index, k)]
           IN  /\ ~closed /\ ~old.final /\ old.request_id = part.req
               /\ m_contexts'[At(m_first_element_index, k)] =
                    [request_id |-> old.request_id, m_write_groups |-> enqueue_group(old.m_write_groups, part),
                     final |-> final, close |-> close]
               /\ \A d \in 0 .. m_elements_exists - 1 : d # k =>
                    m_contexts'[At(m_first_element_index, d)] = m_contexts[At(m_first_element_index, d)]
<1>1. PICK final \in BOOLEAN, close \in BOOLEAN : append_response(part.req % IdModulus, final, close, part)
  BY DEF RespondPart
<1> DEFINE f == m_first_element_index
           id == part.req % IdModulus
           k == id - front.request_id
           c == At(f, k)
           groups == enqueue_group(m_contexts[c].m_write_groups, part)
<1>2. id = part.req /\ id \in Nat
  <2>1. part.req \in 0 .. MaxRequests - 1
    BY DEF PartSet, Requests
  <2> QED
    BY <2>1, CoordinatorAssumption, PipelineAssumption
<1>3. k \in 0 .. m_elements_exists - 1 /\ m_contexts[get_real_index(id)].request_id = id
  BY <1>1, <1>2, KnownRange DEF append_response, CanAppend
<1>4. get_real_index(id) = c
  BY Zenon, CellIsAt DEF get_real_index
<1>5. ~closed /\ ~m_contexts[c].final /\ m_contexts[c].request_id = part.req
  BY Zenon, <1>1, <1>2, <1>3, <1>4 DEF append_response, CanAppend
<1>6. /\ f \in Cells /\ k \in 0 .. MaxReq /\ k \in 0 .. MaxReq - 1 /\ m_contexts \in [Cells -> Contexts]
      /\ m_elements_exists \in 0 .. MaxReq /\ MaxReq \in Nat
  BY <1>3, CoordinatorAssumption DEF IInv, Shape
<1>7. c \in Cells
  BY <1>6, AtInRing
<1> HIDE DEF id, k, c
<1>8. m_contexts' = [m_contexts EXCEPT ![c] = [m_contexts[c] EXCEPT !.final = final, !.close = close,
                                                                    !.m_write_groups = groups]]
  <2> USE DEF id
  <2> QED
    BY Zenon, <1>1, <1>4 DEF append_response
<1>9. m_contexts[c] \in Contexts /\ groups \in Groups
  <2>1. m_contexts[c] \in Contexts
    BY Zenon, <1>6, <1>7
  <2>2. m_contexts[c].m_write_groups \in Groups
    BY <2>1 DEF Contexts
  <2> QED
    BY Zenon, <2>1, <2>2, EnqueueType
<1> HIDE DEF groups
<1>10. m_contexts'[c] = [request_id |-> m_contexts[c].request_id, m_write_groups |-> groups,
                         final |-> final, close |-> close]
  BY ZenonT(60), <1>6, <1>7, <1>8, <1>9, ContextExtend
<1>11. \A i \in Cells \ {c} : m_contexts'[i] = m_contexts[i]
  BY Zenon, <1>6, <1>8
<1>12. ASSUME NEW d \in 0 .. m_elements_exists - 1, d # k
       PROVE  m_contexts'[At(f, d)] = m_contexts[At(f, d)]
  <2>1. d \in 0 .. MaxReq - 1 /\ d \in 0 .. MaxReq
    BY <1>6
  <2>2. At(f, d) \in Cells \ {c}
    BY <1>6, <1>12, <2>1, AtInRing, AtInjective DEF c
  <2> QED
    BY Zenon, <1>11, <2>2
<1> USE DEF groups, c
<1> QED
  BY Zenon, <1>3, <1>5, <1>10, <1>12

\* The state of the ring after Write, in both cases.
WriteCellsKept ==
  /\ m_first_element_index' = m_first_element_index
  /\ m_elements_exists' = m_elements_exists
  /\ m_connection_closed_response_occured' = m_connection_closed_response_occured
  /\ m_contexts'[At(m_first_element_index, 0)] =
       [request_id |-> front.request_id, m_write_groups |-> Tail(front.m_write_groups),
        final |-> front.final, close |-> front.close]
  /\ \A d \in 1 .. m_elements_exists - 1 :
       m_contexts'[At(m_first_element_index, d)] = m_contexts[At(m_first_element_index, d)]

WriteCellsFreed ==
  /\ m_first_element_index' = At(m_first_element_index, 1)
  /\ m_elements_exists' = m_elements_exists - 1
  /\ m_connection_closed_response_occured' = front.close
  /\ \A d \in 0 .. m_elements_exists - 2 :
       m_contexts'[At(m_first_element_index', d)] = m_contexts[At(m_first_element_index, d + 1)]

LEMMA WriteCells ==
  ASSUME IInv, Write, m_connection_closed_response_occured \in BOOLEAN
  PROVE  /\ m_elements_exists \in 1 .. MaxReq /\ ~closed
         /\ front = m_contexts[At(m_first_element_index, 0)] /\ front \in Contexts
         /\ front.m_write_groups \in Groups /\ front.m_write_groups # <<>>
         /\ CompletesFront => WriteCellsFreed
         /\ ~CompletesFront => WriteCellsKept
<1> DEFINE f == m_first_element_index
           e == m_elements_exists
           ctx == [front EXCEPT !.m_write_groups = Tail(front.m_write_groups)]
<1>1. /\ f \in Cells /\ f \in 0 .. MaxReq - 1 /\ e \in 1 .. MaxReq /\ e \in 0 .. MaxReq
      /\ MaxReq \in Nat \ {0} /\ m_contexts \in [Cells -> Contexts]
  BY CoordinatorAssumption, PipelineAssumption
     DEF IInv, Shape, Cells, Write, pop_ready_buffers, HasReadyBuffers, empty
<1>2. At(f, 0) = f
  BY <1>1 DEF At
<1>3. /\ front \in Contexts /\ front.m_write_groups \in Groups /\ front.m_write_groups # <<>>
      /\ Tail(front.m_write_groups) \in Groups
  <2>1. front \in Contexts
    BY <1>1 DEF front
  <2>2. front.m_write_groups # <<>>
    BY DEF Write, pop_ready_buffers, HasReadyBuffers
  <2>3. front.m_write_groups \in Groups
    BY <2>1 DEF Contexts
  <2> QED
    BY <2>1, <2>2, <2>3 DEF Groups
<1>4. m_contexts' = [m_contexts EXCEPT ![f] = ctx] /\ ~closed
  BY DEF Write, pop_ready_buffers, front
<1> HIDE DEF ctx
<1>5. m_contexts'[f] = ctx /\ \A i \in Cells \ {f} : m_contexts'[i] = m_contexts[i]
  BY Zenon, <1>1, <1>4
<1>6. \A d \in 1 .. MaxReq - 1 : m_contexts'[At(f, d)] = m_contexts[At(f, d)]
  <2> SUFFICES ASSUME NEW d \in 1 .. MaxReq - 1
               PROVE  m_contexts'[At(f, d)] = m_contexts[At(f, d)]
    OBVIOUS
  <2>1. d \in 0 .. MaxReq /\ d \in 0 .. MaxReq - 1 /\ 0 \in 0 .. MaxReq - 1 /\ d # 0
    BY <1>1
  <2>2. At(f, d) \in Cells \ {f}
    BY <1>1, <1>2, <2>1, AtInRing, AtInjective
  <2> QED
    BY Zenon, <1>5, <2>2
<1>7. ASSUME ~CompletesFront PROVE WriteCellsKept
  <2>1. /\ f' = f /\ e' = e
        /\ m_connection_closed_response_occured' = m_connection_closed_response_occured
    <3>1. m_connection_closed_response_occured' = (m_connection_closed_response_occured \/ FALSE)
      BY Zenon, <1>7 DEF Write, pop_ready_buffers
    <3> QED
      BY Zenon, <1>7, <3>1 DEF Write, pop_ready_buffers
  <2>2. m_contexts'[At(f, 0)] = [request_id |-> front.request_id, m_write_groups |-> Tail(front.m_write_groups),
                                 final |-> front.final, close |-> front.close]
    BY Zenon, <1>2, <1>3, <1>5, ContextTake DEF ctx
  <2>3. \A d \in 1 .. e - 1 : d \in 1 .. MaxReq - 1
    BY <1>1
  <2> QED
    BY Zenon, <1>6, <2>1, <2>2, <2>3 DEF WriteCellsKept
<1>8. ASSUME CompletesFront PROVE WriteCellsFreed
  <2>1. /\ f' = At(f, 1) /\ e' = e - 1
    BY <1>8, CellIsAt DEF Write, pop_ready_buffers
  <2>2. m_connection_closed_response_occured' = front.close
    <3>1. m_connection_closed_response_occured' = (m_connection_closed_response_occured \/ (CompletesFront /\ front.close))
      BY Zenon DEF Write, pop_ready_buffers
    <3>2. front.close \in BOOLEAN /\ m_connection_closed_response_occured = FALSE
      BY Zenon, <1>3, <1>4 DEF Contexts, closed
    <3> QED
      BY Zenon, <1>8, <3>1, <3>2
  <2>3. ASSUME NEW d \in 0 .. e - 2
        PROVE  m_contexts'[At(f', d)] = m_contexts[At(f, d + 1)]
    <3>1. d \in 0 .. MaxReq - 1 /\ d + 1 \in 1 .. MaxReq - 1
      BY <1>1
    <3>2. At(At(f, 1), d) = At(f, d + 1)
      BY <1>1, <3>1, AtNext
    <3> QED
      BY Zenon, <1>6, <2>1, <3>1, <3>2
  <2> QED
    BY Zenon, <2>1, <2>2, <2>3 DEF WriteCellsFreed
<1>9. front = m_contexts[At(f, 0)]
  BY Zenon, <1>2 DEF front
<1> QED
  BY Zenon, <1>1, <1>3, <1>4, <1>7, <1>8, <1>9
-----------------------------------------------------------------------------
(* What each operation does to the queue of responses. *)

\* The queue before and after a step that keeps the invariant.
LEMMA Queues ==
  ASSUME IInv, IInv'
  PROVE  /\ ResponseQueue \in Seq(Responses) /\ ResponseQueue' \in Seq(Responses)
         /\ Len(ResponseQueue) = m_elements_exists /\ Len(ResponseQueue') = m_elements_exists'
         /\ m_elements_exists \in Nat /\ m_elements_exists' \in Nat
         /\ \A i \in 1 .. m_elements_exists :
              /\ ResponseQueue[i] = ResponseOf(m_contexts[At(m_first_element_index, i - 1)])
              /\ m_contexts[At(m_first_element_index, i - 1)] \in Contexts
         /\ \A i \in 1 .. m_elements_exists' :
              ResponseQueue'[i] = ResponseOf(m_contexts'[At(m_first_element_index', i - 1)])
<1>1. /\ m_contexts \in [Cells -> Contexts] /\ m_first_element_index \in Cells /\ m_elements_exists \in 0 .. MaxReq
      /\ m_contexts' \in [Cells -> Contexts] /\ m_first_element_index' \in Cells /\ m_elements_exists' \in 0 .. MaxReq
  BY DEF IInv, Shape, Cells
<1>2. m_elements_exists \in Nat /\ m_elements_exists' \in Nat
  BY <1>1, CoordinatorAssumption
<1>3. /\ ResponseQueue \in Seq(Responses) /\ Len(ResponseQueue) = m_elements_exists
      /\ \A i \in 1 .. m_elements_exists :
           /\ ResponseQueue[i] = ResponseOf(m_contexts[At(m_first_element_index, i - 1)])
           /\ m_contexts[At(m_first_element_index, i - 1)] \in Contexts
  <2>1. /\ QueueOf(m_contexts, m_first_element_index, m_elements_exists) \in Seq(Responses)
        /\ Len(QueueOf(m_contexts, m_first_element_index, m_elements_exists)) = m_elements_exists
        /\ \A i \in 1 .. m_elements_exists :
             /\ QueueOf(m_contexts, m_first_element_index, m_elements_exists)[i] =
                  ResponseOf(m_contexts[At(m_first_element_index, i - 1)])
             /\ m_contexts[At(m_first_element_index, i - 1)] \in Contexts
    BY Zenon, <1>1, QueueShape
  <2> QED
    BY Zenon, <2>1, QueueIs
<1>4. /\ ResponseQueue' \in Seq(Responses) /\ Len(ResponseQueue') = m_elements_exists'
      /\ \A i \in 1 .. m_elements_exists' :
           ResponseQueue'[i] = ResponseOf(m_contexts'[At(m_first_element_index', i - 1)])
  <2>1. /\ QueueOf(m_contexts', m_first_element_index', m_elements_exists') \in Seq(Responses)
        /\ Len(QueueOf(m_contexts', m_first_element_index', m_elements_exists')) = m_elements_exists'
        /\ \A i \in 1 .. m_elements_exists' :
             /\ QueueOf(m_contexts', m_first_element_index', m_elements_exists')[i] =
                  ResponseOf(m_contexts'[At(m_first_element_index', i - 1)])
             /\ m_contexts'[At(m_first_element_index', i - 1)] \in Contexts
    BY Zenon, <1>1, QueueShape
  <2> QED
    BY Zenon, <2>1, QueueNextIs
<1> QED
  BY Zenon, <1>2, <1>3, <1>4

LEMMA RegisterQueue ==
  ASSUME MaxRequests <= IdModulus, IInv, Register
  PROVE  ResponseQueue' = Append(ResponseQueue, [id |-> registered, parts |-> <<>>, final |-> FALSE, close |-> FALSE])
<1> DEFINE e == m_elements_exists
           f == m_first_element_index
           new == [id |-> registered, parts |-> <<>>, final |-> FALSE, close |-> FALSE]
           r == Append(ResponseQueue, new)
<1>1. IInv'
  BY RegisterStep
<1>2. ResponseOf(FreshContext(registered)) = new
  BY Zenon, JoinedEmpty, PartsAreJoined DEF ResponseOf, FreshContext
<1>3. /\ m_first_element_index' = f /\ e' = e + 1
      /\ m_contexts'[At(f, e)] = FreshContext(registered)
      /\ \A d \in 0 .. e - 1 : m_contexts'[At(f, d)] = m_contexts[At(f, d)]
  BY Zenon, RegisterCells
<1>4. /\ ResponseQueue \in Seq(Responses) /\ ResponseQueue' \in Seq(Responses)
      /\ Len(ResponseQueue) = e /\ Len(ResponseQueue') = e + 1 /\ e \in Nat
      /\ \A i \in 1 .. e : ResponseQueue[i] = ResponseOf(m_contexts[At(f, i - 1)])
      /\ \A i \in 1 .. e + 1 : ResponseQueue'[i] = ResponseOf(m_contexts'[At(f, i - 1)])
  BY Zenon, <1>1, <1>3, Queues
<1>5. ResponseQueue'[e + 1] = new
  <2>1. PICK m \in 1 .. e + 1 : m = e + 1
    BY <1>4
  <2>2. m - 1 = e
    BY <1>4, <2>1
  <2> QED
    BY Zenon, <1>2, <1>3, <1>4, <2>1, <2>2
<1>6. ASSUME NEW i \in 1 .. e
      PROVE  ResponseQueue'[i] = ResponseQueue[i]
  <2>1. i \in 1 .. e + 1 /\ i - 1 \in 0 .. e - 1
    BY <1>4
  <2> QED
    BY Zenon, <1>3, <1>4, <2>1
<1>7. new \in Responses
  <2>1. ResponseQueue'[e + 1] \in Responses
    BY <1>4
  <2> QED
    BY Zenon, <1>5, <2>1
<1> HIDE DEF new
<1>8. r \in Seq(Responses) /\ Len(r) = e + 1 /\ r[e + 1] = new /\ \A i \in 1 .. e : r[i] = ResponseQueue[i]
  BY <1>4, <1>7, AppendProperties
<1> HIDE DEF r
<1>9. ASSUME NEW i \in 1 .. e + 1
      PROVE  ResponseQueue'[i] = r[i]
  <2>1. i \in 1 .. e \/ i = e + 1
    BY <1>4
  <2> QED
    BY Zenon, <1>5, <1>6, <1>8, <2>1
<1> QED
  BY Zenon, <1>4, <1>8, <1>9, SeqEqual DEF r, new
\* A part appended to a response is its last part, merged or not.
LEMMA EnqueueParts ==
  ASSUME NEW groups \in Groups, NEW part \in PartSet
  PROVE  Joined(enqueue_group(groups, part)) = Append(Joined(groups), part)
<1>1. groups \in Seq(Seq(PartSet)) /\ Joined(groups) \in Seq(PartSet) /\ <<part>> \in Seq(PartSet)
  BY GroupsAreSequences
<1>2. groups # <<>> => Joined([groups EXCEPT ![Len(groups)] = Append(@, part)]) = Append(Joined(groups), part)
  BY Zenon, <1>1, JoinedExtendLast
<1>3. Joined(Append(groups, <<part>>)) = Joined(groups) \o <<part>>
  BY Zenon, <1>1, JoinedAppend
<1>4. Joined(groups) \o <<part>> = Append(Joined(groups), part)
  BY Zenon, <1>1, AppendIsConcat
<1> QED
  BY Zenon, <1>2, <1>3, <1>4 DEF enqueue_group

LEMMA RespondQueue ==
  ASSUME MaxRequests <= IdModulus, IInv, NEW part \in PartSet, RespondPart(part)
  PROVE  \E i \in DOMAIN ResponseQueue, final \in BOOLEAN, close \in BOOLEAN :
           /\ ~closed /\ ~ResponseQueue[i].final /\ ResponseQueue[i].id = part.req
           /\ ResponseQueue' = [ResponseQueue EXCEPT ![i] =
                [id |-> ResponseQueue[i].id, parts |-> Append(ResponseQueue[i].parts, part),
                 final |-> final, close |-> close]]
<1> DEFINE f == m_first_element_index
           e == m_elements_exists
<1>1. PICK k \in 0 .. e - 1, final \in BOOLEAN, close \in BOOLEAN :
        /\ ~closed /\ ~m_contexts[At(f, k)].final /\ m_contexts[At(f, k)].request_id = part.req
        /\ m_contexts'[At(f, k)] =
             [request_id |-> m_contexts[At(f, k)].request_id,
              m_write_groups |-> enqueue_group(m_contexts[At(f, k)].m_write_groups, part),
              final |-> final, close |-> close]
        /\ \A d \in 0 .. e - 1 : d # k => m_contexts'[At(f, d)] = m_contexts[At(f, d)]
  BY Zenon, RespondCells
<1>2. IInv'
  BY RespondStep
<1>3. m_first_element_index' = f /\ e' = e
  BY DEF RespondPart, append_response
<1>4. /\ ResponseQueue \in Seq(Responses) /\ ResponseQueue' \in Seq(Responses)
      /\ Len(ResponseQueue) = e /\ Len(ResponseQueue') = e /\ e \in Nat
      /\ \A i \in 1 .. e : /\ ResponseQueue[i] = ResponseOf(m_contexts[At(f, i - 1)])
                           /\ m_contexts[At(f, i - 1)] \in Contexts
      /\ \A i \in 1 .. e : ResponseQueue'[i] = ResponseOf(m_contexts'[At(f, i - 1)])
  BY Zenon, <1>2, <1>3, Queues
<1>5. PICK n \in 1 .. e : n - 1 = k
  <2>1. k + 1 \in 1 .. e /\ k + 1 - 1 = k
    BY <1>4
  <2> QED
    BY <2>1
<1> DEFINE ctx == m_contexts[At(f, k)]
           new == [id |-> ResponseQueue[n].id, parts |-> Append(ResponseQueue[n].parts, part),
                   final |-> final, close |-> close]
           r == [ResponseQueue EXCEPT ![n] = new]
<1>6. ctx \in Contexts /\ ctx.m_write_groups \in Groups /\ ResponseQueue[n] = ResponseOf(ctx)
  BY Zenon, <1>4, <1>5 DEF Contexts
<1>7. /\ ResponseQueue[n].id = ctx.request_id /\ ResponseQueue[n].final = ctx.final
      /\ ResponseQueue[n].parts = Joined(ctx.m_write_groups)
  BY Zenon, <1>6, ResponseFields
<1>8. ResponseQueue'[n] = new
  <2>1. ResponseQueue'[n] = ResponseOf(m_contexts'[At(f, k)])
    BY Zenon, <1>4, <1>5
  <2>2. Joined(enqueue_group(ctx.m_write_groups, part)) = Append(Joined(ctx.m_write_groups), part)
    BY Zenon, <1>6, EnqueueParts
  <2> HIDE DEF ctx
  <2>3. ASSUME NEW x, x = [request_id |-> ctx.request_id,
                           m_write_groups |-> enqueue_group(ctx.m_write_groups, part),
                           final |-> final, close |-> close]
        PROVE  ResponseOf(x) = new
    <3>1. /\ x.request_id = ctx.request_id /\ x.final = final /\ x.close = close
          /\ x.m_write_groups = enqueue_group(ctx.m_write_groups, part)
      BY Zenon, <2>3
    <3> QED
      BY Zenon, <1>7, <2>2, <3>1, PartsAreJoined DEF ResponseOf
  <2> HIDE DEF new
  <2> QED
    BY Zenon, <1>1, <2>1, <2>3 DEF ctx
<1>9. ASSUME NEW i \in 1 .. e, i # n
      PROVE  ResponseQueue'[i] = ResponseQueue[i]
  <2>1. i - 1 \in 0 .. e - 1 /\ i - 1 # k
    BY <1>4, <1>5, <1>9
  <2> QED
    BY Zenon, <1>1, <1>4, <2>1
<1> HIDE DEF new
<1>10. new \in Responses
  <2>1. ResponseQueue'[n] \in Responses
    BY <1>4
  <2> QED
    BY Zenon, <1>8, <2>1
<1>11. r \in Seq(Responses) /\ Len(r) = e /\ \A i \in 1 .. e : r[i] = IF i = n THEN new ELSE ResponseQueue[i]
  BY <1>4, <1>10, Replaced
<1> HIDE DEF r
<1>12. \A i \in 1 .. e : ResponseQueue'[i] = r[i]
  BY Zenon, <1>8, <1>9, <1>11
<1>13. ResponseQueue' = r
  BY Zenon, <1>4, <1>11, <1>12, SeqEqual
<1>14. n \in DOMAIN ResponseQueue
  BY <1>4
<1>15. ~closed /\ ~ResponseQueue[n].final /\ ResponseQueue[n].id = part.req
  BY Zenon, <1>1, <1>7
<1> QED
  BY Zenon, <1>13, <1>14, <1>15 DEF r, new

LEMMA ResetQueue ==
  ASSUME IInv, Reset
  PROVE  ResponseQueue' = <<>>
<1>1. IInv' /\ m_elements_exists' = 0
  BY ResetStep DEF Reset, reset
<1>2. ResponseQueue' \in Seq(Responses) /\ Len(ResponseQueue') = 0
  BY Zenon, <1>1, Queues
<1> QED
  BY <1>2
\* The group taken comes first, and what is left is empty exactly when it was
\* the only one.
LEMMA TakeGroup ==
  ASSUME NEW groups \in Groups, groups # <<>>
  PROVE  /\ groups[1] \in Seq(PartSet) /\ groups[1] # <<>>
         /\ Tail(groups) \in Groups /\ Joined(Tail(groups)) \in Seq(PartSet)
         /\ Joined(groups) = groups[1] \o Joined(Tail(groups))
         /\ Len(groups) = 1 <=> Joined(Tail(groups)) = <<>>
<1>1. groups \in Seq(GroupSet)
  BY DEF Groups
<1>2. /\ 1 \in 1 .. Len(groups) /\ Tail(groups) \in Seq(GroupSet) /\ Len(Tail(groups)) = Len(groups) - 1
      /\ Len(groups) \in Nat
  BY <1>1
<1>3. groups[1] \in Seq(PartSet) /\ groups[1] # <<>>
  BY Zenon, <1>2, GroupsAreSequences
<1>4. Tail(groups) \in Groups
  BY <1>2 DEF Groups
<1>5. Joined(Tail(groups)) \in Seq(PartSet) /\ Tail(groups) \in Seq(Seq(PartSet))
  BY Zenon, <1>4, GroupsAreSequences
<1>6. Joined(groups) = groups[1] \o Joined(Tail(groups))
  BY Zenon, GroupsAreSequences, JoinedFirst
<1>7. ASSUME Len(groups) = 1 PROVE Joined(Tail(groups)) = <<>>
  <2>1. Len(Tail(groups)) = 0
    BY <1>2, <1>7
  <2>2. \A t \in Seq(GroupSet) : Len(t) = 0 => t = <<>>
    OBVIOUS
  <2>3. Tail(groups) = <<>>
    BY Zenon, <1>2, <2>1, <2>2
  <2> QED
    BY Zenon, <2>3, JoinedEmpty
<1>8. ASSUME Len(groups) # 1 PROVE Joined(Tail(groups)) # <<>>
  <2> DEFINE t == Tail(groups)
  <2> HIDE DEF t
  <2>1. t # <<>> /\ 1 \in 1 .. Len(t) /\ t \in Groups /\ t \in Seq(Seq(PartSet))
    <3>1. Len(t) \in Nat /\ Len(t) # 0 /\ 1 \in 1 .. Len(t)
      BY <1>2, <1>8 DEF t
    <3>2. Len(<<>>) = 0
      OBVIOUS
    <3> QED
      BY Zenon, <1>4, <1>5, <3>1, <3>2 DEF t
  <2>2. /\ t[1] \in Seq(PartSet) /\ t[1] # <<>> /\ Tail(t) \in Seq(Seq(PartSet))
    BY <2>1, GroupsAreSequences
  <2>3. Joined(t) = t[1] \o Joined(Tail(t)) /\ Joined(Tail(t)) \in Seq(PartSet)
    BY Zenon, <2>1, <2>2, JoinedFirst, JoinedType
  <2>4. \A x, y \in Seq(PartSet) : x # <<>> => x \o y # <<>>
    BY ConcatNotEmpty
  <2> QED
    BY Zenon, <2>2, <2>3, <2>4 DEF t
<1> QED
  BY Zenon, <1>3, <1>4, <1>5, <1>6, <1>7, <1>8

LEMMA WriteQueue ==
  ASSUME IInv, Write, m_connection_closed_response_occured \in BOOLEAN
  PROVE  \E rest \in Seq(PartSet) :
           /\ ResponseQueue # <<>> /\ ~closed
           /\ ready_group \in Seq(PartSet) /\ ready_group # <<>>
           /\ ResponseQueue[1].parts = ready_group \o rest
           /\ IF rest = <<>> /\ ResponseQueue[1].final
                THEN /\ ResponseQueue' = Tail(ResponseQueue)
                     /\ m_connection_closed_response_occured' = ResponseQueue[1].close
                ELSE /\ ResponseQueue' = [ResponseQueue EXCEPT ![1] =
                          [id |-> ResponseQueue[1].id, parts |-> rest,
                           final |-> ResponseQueue[1].final, close |-> ResponseQueue[1].close]]
                     /\ UNCHANGED m_connection_closed_response_occured
<1> DEFINE f == m_first_element_index
           e == m_elements_exists
           groups == front.m_write_groups
           rest == Joined(Tail(groups))
           first == ResponseQueue[1]
<1>1. /\ e \in 1 .. MaxReq /\ ~closed /\ front = m_contexts[At(f, 0)] /\ front \in Contexts
      /\ groups \in Groups /\ groups # <<>>
      /\ (CompletesFront => WriteCellsFreed) /\ (~CompletesFront => WriteCellsKept)
  BY Zenon, WriteCells
<1>2. IInv'
  BY WriteStep
<1>3. /\ ResponseQueue \in Seq(Responses) /\ ResponseQueue' \in Seq(Responses)
      /\ Len(ResponseQueue) = e /\ Len(ResponseQueue') = e' /\ e \in Nat /\ e' \in Nat
      /\ \A i \in 1 .. e : ResponseQueue[i] = ResponseOf(m_contexts[At(f, i - 1)])
      /\ \A i \in 1 .. e' : ResponseQueue'[i] = ResponseOf(m_contexts'[At(f', i - 1)])
  BY Zenon, <1>2, Queues
<1>4. /\ groups[1] \in Seq(PartSet) /\ groups[1] # <<>> /\ rest \in Seq(PartSet)
      /\ Joined(groups) = groups[1] \o rest /\ (Len(groups) = 1 <=> rest = <<>>)
  BY Zenon, <1>1, TakeGroup
<1>5. first = ResponseOf(front)
  <2>1. PICK i \in 1 .. e : i = 1
    BY <1>1
  <2>2. i - 1 = 0
    BY <2>1
  <2> QED
    BY Zenon, <1>1, <1>3, <2>1, <2>2
<1>6. /\ first.id = front.request_id /\ first.parts = groups[1] \o rest
      /\ first.final = front.final /\ first.close = front.close
  BY Zenon, <1>4, <1>5, ResponseFields
<1>7. ready_group = groups[1] /\ ResponseQueue # <<>>
  BY <1>1, <1>3 DEF ready_group
<1>8. CompletesFront <=> rest = <<>> /\ first.final
  BY Zenon, <1>4, <1>6 DEF CompletesFront
<1> HIDE DEF rest
<1>9. ASSUME CompletesFront
      PROVE  ResponseQueue' = Tail(ResponseQueue) /\ m_connection_closed_response_occured' = first.close
  <2>1. /\ e' = e - 1 /\ m_connection_closed_response_occured' = front.close
        /\ \A d \in 0 .. e - 2 : m_contexts'[At(f', d)] = m_contexts[At(f, d + 1)]
    BY Zenon, <1>1, <1>9 DEF WriteCellsFreed
  <2>2. /\ Tail(ResponseQueue) \in Seq(Responses) /\ Len(Tail(ResponseQueue)) = e - 1
        /\ \A i \in 1 .. e - 1 : Tail(ResponseQueue)[i] = ResponseQueue[i + 1]
    BY <1>3, <1>7, HeadTailProperties
  <2>3. ASSUME NEW i \in 1 .. e - 1
        PROVE  ResponseQueue'[i] = Tail(ResponseQueue)[i]
    <3>1. i \in 1 .. e' /\ i - 1 \in 0 .. e - 2
      BY <1>3, <2>1
    <3>2. PICK j \in 1 .. e : j = i + 1
      BY <1>3
    <3>3. i - 1 + 1 = j - 1
      BY <1>3, <3>2
    <3>4. ResponseQueue'[i] = ResponseOf(m_contexts'[At(f', i - 1)])
      BY Zenon, <1>3, <3>1
    <3>5. m_contexts'[At(f', i - 1)] = m_contexts[At(f, i - 1 + 1)]
      BY Zenon, <2>1, <3>1
    <3>6. ResponseQueue[j] = ResponseOf(m_contexts[At(f, j - 1)])
      BY Zenon, <1>3
    <3>7. Tail(ResponseQueue)[i] = ResponseQueue[j]
      BY Zenon, <2>2, <3>2
    <3> QED
      BY Zenon, <3>3, <3>4, <3>5, <3>6, <3>7
  <2> QED
    BY Zenon, <1>3, <1>6, <2>1, <2>2, <2>3, SeqEqual
<1>10. ASSUME ~CompletesFront
       PROVE  /\ ResponseQueue' = [ResponseQueue EXCEPT ![1] =
                   [id |-> first.id, parts |-> rest, final |-> first.final, close |-> first.close]]
              /\ UNCHANGED m_connection_closed_response_occured
  <2> DEFINE new == [id |-> first.id, parts |-> rest, final |-> first.final, close |-> first.close]
             r == [ResponseQueue EXCEPT ![1] = new]
  <2>1. /\ f' = f /\ e' = e /\ UNCHANGED m_connection_closed_response_occured
        /\ m_contexts'[At(f, 0)] = [request_id |-> front.request_id, m_write_groups |-> Tail(groups),
                                    final |-> front.final, close |-> front.close]
        /\ \A d \in 1 .. e - 1 : m_contexts'[At(f, d)] = m_contexts[At(f, d)]
    BY Zenon, <1>1, <1>10 DEF WriteCellsKept
  <2>2. ResponseQueue'[1] = new
    <3>1. PICK i \in 1 .. e : i = 1
      BY <1>1
    <3>2. i - 1 = 0
      BY <3>1
    <3>3. ResponseQueue'[1] = ResponseOf(m_contexts'[At(f, 0)])
      BY Zenon, <1>3, <2>1, <3>1, <3>2
    <3>4. ASSUME NEW x, x = [request_id |-> front.request_id, m_write_groups |-> Tail(groups),
                             final |-> front.final, close |-> front.close]
          PROVE  ResponseOf(x) = new
      <4>1. /\ x.request_id = front.request_id /\ x.final = front.final /\ x.close = front.close
            /\ x.m_write_groups = Tail(groups)
        BY Zenon, <3>4
      <4> QED
        BY Zenon, <1>6, <4>1, PartsAreJoined DEF ResponseOf, rest
    <3> HIDE DEF new
    <3> QED
      BY Zenon, <2>1, <3>3, <3>4
  <2> HIDE DEF new
  <2>3. ASSUME NEW i \in 1 .. e, i # 1
        PROVE  ResponseQueue'[i] = ResponseQueue[i]
    <3>1. i - 1 \in 1 .. e - 1
      BY <1>3, <2>3
    <3> QED
      BY Zenon, <1>3, <2>1, <3>1
  <2>4. new \in Responses /\ 1 \in 1 .. e
    <3>1. ResponseQueue'[1] \in Responses /\ 1 \in 1 .. e
      BY <1>1, <1>3, <2>1
    <3> QED
      BY Zenon, <2>2, <3>1
  <2>5. r \in Seq(Responses) /\ Len(r) = e /\ \A i \in 1 .. e : r[i] = IF i = 1 THEN new ELSE ResponseQueue[i]
    BY <1>3, <2>4, Replaced
  <2> HIDE DEF r
  <2>6. \A i \in 1 .. e : ResponseQueue'[i] = r[i]
    BY Zenon, <2>2, <2>3, <2>5
  <2>7. ResponseQueue' = r
    <3>1. ResponseQueue' \in Seq(Responses) /\ Len(ResponseQueue') = e
      BY Zenon, <1>3, <2>1
    <3> QED
      BY Zenon, <2>5, <2>6, <3>1, SeqEqual
  <2> QED
    BY Zenon, <2>1, <2>7 DEF r, new
<1> QED
  BY Zenon, <1>1, <1>4, <1>6, <1>7, <1>8, <1>9, <1>10
-----------------------------------------------------------------------------
(* The types of the other variables. *)

Typed ==
  /\ m_connection_closed_response_occured \in BOOLEAN
  /\ offered \in [Requests -> 0 .. MaxParts]
  /\ out \in Seq(PartSet)

LEMMA InitTyped == Init => Typed
<1>1. 0 \in 0 .. MaxParts
  BY PipelineAssumption
<1>2. <<>> \in Seq(PartSet)
  OBVIOUS
<1> QED
  BY Zenon, <1>1, <1>2 DEF Init, CoordinatorInit, Typed

\* A part offered is the next one of its request.
LEMMA OfferFacts ==
  ASSUME Typed, NEW part \in PartSet, Offer(part)
  PROVE  /\ part.req \in Requests /\ part.n \in 1 .. MaxParts
         /\ part.n = offered[part.req] + 1
         /\ offered' = [offered EXCEPT ![part.req] = part.n]
         /\ offered' \in [Requests -> 0 .. MaxParts]
<1>1. part.req \in Requests /\ part.n \in 1 .. MaxParts
  BY Zenon DEF PartSet
<1>2. part.n = offered[part.req] + 1 /\ offered' = [offered EXCEPT ![part.req] = offered[part.req] + 1]
  BY Zenon DEF Offer
<1>3. part.n \in 0 .. MaxParts
  BY <1>1, PipelineAssumption
<1> QED
  BY Zenon, <1>1, <1>2, <1>3 DEF Typed

LEMMA NextTyped ==
  ASSUME IInv, Typed, [Next]_vars
  PROVE  Typed'
<1>1. CASE Register
  BY Zenon, <1>1 DEF Register, register_new_request, Typed
<1>2. ASSUME NEW part \in PartSet, RespondPart(part)
      PROVE  Typed'
  BY Zenon, <1>2, OfferFacts DEF RespondPart, append_response, Typed
<1>3. ASSUME NEW part \in PartSet, RespondRefused(part)
      PROVE  Typed'
  BY Zenon, <1>3, OfferFacts DEF RespondRefused, coordinatorVars, Typed
<1>4. CASE Write
  <2>1. out \in Seq(PartSet) /\ m_connection_closed_response_occured \in BOOLEAN /\ offered' = offered
    BY Zenon, <1>4 DEF Typed, Write
  <2>2. ready_group \in Seq(PartSet)
    BY Zenon, <1>4, <2>1, WriteQueue
  <2>3. out' \in Seq(PartSet)
    <3>1. out' = out \o ready_group
      BY <1>4 DEF Write
    <3>2. out \o ready_group \in Seq(PartSet)
      BY <2>1, <2>2, ConcatProperties
    <3> QED
      BY Zenon, <3>1, <3>2
  <2>4. m_connection_closed_response_occured' \in BOOLEAN
    BY Zenon, <1>4 DEF Write, pop_ready_buffers
  <2> QED
    BY Zenon, <2>1, <2>3, <2>4 DEF Typed
<1>5. CASE Reset
  BY Zenon, <1>5 DEF Reset, reset, Typed
<1>6. CASE UNCHANGED vars
  BY Zenon, <1>6 DEF vars, coordinatorVars, Typed
<1> QED
  BY Zenon, <1>1, <1>2, <1>3, <1>4, <1>5, <1>6 DEF Next

LEMMA SpecTyped ==
  ASSUME MaxRequests <= IdModulus
  PROVE  Spec => []Typed
<1>1. IInv /\ Typed /\ [Next]_vars => Typed'
  BY NextTyped
<1> QED
  BY <1>1, InitTyped, SpecIInv, PTL DEF Spec

\* Every variable of the ring keeps its type, and so do the counts of the
\* parts offered: the counter of elements stays within the ring, the first
\* element stays in it, and ids stay below the modulus.
THEOREM RingTypes ==
  ASSUME MaxRequests <= IdModulus
  PROVE  Spec => []TypeOK
<1>1. IInv /\ Typed => TypeOK
  <2> SUFFICES ASSUME IInv, Typed PROVE TypeOK
    OBVIOUS
  <2>1. /\ m_contexts \in [Cells -> Contexts] /\ m_first_element_index \in Cells
        /\ m_elements_exists \in 0 .. MaxReq /\ registered \in 0 .. MaxRequests
    BY DEF IInv, Shape
  <2>2. m_request_id_counter \in 0 .. IdModulus - 1
    <3>1. m_request_id_counter = registered % IdModulus
      BY DEF IInv, Ids
    <3> QED
      BY <2>1, <3>1, CoordinatorAssumption, PipelineAssumption
  <2>3. ASSUME NEW i \in Cells
        PROVE  /\ m_contexts[i].request_id \in 0 .. IdModulus - 1
               /\ m_contexts[i].m_write_groups \in Seq(Seq(PartSet))
               /\ m_contexts[i].final \in BOOLEAN
               /\ m_contexts[i].close \in BOOLEAN
    <3>1. m_contexts[i] \in Contexts
      BY <2>1
    <3>2. m_contexts[i].m_write_groups \in Groups
      BY Zenon, <3>1 DEF Contexts
    <3> QED
      BY Zenon, <3>1, <3>2, GroupsAreSequences DEF Contexts
  <2>4. DOMAIN m_contexts = Cells
    BY <2>1
  <2> QED
    BY Zenon, <2>1, <2>2, <2>3, <2>4 DEF TypeOK, Typed
<1> QED
  BY <1>1, SpecIInv, SpecTyped, PTL

\* No part with a notificator is followed by another part in its write group,
\* so that merging a group never overwrites a notificator.
THEOREM NotificatorsEndGroups ==
  ASSUME MaxRequests <= IdModulus
  PROVE  Spec => []NotificatorEndsGroup
<1>1. IInv => NotificatorEndsGroup
  <2> SUFFICES ASSUME IInv, NEW i \in DOMAIN Live, NEW g \in DOMAIN Live[i].m_write_groups,
                      NEW k \in 1 .. Len(Live[i].m_write_groups[g]) - 1
               PROVE  ~Live[i].m_write_groups[g][k].notif
    BY Zenon DEF NotificatorEndsGroup
  <2>1. i \in 1 .. m_elements_exists
    BY Zenon DEF Live
  <2>2. Live[i] = m_contexts[At(m_first_element_index, i - 1)]
    BY Zenon, <2>1, CellIsAt DEF Live
  <2>3. At(m_first_element_index, i - 1) \in Cells
    <3>1. m_first_element_index \in Cells /\ i - 1 \in 0 .. MaxReq
      BY <2>1, CoordinatorAssumption DEF IInv, Shape
    <3> QED
      BY <3>1, AtInRing
  <2>4. Live[i].m_write_groups \in Seq(GroupSet)
    BY Zenon, <2>2, <2>3 DEF IInv, Shape, Contexts, Groups
  <2>5. Live[i].m_write_groups[g] \in GroupSet
    BY <2>4
  <2> QED
    BY Zenon, <2>5 DEF GroupSet
<1> QED
  BY <1>1, SpecIInv, PTL
-----------------------------------------------------------------------------
(* The ring implements the queue of responses. *)

LEMMA RefinedInit == Init => Fifo!Init
<1> SUFFICES ASSUME Init PROVE Fifo!Init
  OBVIOUS
<1>1. m_elements_exists = 0 /\ registered = 0 /\ out = <<>> /\ m_connection_closed_response_occured = FALSE
  BY Zenon DEF Init, CoordinatorInit
<1>2. ResponseQueue = <<>>
  <2>1. IInv
    BY InitIInv
  <2>2. /\ m_contexts \in [Cells -> Contexts] /\ m_first_element_index \in Cells /\ m_elements_exists \in 0 .. MaxReq
    BY <2>1 DEF IInv, Shape
  <2>3. QueueOf(m_contexts, m_first_element_index, m_elements_exists) \in Seq(Responses)
        /\ Len(QueueOf(m_contexts, m_first_element_index, m_elements_exists)) = m_elements_exists
    BY Zenon, <2>2, QueueShape
  <2>4. ResponseQueue \in Seq(Responses) /\ Len(ResponseQueue) = 0
    BY Zenon, <1>1, <2>3, QueueIs
  <2> QED
    BY <2>4
<1> QED
  BY Zenon, <1>1, <1>2 DEF Fifo!Init

LEMMA RefinedRegister ==
  ASSUME MaxRequests <= IdModulus, IInv, Register
  PROVE  Fifo!Request
<1>1. Len(ResponseQueue) < MaxReq
  <2>1. m_elements_exists < MaxReq
    BY Zenon, RegisterCells
  <2>2. IInv'
    BY RegisterStep
  <2>3. Len(ResponseQueue) = m_elements_exists
    BY Zenon, <2>2, Queues
  <2> QED
    BY Zenon, <2>1, <2>3
<1>2. registered' = registered + 1 /\ UNCHANGED <<out, m_connection_closed_response_occured>>
  BY Zenon DEF Register, register_new_request
<1> QED
  BY Zenon, <1>1, <1>2, RegisterQueue DEF Fifo!Request

LEMMA RefinedRespond ==
  ASSUME MaxRequests <= IdModulus, IInv, NEW part \in PartSet, RespondPart(part)
  PROVE  \E i \in DOMAIN ResponseQueue, final, close \in BOOLEAN : Fifo!Respond(i, part, final, close)
<1>1. PICK i \in DOMAIN ResponseQueue, final \in BOOLEAN, close \in BOOLEAN :
        /\ ~closed /\ ~ResponseQueue[i].final
        /\ ResponseQueue' = [ResponseQueue EXCEPT ![i] =
             [id |-> ResponseQueue[i].id, parts |-> Append(ResponseQueue[i].parts, part),
              final |-> final, close |-> close]]
  BY Zenon, RespondQueue
<1>2. UNCHANGED <<registered, out, m_connection_closed_response_occured>>
  BY Zenon DEF RespondPart, append_response
<1>3. Fifo!Respond(i, part, final, close)
  BY Zenon, <1>1, <1>2 DEF Fifo!Respond, closed
<1> QED
  BY Zenon, <1>3

LEMMA ResponseTake ==
  ASSUME NEW r \in Responses, NEW parts \in Seq(PartSet)
  PROVE  [r EXCEPT !.parts = parts] = [id |-> r.id, parts |-> parts, final |-> r.final, close |-> r.close]
<1> DEFINE t == [r EXCEPT !.parts = parts]
<1>1. t \in Responses /\ t.id = r.id /\ t.parts = parts /\ t.final = r.final /\ t.close = r.close
  BY Zenon DEF Responses
<1> HIDE DEF t
<1>2. t = [id |-> t.id, parts |-> t.parts, final |-> t.final, close |-> t.close]
  BY Zenon, <1>1 DEF Responses
<1> QED
  BY Zenon, <1>1, <1>2 DEF t

LEMMA RefinedWrite ==
  ASSUME MaxRequests <= IdModulus, IInv, Typed, Write
  PROVE  ResponseQueue # <<>> /\ \E n \in 1 .. Len(Head(ResponseQueue).parts) : Fifo!Transmit(n)
<1> DEFINE first == ResponseQueue[1]
           n == Len(ready_group)
<1>1. PICK rest \in Seq(PartSet) :
        /\ ResponseQueue # <<>> /\ ~closed
        /\ ready_group \in Seq(PartSet) /\ ready_group # <<>>
        /\ first.parts = ready_group \o rest
        /\ IF rest = <<>> /\ first.final
             THEN /\ ResponseQueue' = Tail(ResponseQueue)
                  /\ m_connection_closed_response_occured' = first.close
             ELSE /\ ResponseQueue' = [ResponseQueue EXCEPT ![1] =
                       [id |-> first.id, parts |-> rest, final |-> first.final, close |-> first.close]]
                  /\ UNCHANGED m_connection_closed_response_occured
  BY Zenon, WriteQueue DEF Typed
<1>2. ResponseQueue \in Seq(Responses)
  BY Zenon, WriteStep, Queues
<1>3. Head(ResponseQueue) = first /\ first \in Responses
  BY <1>1, <1>2
<1>4. /\ SubSeq(first.parts, 1, n) = ready_group
      /\ SubSeq(first.parts, n + 1, Len(first.parts)) = rest
      /\ Len(first.parts) = n + Len(rest)
  <2>1. /\ SubSeq(ready_group \o rest, 1, Len(ready_group)) = ready_group
        /\ SubSeq(ready_group \o rest, Len(ready_group) + 1, Len(ready_group \o rest)) = rest
        /\ Len(ready_group \o rest) = Len(ready_group) + Len(rest)
    BY ONLY <1>1, SplitConcat, Zenon
  <2> QED
    BY Zenon, <1>1, <2>1
<1>5. n \in 1 .. Len(first.parts) /\ n <= Len(first.parts)
  <2>1. n \in Nat /\ n # 0 /\ Len(rest) \in Nat
    BY <1>1
  <2> QED
    BY <1>4, <2>1
<1>6. out' = out \o ready_group /\ registered' = registered
  BY DEF Write
<1>7. [ResponseQueue EXCEPT ![1].parts = rest] =
        [ResponseQueue EXCEPT ![1] = [id |-> first.id, parts |-> rest, final |-> first.final, close |-> first.close]]
  BY Zenon, <1>3, ResponseTake
<1>8. Fifo!Transmit(n)
  <2> HIDE DEF first, n
  <2>1. LET r == SubSeq(Head(ResponseQueue).parts, n + 1, Len(Head(ResponseQueue).parts))
        IN  IF r = <<>> /\ Head(ResponseQueue).final
              THEN /\ ResponseQueue' = Tail(ResponseQueue)
                   /\ m_connection_closed_response_occured' = Head(ResponseQueue).close
              ELSE /\ ResponseQueue' = [ResponseQueue EXCEPT ![1].parts = r]
                   /\ UNCHANGED m_connection_closed_response_occured
    BY Zenon, <1>1, <1>3, <1>4, <1>7
  <2>2. out' = out \o SubSeq(Head(ResponseQueue).parts, 1, n)
    BY Zenon, <1>3, <1>4, <1>6
  <2>3. ~m_connection_closed_response_occured /\ ResponseQueue # <<>> /\ n <= Len(Head(ResponseQueue).parts)
    BY Zenon, <1>1, <1>3, <1>5 DEF closed
  <2> QED
    BY Zenon, <1>6, <2>1, <2>2, <2>3 DEF Fifo!Transmit
<1> QED
  BY Zenon, <1>1, <1>3, <1>5, <1>8

LEMMA RefinedNext ==
  ASSUME MaxRequests <= IdModulus, IInv, Typed, [Next]_vars
  PROVE  [Fifo!Next]_(Fifo!fifoVars)
<1>1. CASE Register
  BY Zenon, <1>1, RefinedRegister DEF Fifo!Next
<1>2. ASSUME NEW part \in PartSet, RespondPart(part)
      PROVE  Fifo!Next
  BY Zenon, <1>2, RefinedRespond DEF Fifo!Next
<1>3. ASSUME NEW part \in PartSet, RespondRefused(part)
      PROVE  UNCHANGED Fifo!fifoVars
  BY <1>3 DEF RespondRefused, coordinatorVars, Fifo!fifoVars, ResponseQueue, Live, Cell, ResponseOf
<1>4. CASE Write
  BY Zenon, <1>4, RefinedWrite DEF Fifo!Next
<1>5. CASE Reset
  <2>1. UNCHANGED <<registered, out, m_connection_closed_response_occured>>
    BY Zenon, <1>5 DEF Reset, reset
  <2> QED
    BY Zenon, <1>5, <2>1, ResetQueue DEF Fifo!Next, Fifo!Abandon
<1>6. CASE UNCHANGED vars
  BY <1>6 DEF vars, coordinatorVars, Fifo!fifoVars, ResponseQueue, Live, Cell, ResponseOf
<1> QED
  BY Zenon, <1>1, <1>2, <1>3, <1>4, <1>5, <1>6 DEF Next

\* The ring of contexts, with the parts merged into write groups, is a queue of
\* responses: parts leave in the order of the requests and, within a response,
\* in the order in which they were appended, whatever the handlers do, for a
\* ring of any size as long as request_id_t does not wrap.
THEOREM RingImplementsFifo ==
  ASSUME MaxRequests <= IdModulus
  PROVE  Spec => ImplementsFifo
<1>1. IInv /\ Typed /\ [Next]_vars => [Fifo!Next]_(Fifo!fifoVars)
  BY RefinedNext
<1> QED
  BY <1>1, RefinedInit, SpecIInv, SpecTyped, PTL DEF Spec, ImplementsFifo, Fifo!Spec
-----------------------------------------------------------------------------
(* Where the parts of the responses are. *)

Name(part) == <<part.req, part.n>>

\* No part occurs twice.
Distinct(parts) == \A j, k \in DOMAIN parts : Name(parts[j]) = Name(parts[k]) => j = k

\* The parts that wait in a queue of responses.
Waiting(queue) == UNION {Names(queue[i].parts) : i \in DOMAIN queue}

\* No part is in two places of the queue.
Apart(queue) ==
  /\ \A i \in DOMAIN queue : Distinct(queue[i].parts)
  /\ \A i, j \in DOMAIN queue : i # j => Names(queue[i].parts) \cap Names(queue[j].parts) = {}

\* The parts offered, where off counts them.
Offered(off) == {p \in Requests \X (1 .. MaxParts) : p[2] <= off[p[1]]}

\* PartsConserved, with what makes it inductive.
Conserved ==
  /\ Apart(ResponseQueue)
  /\ Distinct(out)
  /\ Names(out) \cap Waiting(ResponseQueue) = {}
  /\ Names(out) \cap dropped = {}
  /\ Waiting(ResponseQueue) \cap dropped = {}
  /\ Names(out) \cup Waiting(ResponseQueue) \cup dropped = Offered(offered)

LEMMA NamesIn ==
  ASSUME NEW parts, NEW x
  PROVE  x \in Names(parts) <=> \E k \in DOMAIN parts : x = Name(parts[k])
BY Zenon DEF Names, Name

LEMMA WaitingIn ==
  ASSUME NEW queue, NEW x
  PROVE  x \in Waiting(queue) <=> \E i \in DOMAIN queue : x \in Names(queue[i].parts)
BY Zenon DEF Waiting

LEMMA NamesEmpty == Names(<<>>) = {} /\ Distinct(<<>>)
<1>1. DOMAIN <<>> = {}
  OBVIOUS
<1> QED
  BY Zenon, <1>1 DEF Names, Distinct

LEMMA NamesConcat ==
  ASSUME NEW x \in Seq(PartSet), NEW y \in Seq(PartSet)
  PROVE  /\ Names(x \o y) = Names(x) \cup Names(y)
         /\ Distinct(x \o y) <=> Distinct(x) /\ Distinct(y) /\ Names(x) \cap Names(y) = {}
<1> DEFINE c == x \o y
           at(k) == Len(x) + k
<1>1. /\ \A k \in DOMAIN x : k \in DOMAIN c /\ c[k] = x[k]
      /\ \A k \in DOMAIN y : at(k) \in DOMAIN c /\ c[at(k)] = y[k]
      /\ \A k \in DOMAIN c : k \in DOMAIN x \/ \E j \in DOMAIN y : k = at(j)
      /\ \A j \in DOMAIN x, k \in DOMAIN y : j # at(k)
      /\ \A j, k \in DOMAIN y : at(j) = at(k) => j = k
  BY ZenonT(60), ConcatPlaces
<1> HIDE DEF c, at
<1>2. \A z : z \in Names(c) <=> z \in Names(x) \/ z \in Names(y)
  <2> TAKE z
  <2>1. ASSUME z \in Names(x) PROVE z \in Names(c)
    <3>1. PICK k \in DOMAIN x : z = Name(x[k])
      BY Zenon, <2>1, NamesIn
    <3>2. k \in DOMAIN c /\ z = Name(c[k])
      BY Zenon, <1>1, <3>1
    <3> QED
      BY Zenon, <3>2, NamesIn
  <2>2. ASSUME z \in Names(y) PROVE z \in Names(c)
    <3>1. PICK k \in DOMAIN y : z = Name(y[k])
      BY Zenon, <2>2, NamesIn
    <3>2. at(k) \in DOMAIN c /\ z = Name(c[at(k)])
      BY Zenon, <1>1, <3>1
    <3> QED
      BY Zenon, <3>2, NamesIn
  <2>3. ASSUME z \in Names(c)
        PROVE  z \in Names(x) \/ z \in Names(y)
    <3>1. PICK k \in DOMAIN c : z = Name(c[k])
      BY Zenon, <2>3, NamesIn
    <3>2. CASE k \in DOMAIN x
      BY Zenon, <1>1, <3>1, <3>2, NamesIn
    <3>3. ASSUME NEW j \in DOMAIN y, k = at(j)
          PROVE  z \in Names(y)
      BY Zenon, <1>1, <3>1, <3>3, NamesIn
    <3> QED
      BY Zenon, <1>1, <3>2, <3>3
  <2> QED
    BY Zenon, <2>1, <2>2, <2>3
<1>3. Distinct(c) => Distinct(x) /\ Distinct(y)
  BY Zenon, <1>1 DEF Distinct
<1>4. Distinct(c) => \A z : ~(z \in Names(x) /\ z \in Names(y))
  <2> SUFFICES ASSUME Distinct(c), NEW z, z \in Names(x), z \in Names(y)
               PROVE  FALSE
    BY Zenon
  <2>1. PICK j \in DOMAIN x : z = Name(x[j])
    BY Zenon, NamesIn
  <2>2. PICK k \in DOMAIN y : z = Name(y[k])
    BY Zenon, NamesIn
  <2>3. j \in DOMAIN c /\ at(k) \in DOMAIN c /\ Name(c[j]) = Name(c[at(k)]) /\ j # at(k)
    BY Zenon, <1>1, <2>1, <2>2
  <2> QED
    BY Zenon, <2>3 DEF Distinct
<1>5. ASSUME Distinct(x), Distinct(y), \A z : ~(z \in Names(x) /\ z \in Names(y))
      PROVE  Distinct(c)
  <2> SUFFICES ASSUME NEW j \in DOMAIN c, NEW k \in DOMAIN c, Name(c[j]) = Name(c[k])
               PROVE  j = k
    BY Zenon DEF Distinct
  <2>1. \A m \in DOMAIN x : Name(c[m]) \in Names(x)
    BY Zenon, <1>1, NamesIn
  <2>2. \A m \in DOMAIN y : Name(c[at(m)]) \in Names(y)
    BY Zenon, <1>1, NamesIn
  <2>3. CASE j \in DOMAIN x /\ k \in DOMAIN x
    BY Zenon, <1>1, <1>5, <2>3 DEF Distinct
  <2>4. ASSUME NEW m \in DOMAIN y, NEW n \in DOMAIN y, j = at(m), k = at(n)
        PROVE  j = k
    BY ZenonT(60), <1>1, <1>5, <2>4 DEF Distinct
  <2>5. ~(j \in DOMAIN x /\ \E m \in DOMAIN y : k = at(m))
    BY Zenon, <1>5, <2>1, <2>2
  <2>6. ~(k \in DOMAIN x /\ \E m \in DOMAIN y : j = at(m))
    BY Zenon, <1>5, <2>1, <2>2
  <2> QED
    BY Zenon, <1>1, <2>3, <2>4, <2>5, <2>6
<1>6. Names(c) = Names(x) \cup Names(y)
  BY Zenon, <1>2
<1>7. Names(x) \cap Names(y) = {} <=> \A z : ~(z \in Names(x) /\ z \in Names(y))
  BY Zenon
<1> QED
  BY Zenon, <1>3, <1>4, <1>5, <1>6, <1>7 DEF c

LEMMA NamesAppend ==
  ASSUME NEW x \in Seq(PartSet), NEW part \in PartSet
  PROVE  /\ Names(Append(x, part)) = Names(x) \cup {Name(part)}
         /\ Distinct(x) /\ Name(part) \notin Names(x) => Distinct(Append(x, part))
<1>1. Append(x, part) = x \o <<part>> /\ <<part>> \in Seq(PartSet)
  BY AppendIsConcat
<1>2. DOMAIN <<part>> = {1} /\ <<part>>[1] = part
  OBVIOUS
<1>3. Names(<<part>>) = {Name(part)} /\ Distinct(<<part>>)
  BY Zenon, <1>2 DEF Names, Name, Distinct
<1>4. Name(part) \notin Names(x) => Names(x) \cap Names(<<part>>) = {}
  BY Zenon, <1>3
<1> QED
  <2>1. /\ Names(x \o <<part>>) = Names(x) \cup Names(<<part>>)
        /\ Distinct(x \o <<part>>) <=> Distinct(x) /\ Distinct(<<part>>) /\ Names(x) \cap Names(<<part>>) = {}
    BY Zenon, <1>1, NamesConcat
  <2> QED
    BY Zenon, <1>1, <1>3, <1>4, <2>1

\* The operations on the queue, seen as what they do to the names in it.
LEMMA WaitingAppend ==
  ASSUME NEW queue \in Seq(Responses), NEW r \in Responses, r.parts = <<>>, Apart(queue)
  PROVE  Waiting(Append(queue, r)) = Waiting(queue) /\ Apart(Append(queue, r))
<1> DEFINE q == Append(queue, r)
           l == Len(queue) + 1
<1>1. /\ DOMAIN queue \subseteq DOMAIN q /\ \A i \in DOMAIN queue : q[i] = queue[i]
      /\ \A i \in DOMAIN q : i \in DOMAIN queue \/ i = l
      /\ q[l] = r
  OBVIOUS
<1> HIDE DEF q, l
<1>2. Names(q[l].parts) = {} /\ Distinct(q[l].parts)
  BY Zenon, <1>1, NamesEmpty
<1>3. \A z : z \in Waiting(q) <=> z \in Waiting(queue)
  <2> TAKE z
  <2>1. ASSUME z \in Waiting(queue) PROVE z \in Waiting(q)
    <3>1. PICK i \in DOMAIN queue : z \in Names(queue[i].parts)
      BY Zenon, <2>1, WaitingIn
    <3>2. i \in DOMAIN q /\ z \in Names(q[i].parts)
      BY Zenon, <1>1, <3>1
    <3> QED
      BY Zenon, <3>2, WaitingIn
  <2>2. ASSUME z \in Waiting(q) PROVE z \in Waiting(queue)
    <3>1. PICK i \in DOMAIN q : z \in Names(q[i].parts)
      BY Zenon, <2>2, WaitingIn
    <3>2. i \in DOMAIN queue /\ z \in Names(queue[i].parts)
      BY Zenon, <1>1, <1>2, <3>1
    <3> QED
      BY Zenon, <3>2, WaitingIn
  <2> QED
    BY Zenon, <2>1, <2>2
<1>4. \A i \in DOMAIN q : Distinct(q[i].parts)
  BY Zenon, <1>1, <1>2 DEF Apart
<1>5. ASSUME NEW i \in DOMAIN q, NEW j \in DOMAIN q, i # j
      PROVE  Names(q[i].parts) \cap Names(q[j].parts) = {}
  <2>1. CASE i = l \/ j = l
    BY Zenon, <1>2, <2>1
  <2>2. CASE i \in DOMAIN queue /\ j \in DOMAIN queue
    BY Zenon, <1>1, <1>5, <2>2 DEF Apart
  <2> QED
    BY Zenon, <1>1, <2>1, <2>2
<1>6. Waiting(q) = Waiting(queue)
  BY Zenon, <1>3
<1> QED
  BY Zenon, <1>4, <1>5, <1>6 DEF Apart, q

\* Response i of the queue is replaced: its parts are others.
LEMMA WaitingReplace ==
  ASSUME NEW queue \in Seq(Responses), NEW i \in DOMAIN queue, NEW r \in Responses, Apart(queue),
         Distinct(r.parts), \A z \in Names(r.parts) : z \in Waiting(queue) => z \in Names(queue[i].parts)
  PROVE  /\ Apart([queue EXCEPT ![i] = r])
         /\ \A z : z \in Waiting([queue EXCEPT ![i] = r]) <=>
                     z \in Names(r.parts) \/ (z \in Waiting(queue) /\ z \notin Names(queue[i].parts))
<1> DEFINE q == [queue EXCEPT ![i] = r]
<1>1. DOMAIN q = DOMAIN queue /\ q[i] = r /\ \A j \in DOMAIN queue : j # i => q[j] = queue[j]
  BY Zenon
<1> HIDE DEF q
<1>2. \A j \in DOMAIN q : Distinct(q[j].parts)
  BY Zenon, <1>1 DEF Apart
<1>3. \A j \in DOMAIN queue : \A z : j # i /\ z \in Names(queue[j].parts) => z \in Waiting(queue) /\ z \notin Names(queue[i].parts)
  <2> SUFFICES ASSUME NEW j \in DOMAIN queue, NEW z, j # i, z \in Names(queue[j].parts)
               PROVE  z \in Waiting(queue) /\ z \notin Names(queue[i].parts)
    BY Zenon
  <2>1. Names(queue[j].parts) \cap Names(queue[i].parts) = {}
    BY Zenon DEF Apart
  <2> QED
    BY Zenon, <2>1, WaitingIn
<1>4. ASSUME NEW j \in DOMAIN q, NEW k \in DOMAIN q, j # k, NEW z, z \in Names(q[j].parts), z \in Names(q[k].parts)
      PROVE  FALSE
  <2>1. CASE j = i
    BY Zenon, <1>1, <1>3, <1>4, <2>1
  <2>2. CASE k = i
    BY Zenon, <1>1, <1>3, <1>4, <2>2
  <2>3. CASE j # i /\ k # i
    BY Zenon, <1>1, <1>4, <2>3 DEF Apart
  <2> QED
    BY Zenon, <2>1, <2>2, <2>3
<1>5. \A j, k \in DOMAIN q : j # k => Names(q[j].parts) \cap Names(q[k].parts) = {}
  BY Zenon, <1>4
<1>6. ASSUME NEW z
      PROVE  z \in Waiting(q) <=> z \in Names(r.parts) \/ (z \in Waiting(queue) /\ z \notin Names(queue[i].parts))
  <2>1. ASSUME z \in Waiting(q)
        PROVE  z \in Names(r.parts) \/ (z \in Waiting(queue) /\ z \notin Names(queue[i].parts))
    <3>1. PICK j \in DOMAIN q : z \in Names(q[j].parts)
      BY Zenon, <2>1, WaitingIn
    <3> QED
      BY Zenon, <1>1, <1>3, <3>1
  <2>2. ASSUME z \in Names(r.parts) PROVE z \in Waiting(q)
    <3>1. z \in Names(q[i].parts) /\ i \in DOMAIN q
      BY Zenon, <1>1, <2>2
    <3> QED
      BY Zenon, <3>1, WaitingIn
  <2>3. ASSUME z \in Waiting(queue), z \notin Names(queue[i].parts) PROVE z \in Waiting(q)
    <3>1. PICK j \in DOMAIN queue : z \in Names(queue[j].parts)
      BY Zenon, <2>3, WaitingIn
    <3>2. j \in DOMAIN q /\ z \in Names(q[j].parts)
      BY Zenon, <1>1, <2>3, <3>1
    <3> QED
      BY Zenon, <3>2, WaitingIn
  <2> QED
    BY Zenon, <2>1, <2>2, <2>3
<1> QED
  BY Zenon, <1>2, <1>5, <1>6 DEF Apart, q

\* The first response leaves the queue.
LEMMA WaitingTail ==
  ASSUME NEW queue \in Seq(Responses), queue # <<>>, Apart(queue)
  PROVE  /\ Apart(Tail(queue))
         /\ \A z : z \in Waiting(Tail(queue)) <=> z \in Waiting(queue) /\ z \notin Names(queue[1].parts)
<1> DEFINE q == Tail(queue)
           at(i) == i + 1
<1>1. /\ \A i \in DOMAIN q : at(i) \in DOMAIN queue /\ q[i] = queue[at(i)] /\ at(i) # 1
      /\ \A j \in DOMAIN queue : j # 1 => \E i \in DOMAIN q : j = at(i)
      /\ \A i, j \in DOMAIN q : i # j => at(i) # at(j)
      /\ 1 \in DOMAIN queue
  <2>1. /\ Len(queue) \in Nat /\ Len(queue) # 0 /\ DOMAIN queue = 1 .. Len(queue)
        /\ DOMAIN q = 1 .. Len(queue) - 1 /\ \A i \in DOMAIN q : q[i] = queue[at(i)]
    BY HeadTailProperties
  <2>2. ASSUME NEW j \in 1 .. Len(queue), j # 1
        PROVE  j - 1 \in 1 .. Len(queue) - 1 /\ j = at(j - 1)
    BY <2>1, <2>2
  <2>3. \A j \in DOMAIN queue : j # 1 => \E i \in DOMAIN q : j = at(i)
    BY Zenon, <2>1, <2>2
  <2> QED
    BY <2>1, <2>3
<1> HIDE DEF q, at
<1>2. \A i \in DOMAIN q : Distinct(q[i].parts)
  BY Zenon, <1>1 DEF Apart
<1>3. \A i, j \in DOMAIN q : i # j => Names(q[i].parts) \cap Names(q[j].parts) = {}
  BY ZenonT(60), <1>1 DEF Apart
<1>4. ASSUME NEW z
      PROVE  z \in Waiting(q) <=> z \in Waiting(queue) /\ z \notin Names(queue[1].parts)
  <2>1. ASSUME z \in Waiting(q) PROVE z \in Waiting(queue) /\ z \notin Names(queue[1].parts)
    <3>1. PICK i \in DOMAIN q : z \in Names(q[i].parts)
      BY Zenon, <2>1, WaitingIn
    <3>2. at(i) \in DOMAIN queue /\ at(i) # 1 /\ z \in Names(queue[at(i)].parts) /\ 1 \in DOMAIN queue
      BY Zenon, <1>1, <3>1
    <3>3. Names(queue[at(i)].parts) \cap Names(queue[1].parts) = {}
      BY Zenon, <3>2 DEF Apart
    <3> QED
      BY Zenon, <3>2, <3>3, WaitingIn
  <2>2. ASSUME z \in Waiting(queue), z \notin Names(queue[1].parts) PROVE z \in Waiting(q)
    <3>1. PICK j \in DOMAIN queue : z \in Names(queue[j].parts)
      BY Zenon, <2>2, WaitingIn
    <3>2. PICK i \in DOMAIN q : j = at(i)
      BY Zenon, <1>1, <2>2, <3>1
    <3>3. z \in Names(q[i].parts)
      BY Zenon, <1>1, <3>1, <3>2
    <3> QED
      BY Zenon, <3>3, WaitingIn
  <2> QED
    BY Zenon, <2>1, <2>2
<1> QED
  BY Zenon, <1>2, <1>3, <1>4 DEF Apart, q

\* A part offered is a new one.
LEMMA OfferedNext ==
  ASSUME Typed, NEW part \in PartSet, Offer(part)
  PROVE  Name(part) \notin Offered(offered) /\ Offered(offered') = Offered(offered) \cup {Name(part)}
<1>1. /\ part.req \in Requests /\ part.n \in 1 .. MaxParts /\ part.n = offered[part.req] + 1
      /\ offered' = [offered EXCEPT ![part.req] = part.n] /\ offered \in [Requests -> 0 .. MaxParts]
  BY Zenon, OfferFacts DEF Typed
<1>2. Name(part) \in Requests \X (1 .. MaxParts) /\ Name(part)[1] = part.req /\ Name(part)[2] = part.n
  BY Zenon, <1>1 DEF Name
<1>3. offered[part.req] \in 0 .. MaxParts /\ MaxParts \in Nat
  BY <1>1, PipelineAssumption
<1>4. ~(part.n <= offered[part.req]) /\ part.n <= part.n
  BY <1>1, <1>3
<1>5. ASSUME NEW r \in Requests, NEW n \in 1 .. MaxParts
      PROVE  n <= offered'[r] <=> n <= offered[r] \/ (r = part.req /\ n = part.n)
  <2>1. CASE r = part.req
    <3>1. offered'[r] = part.n
      BY Zenon, <1>1, <2>1
    <3> QED
      BY <1>1, <1>3, <2>1, <3>1
  <2>2. CASE r # part.req
    BY Zenon, <1>1, <2>2
  <2> QED
    BY Zenon, <2>1, <2>2
<1>6. ASSUME NEW p \in Requests \X (1 .. MaxParts)
      PROVE  p[2] <= offered'[p[1]] <=> p[2] <= offered[p[1]] \/ p = Name(part)
  <2>1. p[1] \in Requests /\ p[2] \in 1 .. MaxParts /\ p = <<p[1], p[2]>>
    BY <1>6
  <2>2. p = Name(part) <=> p[1] = part.req /\ p[2] = part.n
    BY Zenon, <1>2, <2>1 DEF Name
  <2> QED
    BY Zenon, <1>5, <2>1, <2>2
<1> QED
  BY Zenon, <1>2, <1>4, <1>6 DEF Offered

LEMMA QueuedIsWaiting == Queued = Waiting(ResponseQueue)
<1>1. /\ DOMAIN Live = 1 .. m_elements_exists /\ DOMAIN ResponseQueue = 1 .. m_elements_exists
      /\ \A i \in 1 .. m_elements_exists : ResponseQueue[i] = ResponseOf(Live[i])
  BY Zenon DEF Live, ResponseQueue
<1>2. \A i \in 1 .. m_elements_exists : ResponseQueue[i].parts = PartsOf(Live[i])
  <2>1. \A ctx : ResponseOf(ctx).parts = PartsOf(ctx)
    BY Zenon DEF ResponseOf
  <2> QED
    BY Zenon, <1>1, <2>1
<1> QED
  BY Zenon, <1>1, <1>2 DEF Queued, Waiting

LEMMA WaitingEmpty == Waiting(<<>>) = {} /\ Apart(<<>>)
<1>1. DOMAIN <<>> = {}
  OBVIOUS
<1> QED
  BY Zenon, <1>1 DEF Waiting, Apart

LEMMA InitConserved == Init => Conserved
<1> SUFFICES ASSUME Init PROVE Conserved
  OBVIOUS
<1>1. ResponseQueue = <<>> /\ out = <<>>
  BY Zenon, RefinedInit DEF Fifo!Init
<1>2. dropped = {} /\ offered = [r \in Requests |-> 0]
  BY Zenon DEF Init
<1>3. ASSUME NEW p \in Requests \X (1 .. MaxParts) PROVE ~(p[2] <= offered[p[1]])
  <2>1. p[1] \in Requests /\ p[2] \in 1 .. MaxParts
    OBVIOUS
  <2>2. offered[p[1]] = 0
    BY Zenon, <1>2, <2>1
  <2> QED
    BY <2>1, <2>2
<1>4. Offered(offered) = {}
  BY Zenon, <1>3 DEF Offered
<1> QED
  BY Zenon, <1>1, <1>2, <1>4, NamesEmpty, WaitingEmpty DEF Conserved

LEMMA RegisterConserved ==
  ASSUME MaxRequests <= IdModulus, IInv, Conserved, Register
  PROVE  Conserved'
<1> DEFINE new == [id |-> registered, parts |-> <<>>, final |-> FALSE, close |-> FALSE]
<1>1. ResponseQueue' = Append(ResponseQueue, new)
  BY Zenon, RegisterQueue
<1>2. ResponseQueue \in Seq(Responses)
  BY Zenon, RegisterStep, Queues
<1>3. new \in Responses /\ new.parts = <<>>
  <2>1. registered \in 0 .. IdModulus - 1
    BY CoordinatorAssumption, PipelineAssumption DEF IInv, Shape, Register
  <2>2. <<>> \in Seq(PartSet)
    OBVIOUS
  <2> QED
    BY Zenon, <2>1, <2>2 DEF Responses
<1> HIDE DEF new
<1>4. Waiting(ResponseQueue') = Waiting(ResponseQueue) /\ Apart(ResponseQueue')
  BY Zenon, <1>1, <1>2, <1>3, WaitingAppend DEF Conserved
<1>5. UNCHANGED <<offered, out, dropped>>
  BY Zenon DEF Register
<1> QED
  BY Zenon, <1>4, <1>5 DEF Conserved

LEMMA RespondConserved ==
  ASSUME MaxRequests <= IdModulus, IInv, Typed, Conserved, NEW part \in PartSet, RespondPart(part)
  PROVE  Conserved'
<1>1. PICK i \in DOMAIN ResponseQueue, final \in BOOLEAN, close \in BOOLEAN :
        ResponseQueue' = [ResponseQueue EXCEPT ![i] =
          [id |-> ResponseQueue[i].id, parts |-> Append(ResponseQueue[i].parts, part),
           final |-> final, close |-> close]]
  BY Zenon, RespondQueue
<1> DEFINE parts == ResponseQueue[i].parts
           r == [id |-> ResponseQueue[i].id, parts |-> Append(parts, part), final |-> final, close |-> close]
<1>2. ResponseQueue \in Seq(Responses)
  BY Zenon, RespondStep, Queues
<1>3. ResponseQueue[i] \in Responses
  BY <1>2, ElementOfSeq
<1>4. parts \in Seq(PartSet) /\ ResponseQueue[i].id \in 0 .. IdModulus - 1
  BY Zenon, <1>3 DEF Responses
<1>5. Append(parts, part) \in Seq(PartSet)
  BY <1>4, AppendProperties
<1>6. r \in Responses /\ r.parts = Append(parts, part)
  BY Zenon, <1>4, <1>5 DEF Responses
<1>7. Offer(part) /\ UNCHANGED <<out, dropped>>
  BY Zenon DEF RespondPart
<1>8. Name(part) \notin Offered(offered) /\ Offered(offered') = Offered(offered) \cup {Name(part)}
  BY Zenon, <1>7, OfferedNext
<1>9. Name(part) \notin Waiting(ResponseQueue) /\ \A z \in Names(parts) : z \in Waiting(ResponseQueue)
  BY Zenon, <1>8, WaitingIn DEF Conserved
<1>10. Names(r.parts) = Names(parts) \cup {Name(part)} /\ Distinct(r.parts)
  BY Zenon, <1>4, <1>6, <1>9, NamesAppend DEF Conserved, Apart
<1> HIDE DEF parts, r
<1>11. Apart(ResponseQueue) /\ ResponseQueue' = [ResponseQueue EXCEPT ![i] = r]
  BY Zenon, <1>1 DEF Conserved, r, parts
<1>12. \A z \in Names(r.parts) : z \in Waiting(ResponseQueue) => z \in Names(ResponseQueue[i].parts)
  BY Zenon, <1>9, <1>10 DEF parts
<1>13. /\ Apart(ResponseQueue')
       /\ \A z : z \in Waiting(ResponseQueue') <=>
                   z \in Names(r.parts) \/ (z \in Waiting(ResponseQueue) /\ z \notin Names(ResponseQueue[i].parts))
  BY Zenon, <1>2, <1>6, <1>10, <1>11, <1>12, WaitingReplace
<1>14. \A z : z \in Waiting(ResponseQueue') <=> z \in Waiting(ResponseQueue) \/ z = Name(part)
  BY Zenon, <1>9, <1>10, <1>13 DEF parts
<1>15. Waiting(ResponseQueue') = Waiting(ResponseQueue) \cup {Name(part)}
  BY Zenon, <1>14
<1> QED
  BY ZenonT(60), <1>7, <1>8, <1>13, <1>15 DEF Conserved

LEMMA RefusedConserved ==
  ASSUME Typed, Conserved, NEW part \in PartSet, RespondRefused(part)
  PROVE  Conserved'
<1>1. Offer(part) /\ dropped' = dropped \cup {Name(part)} /\ UNCHANGED <<coordinatorVars, out>>
  BY Zenon DEF RespondRefused, Name
<1>2. Name(part) \notin Offered(offered) /\ Offered(offered') = Offered(offered) \cup {Name(part)}
  BY Zenon, <1>1, OfferedNext
<1>3. ResponseQueue' = ResponseQueue
  BY <1>1 DEF coordinatorVars, ResponseQueue, Live, Cell, ResponseOf
<1> QED
  BY Zenon, <1>1, <1>2, <1>3 DEF Conserved

LEMMA WriteConserved ==
  ASSUME IInv, Typed, Conserved, Write
  PROVE  Conserved'
<1> DEFINE first == ResponseQueue[1]
<1>1. PICK rest \in Seq(PartSet) :
        /\ ResponseQueue # <<>>
        /\ ready_group \in Seq(PartSet)
        /\ first.parts = ready_group \o rest
        /\ IF rest = <<>> /\ first.final
             THEN ResponseQueue' = Tail(ResponseQueue)
             ELSE ResponseQueue' = [ResponseQueue EXCEPT ![1] =
                    [id |-> first.id, parts |-> rest, final |-> first.final, close |-> first.close]]
  BY Zenon, WriteQueue DEF Typed
<1> DEFINE r == [id |-> first.id, parts |-> rest, final |-> first.final, close |-> first.close]
<1>2. ResponseQueue \in Seq(Responses)
  BY Zenon, WriteStep, Queues
<1>3. 1 \in DOMAIN ResponseQueue /\ first \in Responses
  BY <1>1, <1>2
<1>4. r \in Responses /\ r.parts = rest
  BY Zenon, <1>3 DEF Responses
<1>5. Apart(ResponseQueue) /\ Distinct(first.parts)
  BY Zenon, <1>3 DEF Conserved, Apart
<1>6. /\ Names(first.parts) = Names(ready_group) \cup Names(rest)
      /\ Distinct(ready_group) /\ Distinct(rest) /\ Names(ready_group) \cap Names(rest) = {}
  <2>1. /\ Names(ready_group \o rest) = Names(ready_group) \cup Names(rest)
        /\ Distinct(ready_group \o rest) <=>
             Distinct(ready_group) /\ Distinct(rest) /\ Names(ready_group) \cap Names(rest) = {}
    BY ONLY Zenon, <1>1, NamesConcat
  <2> QED
    BY Zenon, <1>1, <1>5, <2>1
<1>7. \A z \in Names(first.parts) : z \in Waiting(ResponseQueue)
  BY Zenon, <1>3, WaitingIn
<1> HIDE DEF first, r
<1>8. Apart(ResponseQueue') /\ \A z : z \in Waiting(ResponseQueue') <=>
                                        z \in Waiting(ResponseQueue) /\ z \notin Names(ready_group)
  <2>1. CASE rest = <<>> /\ first.final
    <3>1. Names(first.parts) = Names(ready_group)
      BY Zenon, <1>6, <2>1, NamesEmpty
    <3>2. /\ Apart(ResponseQueue')
          /\ \A z : z \in Waiting(ResponseQueue') <=> z \in Waiting(ResponseQueue) /\ z \notin Names(first.parts)
      BY Zenon, <1>1, <1>2, <1>5, <2>1, WaitingTail DEF first
    <3> QED
      BY Zenon, <3>1, <3>2
  <2>2. CASE ~(rest = <<>> /\ first.final)
    <3>1. ResponseQueue' = [ResponseQueue EXCEPT ![1] = r]
      BY Zenon, <1>1, <2>2 DEF r, first
    <3>2. \A z \in Names(r.parts) : z \in Waiting(ResponseQueue) => z \in Names(ResponseQueue[1].parts)
      BY Zenon, <1>4, <1>6 DEF first
    <3>3. /\ Apart(ResponseQueue')
          /\ \A z : z \in Waiting(ResponseQueue') <=>
                      z \in Names(r.parts) \/ (z \in Waiting(ResponseQueue) /\ z \notin Names(ResponseQueue[1].parts))
      BY Zenon, <1>2, <1>3, <1>4, <1>5, <1>6, <3>1, <3>2, WaitingReplace
    <3> QED
      BY Zenon, <1>4, <1>6, <1>7, <3>3 DEF first
  <2> QED
    BY Zenon, <2>1, <2>2
<1>9. out' = out \o ready_group /\ UNCHANGED <<offered, dropped>> /\ out \in Seq(PartSet)
  BY DEF Write, Typed
<1>10. \A z \in Names(ready_group) : z \in Waiting(ResponseQueue)
  BY Zenon, <1>6, <1>7
<1>11. Names(out') = Names(out) \cup Names(ready_group) /\ Distinct(out')
  <2>1. Names(out) \cap Names(ready_group) = {} /\ Distinct(out)
    BY Zenon, <1>10 DEF Conserved
  <2>2. /\ Names(out \o ready_group) = Names(out) \cup Names(ready_group)
        /\ Distinct(out \o ready_group) <=>
             Distinct(out) /\ Distinct(ready_group) /\ Names(out) \cap Names(ready_group) = {}
    BY Zenon, <1>1, <1>9, NamesConcat
  <2> QED
    BY Zenon, <1>6, <1>9, <2>1, <2>2
<1>12. /\ Names(out') \cap Waiting(ResponseQueue') = {} /\ Names(out') \cap dropped = {}
       /\ Waiting(ResponseQueue') \cap dropped = {}
  BY Zenon, <1>8, <1>10, <1>11 DEF Conserved
<1>13. Names(out') \cup Waiting(ResponseQueue') \cup dropped = Names(out) \cup Waiting(ResponseQueue) \cup dropped
  BY Zenon, <1>8, <1>10, <1>11
<1> QED
  BY Zenon, <1>8, <1>9, <1>11, <1>12, <1>13 DEF Conserved

LEMMA ResetConserved ==
  ASSUME IInv, Conserved, Reset
  PROVE  Conserved'
<1>1. ResponseQueue' = <<>>
  BY Zenon, ResetQueue
<1>2. dropped' = dropped \cup Waiting(ResponseQueue) /\ UNCHANGED <<offered, out>>
  BY Zenon, QueuedIsWaiting DEF Reset
<1>3. Waiting(ResponseQueue') = {} /\ Apart(ResponseQueue')
  BY Zenon, <1>1, WaitingEmpty
<1>4. Names(out) \cap dropped' = {} /\ Names(out) \cup dropped' = Offered(offered)
  BY Zenon, <1>2 DEF Conserved
<1> QED
  BY Zenon, <1>2, <1>3, <1>4 DEF Conserved

LEMMA NextConserved ==
  ASSUME MaxRequests <= IdModulus, IInv, Typed, Conserved, [Next]_vars
  PROVE  Conserved'
<1>1. CASE UNCHANGED vars
  <2>1. ResponseQueue' = ResponseQueue /\ UNCHANGED <<offered, out, dropped>>
    BY <1>1 DEF vars, coordinatorVars, ResponseQueue, Live, Cell, ResponseOf
  <2> QED
    BY Zenon, <2>1 DEF Conserved
<1> QED
  BY Zenon, <1>1, RegisterConserved, RespondConserved, RefusedConserved, WriteConserved, ResetConserved DEF Next

\* Nothing a handler offers is lost or sent twice: at every moment each part
\* offered is in exactly one of the ring, the parts taken by the writer and the
\* parts dropped with an error, for a ring of any size and any number of
\* handlers and parts.
THEOREM PartsAreConserved ==
  ASSUME MaxRequests <= IdModulus
  PROVE  Spec => []PartsConserved
<1>1. IInv /\ Typed /\ Conserved => PartsConserved
  BY Zenon, QueuedIsWaiting DEF Conserved, PartsConserved, Offered, Distinct, Name
<1>2. IInv /\ Typed /\ Conserved /\ [Next]_vars => Conserved'
  BY NextConserved
<1> QED
  BY <1>1, <1>2, InitConserved, SpecIInv, SpecTyped, PTL DEF Spec
=============================================================================
