----------------------------- MODULE Connection -----------------------------
(***************************************************************************)
(* restinio::impl::connection_t with its response coordinator, its write   *)
(* group output context, its timeout guard and its HTTP input.             *)
(*                                                                         *)
(* All handlers of a connection run on one strand, one at a time, but they *)
(* call each other deeply: the end of a write resumes reading, which finds *)
(* a pipelined request in the buffer, which calls the user's handler,      *)
(* which responds at once, which starts a write.  The variable stack is    *)
(* the strand's call stack: its head is the call to be made next, and each *)
(* action makes one call.  A frame "catch" marks the catch clause of the   *)
(* function that the frames before it belong to; every one of them calls   *)
(* trigger_error_and_close.                                                *)
(*                                                                         *)
(* A completed operation of asio is queued before its handler runs: read   *)
(* and write hold the outcome meanwhile.                                   *)
(***************************************************************************)
EXTENDS ResponseCoordinator

CONSTANTS
  Plans,         \* what a client may send: a set of sequences of message kinds
  MaxChunk,      \* bound: half messages obtained by one read
  MaxRequests,   \* bound: requests registered
  MaxParts,      \* bound: parts of one response
  ItemLists,     \* what a part may consist of: sequences of "buf" and "file"
  MaxIov,        \* max_iov_len(): buffers written by one operation
  Notificators,  \* may a part have an after-write notificator?
  Faults         \* which operations may fail

ASSUME ConnectionAssumption ==
  /\ MaxChunk \in Nat \ {0}
  /\ MaxRequests \in Nat
  /\ MaxRequests < IdModulus
  /\ MaxParts \in Nat \ {0}
  /\ MaxIov \in Nat \ {0}
  /\ Plans \subseteq Seq({"plain", "upgrade", "bad"})
  /\ ItemLists \subseteq Seq({"buf", "file"})
  /\ Notificators \subseteq BOOLEAN
  /\ Faults \subseteq {"read", "write", "handler", "notificator"}

VARIABLES
  socket,                         \* "open", "closed", "moved" (to a websocket)
  stack,
  m_buf,                          \* unparsed input: a sequence of half messages
  parser,                         \* how far m_parser is, and with what message
  read,                           \* the asynchronous read operation
  m_connection_upgrade_stage,
  m_current_wg,                   \* the parts of the group in transmission
  m_next_writable_item_index,
  m_init_read_after_this_write,
  write,                          \* the asynchronous write operation
  m_current_timeout_cb,
  timer,                          \* m_timer_guard: "off", "on", "queued"
  client,                         \* what the client sends, and has sent
  answer,                         \* what the handler of each request is doing
  given,                          \* history: parts given for each request
  wire,                           \* history: the parts written to the socket
  owed,                           \* history: calls that each notificator has to get
  completed,                      \* history: requests the parser completed
  handled                         \* history: the kinds of the requests handed to the handler

inputVars == <<m_buf, parser, read, m_connection_upgrade_stage>>
outputVars == <<m_current_wg, m_next_writable_item_index, m_init_read_after_this_write, write>>
timeVars == <<m_current_timeout_cb, timer>>
userVars == <<answer, given>>
historyVars == <<wire, owed, completed, handled>>
vars == <<coordinatorVars, socket, stack, inputVars, outputVars, timeVars, client, userVars, historyVars>>

Requests == 0 .. MaxRequests - 1

\* A message arrives in one piece or in two: it consists of two halves.
Stream(plan) ==
  [i \in 1 .. 2 * Len(plan) |->
     [kind |-> plan[(i + 1) \div 2], half |-> IF i % 2 = 1 THEN "first" ELSE "second"]]

\* m_parser after reset_parser().
Fresh == [st |-> "start", kind |-> "plain"]

\* init(): timeout checking is started, and then wait_for_http_message.
Init ==
  /\ CoordinatorInit
  /\ socket = "open"
  /\ stack = <<<<"wait_for_http_message">>>>
  /\ m_buf = <<>>
  /\ parser = Fresh
  /\ read = [op |-> "idle", data |-> <<>>]
  /\ m_connection_upgrade_stage = "none"
  /\ m_current_wg = <<>>
  /\ m_next_writable_item_index = 0
  /\ m_init_read_after_this_write = FALSE
  /\ write = [op |-> "idle", from |-> 0]
  /\ m_current_timeout_cb = "none"
  /\ timer = "on"
  /\ \E plan \in Plans : client = [plan |-> plan, sent |-> 0]
  /\ answer = [r \in Requests |-> "none"]
  /\ given = [r \in Requests |-> 0]
  /\ wire = <<>>
  /\ owed = [p \in Requests \X (1 .. MaxParts) |-> 0]
  /\ completed = 0
  /\ handled = <<>>
-----------------------------------------------------------------------------
\* The call on top of the stack is op.
Calls(op) == stack # <<>> /\ Head(stack)[1] = op

\* The frames without the catch clauses on top, whose functions have returned.
Returned(frames) ==
  LET open == {i \in DOMAIN frames : frames[i][1] # "catch"}
      top == CHOOSE i \in open : \A j \in open : i <= j
  IN  IF open = {} THEN <<>> ELSE SubSeq(frames, top, Len(frames))

\* It calls these functions, in this order, and returns.
Run(frames) == stack' = Returned(frames \o Tail(stack))

\* It throws: the frames up to the innermost catch clause are gone.
Throw ==
  LET rest == Tail(stack)
      k == CHOOSE i \in DOMAIN rest : rest[i][1] = "catch" /\ \A j \in 1 .. i - 1 : rest[j][1] # "catch"
  IN  stack' = <<<<"close">>>> \o SubSeq(rest, k + 1, Len(rest))

transmitting == m_current_wg # <<>>

\* Operations started on a socket that is not open fail at once.
Started == IF socket = "open" THEN "pending" ELSE "error"

\* consume_message: start a read unless one is running.
consume_message ==
  read' = IF read.op = "idle" THEN [read EXCEPT !.op = Started] ELSE read

\* Faulty variant: the notificator is not cleared when it is called, so that
\* the destructor of the write group calls it again.
NotifyAgain(groups) ==
  owed' = [p \in DOMAIN owed |->
                 IF \E g \in groups : g # <<>> /\ has_after_write_notificator(g)
                                      /\ p = <<g[Len(g)].req, g[Len(g)].n>>
                   THEN owed[p] - 2 ELSE owed[p]]

\* invoke_after_write_notificator_if_exists, for each of these write groups.
Notify(groups) ==
  owed' = [p \in DOMAIN owed |->
                 IF \E g \in groups : g # <<>> /\ has_after_write_notificator(g)
                                      /\ p = <<g[Len(g)].req, g[Len(g)].n>>
                   THEN owed[p] - 1 ELSE owed[p]]
-----------------------------------------------------------------------------
(* Reading. *)

\* guard_read_operation.
guard_read_operation ==
  m_current_timeout_cb' = IF empty THEN "read" ELSE m_current_timeout_cb

wait_for_http_message ==
  /\ Calls("wait_for_http_message")
  /\ parser' = Fresh
  /\ guard_read_operation
  /\ IF m_buf # <<>>
       THEN Run(<<<<"consume_data">>>>) /\ UNCHANGED read
       ELSE Run(<<>>) /\ consume_message
  /\ UNCHANGED <<coordinatorVars, socket, m_buf, m_connection_upgrade_stage, outputVars, timer, client,
                 userVars, historyVars>>

\* http_parser_execute on the buffer: how many halves it takes, and where it
\* is then.  It stops after a complete message.  The second half of a message
\* without the first is an error.
Parsed ==
  IF parser.st = "complete" THEN [taken |-> 0, parser |-> parser]
  ELSE IF m_buf[1].kind = "bad" \/ (parser.st = "start") # (m_buf[1].half = "first")
    THEN [taken |-> 0, parser |-> [st |-> "error", kind |-> "plain"]]
  ELSE IF parser.st = "partial" THEN [taken |-> 1, parser |-> [parser EXCEPT !.st = "complete"]]
  ELSE IF Len(m_buf) = 1 THEN [taken |-> 1, parser |-> [st |-> "partial", kind |-> m_buf[1].kind]]
  ELSE [taken |-> 2, parser |-> [st |-> "complete", kind |-> m_buf[1].kind]]

consume_data ==
  /\ Calls("consume_data")
  /\ parser' = Parsed.parser
  /\ m_buf' = SubSeq(m_buf, Parsed.taken + 1, Len(m_buf))
  /\ CASE parser'.st = "error" -> Run(<<<<"close">>>>) /\ UNCHANGED <<read, completed>>
       [] parser'.st = "complete" ->
            /\ Run(<<<<"on_request_message_complete">>, <<"catch">>>>)
            /\ completed' = completed + 1
            /\ UNCHANGED read
       [] OTHER -> Run(<<>>) /\ consume_message /\ UNCHANGED completed
  /\ UNCHANGED <<coordinatorVars, socket, m_connection_upgrade_stage, outputVars, timeVars, client, userVars,
                 wire, owed, handled>>

\* after_read(ec, length): the completion handler of the read.
after_read ==
  /\ stack = <<>>
  /\ read.op \in {"ok", "error", "aborted"}
  /\ stack' = CASE read.op = "ok" -> <<<<"consume_data">>, <<"catch">>>>
                [] read.op = "error" -> <<<<"close">>>>
                [] OTHER -> <<>>
  /\ m_buf' = IF read.op = "ok" THEN read.data ELSE m_buf
  /\ read' = [op |-> "idle", data |-> <<>>]
  /\ UNCHANGED <<coordinatorVars, socket, parser, m_connection_upgrade_stage, outputVars, timeVars, client,
                 userVars, historyVars>>
-----------------------------------------------------------------------------
(* Requests. *)

\* guard_request_handling_operation.
guard_request_handling_operation ==
  m_current_timeout_cb' = IF transmitting THEN m_current_timeout_cb ELSE "handle"

\* An ordinary request: registered and handed to the request handler.
PlainRequest ==
  /\ m_connection_upgrade_stage = "none" /\ parser.kind = "plain"
  /\ IF is_full
       THEN /\ Throw
            /\ UNCHANGED <<coordinatorVars, timeVars, answer, handled>>
       ELSE /\ m_request_id_counter < MaxRequests
            /\ register_new_request
            /\ guard_request_handling_operation
            /\ answer' = [answer EXCEPT ![m_request_id_counter] = "running"]
            /\ handled' = Append(handled, "plain")
            /\ Run(<<<<"m_request_handler", m_request_id_counter, "plain">>>>)
            /\ UNCHANGED timer
  /\ UNCHANGED m_connection_upgrade_stage

\* A request to upgrade waits until it is the only one.
UpgradeRequest ==
  /\ ~(m_connection_upgrade_stage = "none" /\ parser.kind = "plain")
  /\ m_connection_upgrade_stage' = IF parser.kind = "upgrade" THEN "pending" ELSE m_connection_upgrade_stage
  /\ Run(IF empty THEN <<<<"handle_upgrade_request">>>> ELSE <<>>)
  /\ UNCHANGED <<coordinatorVars, timeVars, answer, handled>>

on_request_message_complete ==
  /\ Calls("on_request_message_complete")
  /\ PlainRequest \/ UpgradeRequest
  /\ UNCHANGED <<socket, m_buf, parser, read, outputVars, client, given, wire, owed, completed>>

\* cancel_timeout_checking: a check that is queued already still runs.
cancel_timeout_checking ==
  /\ m_current_timeout_cb' = "none"
  /\ timer' = IF timer = "on" THEN "off" ELSE timer

handle_upgrade_request ==
  /\ Calls("handle_upgrade_request")
  /\ IF is_full
       THEN /\ Throw
            /\ UNCHANGED <<coordinatorVars, timeVars, m_connection_upgrade_stage, answer, handled>>
       ELSE /\ m_request_id_counter < MaxRequests
            /\ register_new_request
            /\ cancel_timeout_checking
            /\ m_connection_upgrade_stage' = "wait_for_result"
            /\ answer' = [answer EXCEPT ![m_request_id_counter] = "running"]
            /\ handled' = Append(handled, "upgrade")
            /\ Run(<<<<"m_request_handler", m_request_id_counter, "upgrade">>>>)
  /\ UNCHANGED <<socket, m_buf, parser, read, outputVars, client, given, wire, owed, completed>>
-----------------------------------------------------------------------------
(* The user's request handler, which may respond before it returns, and    *)
(* later if it accepts the request.                                        *)

\* The next part of the response to a request; the first has the status line.
\* final and close are its response_output_flags.
Part(id, notif, items, final, close_attr) ==
  [req |-> id, n |-> given[id] + 1, status |-> given[id] = 0, notif |-> notif, items |-> items,
   final |-> final, close |-> close_attr]

Give(part) ==
  /\ given' = [given EXCEPT ![part.req] = part.n]
  /\ owed' = [owed EXCEPT ![<<part.req, part.n>>] = IF part.notif THEN 1 ELSE 0]

\* A call of write_response_parts, and the calls that follow it.  The flag
\* connection-close only matters in final parts.  The handler of an upgrade
\* request may respond like any other, and keep the connection ("kept").
Respond(id, upgrade, rest) ==
  \E notif \in Notificators, items \in ItemLists, final, close_attr \in BOOLEAN :
    /\ given[id] < MaxParts
    /\ given[id] + 1 = MaxParts => final
    /\ close_attr => final
    /\ Give(Part(id, notif, items, final, close_attr))
    /\ stack' = <<<<"write_response_parts_impl", Part(id, notif, items, final, close_attr)>>, <<"catch">>>>
                \o rest
    /\ answer' = [answer EXCEPT ![id] = IF ~final THEN @ ELSE IF upgrade /\ ~close_attr THEN "kept" ELSE "ended"]

\* create_not_implemented_resp.
NotImplemented(id) == Part(id, FALSE, <<"buf">>, TRUE, TRUE)

HandlerResponds ==
  LET id == Head(stack)[2]
      kind == Head(stack)[3]
  IN  /\ answer[id] = "running"
      /\ Respond(id, kind = "upgrade", stack)
      /\ UNCHANGED socket

\* restinio::websocket::basic::upgrade moves the socket out.
HandlerUpgrades ==
  LET id == Head(stack)[2]
      kind == Head(stack)[3]
  IN  /\ kind = "upgrade" /\ answer[id] = "running" /\ given[id] = 0 /\ socket = "open"
      /\ socket' = "moved"
      /\ answer' = [answer EXCEPT ![id] = "ended"]
      /\ UNCHANGED <<stack, given, owed>>

HandlerAccepts ==
  LET id == Head(stack)[2]
      kind == Head(stack)[3]
  IN  /\ answer' = [answer EXCEPT ![id] = IF @ \in {"ended", "kept"} THEN @
                                          ELSE IF kind = "plain" THEN "accepted" ELSE "upgrading"]
      /\ Run(IF kind = "plain" /\ is_able_to_get_more_messages THEN <<<<"wait_for_http_message">>>> ELSE <<>>)
      /\ UNCHANGED <<socket, given, owed>>

HandlerRejects ==
  LET id == Head(stack)[2]
      kind == Head(stack)[3]
  IN  /\ given[id] = 0 /\ answer[id] = "running"
      /\ answer' = [answer EXCEPT ![id] = "ended"]
      /\ IF kind = "plain" \/ socket = "open"
           THEN /\ Run(<<<<"write_response_parts_impl", NotImplemented(id)>>>>)
                /\ Give(NotImplemented(id))
           ELSE Run(<<>>) /\ UNCHANGED <<given, owed>>
      /\ UNCHANGED socket

HandlerThrows ==
  /\ "handler" \in Faults
  /\ Throw
  /\ answer' = [answer EXCEPT ![Head(stack)[2]] = IF @ = "kept" THEN @ ELSE "ended"]
  /\ UNCHANGED <<socket, given, owed>>

m_request_handler ==
  /\ Calls("m_request_handler")
  /\ \/ HandlerResponds
     \/ HandlerUpgrades
     \/ HandlerAccepts
     \/ HandlerRejects
     \/ HandlerThrows
  /\ UNCHANGED <<coordinatorVars, inputVars, outputVars, timeVars, client, wire, completed, handled>>

\* Later, the handler responds from another thread.
LateResponse(id) ==
  /\ stack = <<>>
  /\ answer[id] \in {"accepted", "upgrading"}
  /\ Respond(id, answer[id] = "upgrading", <<>>)
  /\ UNCHANGED <<coordinatorVars, socket, inputVars, outputVars, timeVars, client, wire, completed, handled>>

LateUpgrade(id) ==
  /\ stack = <<>>
  /\ answer[id] = "upgrading" /\ given[id] = 0 /\ socket = "open"
  /\ socket' = "moved"
  /\ answer' = [answer EXCEPT ![id] = "ended"]
  /\ UNCHANGED <<coordinatorVars, stack, inputVars, outputVars, timeVars, client, given, historyVars>>
-----------------------------------------------------------------------------
(* Writing. *)

write_response_parts_impl ==
  /\ Calls("write_response_parts_impl")
  /\ LET part == Head(stack)[2]
         append == <<"append_response", part>>
     IN  IF socket = "open"
           THEN /\ Run(IF m_connection_upgrade_stage = "wait_for_result" /\ ~is_full
                         THEN <<<<"wait_for_http_message">>, append>> ELSE <<append>>)
                /\ UNCHANGED owed
           ELSE Run(<<>>) /\ Notify({<<part>>})
  /\ UNCHANGED <<coordinatorVars, socket, inputVars, outputVars, timeVars, client, userVars, wire, completed,
                 handled>>

\* The rest of write_response_parts_impl.  When append_response throws, the
\* destructor of the write group invokes the notificator.
AppendResponse ==
  /\ Calls("append_response")
  /\ LET part == Head(stack)[2]
     IN  IF CanAppend(part.req)
           THEN /\ append_response(part.req, part.final, part.close, part)
                /\ Run(<<<<"init_write_if_necessary">>>>)
                /\ UNCHANGED owed
           ELSE /\ Notify({<<part>>})
                /\ IF closed THEN Run(<<>>) ELSE Throw
                /\ UNCHANGED coordinatorVars
  /\ UNCHANGED <<socket, inputVars, outputVars, timeVars, client, userVars, wire, completed, handled>>

\* init_write with a group to write, and with nothing (handle_nothing_to_write).
init_write ==
  \/ /\ pop_ready_buffers
     /\ m_init_read_after_this_write' = (is_full /\ CompletesFront)
     /\ m_current_wg' = ready_group
     /\ Run(<<<<"handle_current_write_ctx">>, <<"catch">>>>)
     /\ UNCHANGED m_current_timeout_cb
  \/ /\ ~closed /\ ~HasReadyBuffers
     /\ IF empty THEN guard_read_operation ELSE guard_request_handling_operation
     /\ Run(<<>>)
     /\ UNCHANGED <<coordinatorVars, m_init_read_after_this_write, m_current_wg>>

\* Faulty variant: a group is started although one is being written.
InitWriteAlways ==
  /\ Calls("init_write_if_necessary")
  /\ init_write
  /\ UNCHANGED <<socket, inputVars, m_next_writable_item_index, write, timer, client, userVars, historyVars>>

init_write_if_necessary ==
  /\ Calls("init_write_if_necessary")
  /\ IF transmitting
       THEN /\ Run(<<>>)
            /\ UNCHANGED <<coordinatorVars, m_init_read_after_this_write, m_current_wg, m_current_timeout_cb>>
       ELSE init_write
  /\ UNCHANGED <<socket, inputVars, m_next_writable_item_index, write, timer, client, userVars, historyVars>>

\* The items of a part, with what a reader of the wire sees.
ItemsOf(part) ==
  [k \in 1 .. Len(part.items) |->
     [req |-> part.req, n |-> part.n, k |-> k, end |-> k = Len(part.items),
      final |-> part.final, close |-> part.close, type |-> part.items[k]]]

\* The items of the current write group.
Items ==
  LET lists == [p \in 1 .. Len(m_current_wg) |-> ItemsOf(m_current_wg[p])]
      upto[p \in 0 .. Len(lists)] == IF p = 0 THEN <<>> ELSE upto[p - 1] \o lists[p]
  IN  upto[Len(lists)]

\* prepare_trivial_buffers_wo: m_next_writable_item_index after it.
BufsEnd ==
  LET from == m_next_writable_item_index
  IN  CHOOSE to \in from + 1 .. Len(Items) :
        /\ to - from <= MaxIov
        /\ \A i \in from + 1 .. to : Items[i].type = "buf"
        /\ to = Len(Items) \/ to - from = MaxIov \/ Items[to + 1].type # "buf"

\* "Reading new requests is useless": m_socket.cancel.
cancel_read == read' = IF closed /\ read.op = "pending" THEN [read EXCEPT !.op = "aborted"] ELSE read

handle_trivial_write_operation ==
  /\ Items[m_next_writable_item_index + 1].type = "buf"
  /\ m_next_writable_item_index' = BufsEnd
  /\ m_current_timeout_cb' = "write"

handle_file_write_operation ==
  /\ Items[m_next_writable_item_index + 1].type = "file"
  /\ m_next_writable_item_index' = m_next_writable_item_index + 1
  /\ m_current_timeout_cb' = "sendfile"

handle_current_write_ctx ==
  /\ Calls("handle_current_write_ctx")
  /\ IF m_next_writable_item_index < Len(Items)
       THEN /\ handle_trivial_write_operation \/ handle_file_write_operation
            /\ cancel_read
            /\ write' = [op |-> Started, from |-> m_next_writable_item_index]
            /\ Run(<<>>)
       ELSE /\ Run(<<<<"finish_handling_current_write_ctx">>>>)
            /\ UNCHANGED <<m_next_writable_item_index, m_current_timeout_cb, read, write>>
  /\ UNCHANGED <<coordinatorVars, socket, m_buf, parser, m_connection_upgrade_stage, m_current_wg,
                 m_init_read_after_this_write, timer, client, userVars, historyVars>>

\* Faulty variant: the upgrade request is handled although others are not done.
AfterGroupUpgrades ==
  CASE closed -> <<<<"close">>>>
    [] ~closed /\ m_connection_upgrade_stage = "none" -> <<<<"init_write_if_necessary">>>>
    [] OTHER -> <<<<"handle_upgrade_request">>>>

\* Faulty variant: reading is not resumed after a full ring.
AfterGroupNoRead ==
  CASE closed -> <<<<"close">>>>
    [] ~closed /\ m_connection_upgrade_stage = "none" -> <<<<"init_write_if_necessary">>>>
    [] OTHER -> IF empty THEN <<<<"handle_upgrade_request">>>> ELSE <<<<"init_write_if_necessary">>>>

\* What follows a group that was written.
AfterGroup ==
  CASE closed -> <<<<"close">>>>
    [] ~closed /\ m_connection_upgrade_stage = "none" ->
         IF m_init_read_after_this_write
           THEN <<<<"wait_for_http_message">>, <<"init_write_if_necessary">>>>
           ELSE <<<<"init_write_if_necessary">>>>
    [] OTHER -> IF empty THEN <<<<"handle_upgrade_request">>>> ELSE <<<<"init_write_if_necessary">>>>

\* Faulty variant: the next group is started at the index where this one ended.
FinishKeepsIndex ==
  /\ Calls("finish_handling_current_write_ctx")
  /\ Notify({m_current_wg})
  /\ m_current_wg' = <<>>
  /\ Run(AfterGroup)
  /\ UNCHANGED <<coordinatorVars, socket, inputVars, m_next_writable_item_index, m_init_read_after_this_write,
                 write, timeVars, client, userVars, wire, completed, handled>>

\* finish_write_group; an exception of the notificator closes the connection.
finish_handling_current_write_ctx ==
  /\ Calls("finish_handling_current_write_ctx")
  /\ Notify({m_current_wg})
  /\ m_current_wg' = <<>>
  /\ m_next_writable_item_index' = 0
  /\ \/ Run(AfterGroup)
     \/ /\ "notificator" \in Faults /\ has_after_write_notificator(m_current_wg)
        /\ Throw
  /\ UNCHANGED <<coordinatorVars, socket, inputVars, m_init_read_after_this_write, write, timeVars, client,
                 userVars, wire, completed, handled>>

\* after_write(ec): the completion handler of a write.
after_write ==
  /\ stack = <<>>
  /\ write.op \in {"ok", "error", "aborted"}
  /\ stack' = CASE write.op = "ok" -> <<<<"handle_current_write_ctx">>, <<"catch">>>>
                [] write.op = "error" -> <<<<"close">>, <<"fail_write_group">>>>
                [] OTHER -> <<<<"fail_write_group">>>>
  /\ write' = [op |-> "idle", from |-> 0]
  /\ UNCHANGED <<coordinatorVars, socket, inputVars, m_current_wg, m_next_writable_item_index,
                 m_init_read_after_this_write, timeVars, client, userVars, historyVars>>

\* fail_write_group: only when the notificator throws is the index reset.
fail_write_group ==
  /\ Calls("fail_write_group")
  /\ Notify({m_current_wg})
  /\ m_current_wg' = <<>>
  /\ \/ UNCHANGED m_next_writable_item_index
     \/ /\ "notificator" \in Faults /\ has_after_write_notificator(m_current_wg)
        /\ m_next_writable_item_index' = 0
  /\ Run(<<>>)
  /\ UNCHANGED <<coordinatorVars, socket, inputVars, m_init_read_after_this_write, write, timeVars, client,
                 userVars, wire, completed, handled>>
-----------------------------------------------------------------------------
(* Closing, and time. *)

Abort(op) == IF op.op = "pending" /\ socket = "open" THEN [op EXCEPT !.op = "aborted"] ELSE op

\* Faulty variant: responses that were not written are dropped without a word.
CloseSilently ==
  /\ Calls("close")
  /\ socket' = IF socket = "open" THEN "closed" ELSE socket
  /\ read' = Abort(read)
  /\ write' = Abort(write)
  /\ cancel_timeout_checking
  /\ reset
  /\ Run(<<>>)
  /\ UNCHANGED <<m_buf, parser, m_connection_upgrade_stage, m_current_wg, m_next_writable_item_index,
                 m_init_read_after_this_write, client, userVars, historyVars>>

close ==
  /\ Calls("close")
  /\ socket' = IF socket = "open" THEN "closed" ELSE socket
  /\ read' = Abort(read)
  /\ write' = Abort(write)
  /\ cancel_timeout_checking
  /\ reset
  /\ Notify(UNION {{Live[i].m_write_groups[g] : g \in DOMAIN Live[i].m_write_groups} : i \in DOMAIN Live})
  /\ Run(<<>>)
  /\ UNCHANGED <<m_buf, parser, m_connection_upgrade_stage, m_current_wg, m_next_writable_item_index,
                 m_init_read_after_this_write, client, userVars, wire, completed, handled>>

\* The timer of the guard expires; check_timeout is dispatched to the strand.
check_timeout ==
  /\ timer = "on"
  /\ timer' = "queued"
  /\ UNCHANGED <<coordinatorVars, socket, stack, inputVars, outputVars, m_current_timeout_cb, client,
                 userVars, historyVars>>

\* Faulty variant: the timer is not scheduled again.
CheckOnce ==
  /\ stack = <<>> /\ timer = "queued"
  /\ timer' = "off"
  /\ UNCHANGED <<coordinatorVars, socket, stack, inputVars, outputVars, m_current_timeout_cb, client,
                 userVars, historyVars>>

\* check_timeout_impl when the operation is in time.
CheckInTime ==
  /\ stack = <<>> /\ timer = "queued"
  /\ timer' = "on"
  /\ UNCHANGED <<coordinatorVars, socket, stack, inputVars, outputVars, m_current_timeout_cb, client,
                 userVars, historyVars>>

\* ... and when it is not: handle_xxx_timeout closes the connection.
CheckTooLate ==
  /\ stack = <<>> /\ timer = "queued"
  /\ timer' = "off"
  /\ stack' = IF m_current_timeout_cb = "none" THEN <<>> ELSE <<<<"close">>>>
  /\ UNCHANGED <<coordinatorVars, socket, inputVars, outputVars, m_current_timeout_cb, client, userVars,
                 historyVars>>
-----------------------------------------------------------------------------
(* The network: asio's operations complete. *)

ReadDone ==
  /\ read.op = "pending" /\ socket = "open"
  /\ \E n \in 1 .. MaxChunk :
       /\ client.sent + n <= 2 * Len(client.plan)
       /\ read' = [op |-> "ok", data |-> SubSeq(Stream(client.plan), client.sent + 1, client.sent + n)]
       /\ client' = [client EXCEPT !.sent = @ + n]
  /\ UNCHANGED <<coordinatorVars, socket, stack, m_buf, parser, m_connection_upgrade_stage, outputVars, timeVars,
                 userVars, historyVars>>

ReadFails ==
  /\ read.op = "pending" /\ "read" \in Faults
  /\ read' = [read EXCEPT !.op = "error"]
  /\ UNCHANGED <<coordinatorVars, socket, stack, m_buf, parser, m_connection_upgrade_stage, outputVars, timeVars,
                 client, userVars, historyVars>>

\* The buffers or the file are in the socket.
WriteDone ==
  /\ write.op = "pending"
  /\ write' = [write EXCEPT !.op = "ok"]
  /\ wire' = wire \o SubSeq(Items, write.from + 1, m_next_writable_item_index)
  /\ UNCHANGED <<coordinatorVars, socket, stack, inputVars, m_current_wg, m_next_writable_item_index,
                 m_init_read_after_this_write, timeVars, client, userVars, owed, completed, handled>>

\* A write that is not finished when the socket is moved out goes on in an
\* object that has no socket.
WriteFails ==
  /\ write.op = "pending"
  /\ "write" \in Faults \/ socket = "moved"
  /\ write' = [write EXCEPT !.op = "error"]
  /\ UNCHANGED <<coordinatorVars, socket, stack, inputVars, m_current_wg, m_next_writable_item_index,
                 m_init_read_after_this_write, timeVars, client, userVars, historyVars>>
-----------------------------------------------------------------------------
\* The calls on the stack.
Call ==
  \/ wait_for_http_message
  \/ consume_data
  \/ on_request_message_complete
  \/ handle_upgrade_request
  \/ m_request_handler
  \/ write_response_parts_impl
  \/ AppendResponse
  \/ init_write_if_necessary
  \/ handle_current_write_ctx
  \/ finish_handling_current_write_ctx
  \/ fail_write_group
  \/ close

Next ==
  \/ Call
  \/ after_read
  \/ after_write
  \/ \E id \in Requests : LateResponse(id) \/ LateUpgrade(id)
  \/ check_timeout
  \/ CheckInTime
  \/ CheckTooLate
  \/ ReadDone
  \/ ReadFails
  \/ WriteDone
  \/ WriteFails

Spec == Init /\ [][Next]_vars

\* The strand runs what is queued for it, asio's timer fires, and time passes:
\* a deadline that nothing extends is found to be over.  The client, the
\* network and the user's late responses owe nothing.
FairSpec ==
  /\ Spec
  /\ WF_vars(Call)
  /\ WF_vars(after_read)
  /\ WF_vars(after_write)
  /\ WF_vars(check_timeout)
  /\ SF_vars(CheckTooLate)
-----------------------------------------------------------------------------
Outcomes == {"idle", "pending", "ok", "error", "aborted"}

TypeOK ==
  /\ m_first_element_index \in Cells
  /\ m_elements_exists \in 0 .. MaxReq
  /\ socket \in {"open", "closed", "moved"}
  /\ parser.st \in {"start", "partial", "complete", "error"}
  /\ read.op \in Outcomes /\ write.op \in Outcomes
  /\ m_connection_upgrade_stage \in {"none", "pending", "wait_for_result"}
  /\ m_next_writable_item_index \in Nat
  /\ write.op # "idle" => m_next_writable_item_index <= Len(Items)
  /\ m_current_timeout_cb \in {"none", "read", "handle", "write", "sendfile"}
  /\ timer \in {"off", "on", "queued"}
  /\ answer \in [Requests -> {"none", "running", "accepted", "upgrading", "ended", "kept"}]
  /\ given \in [Requests -> 0 .. MaxParts]
  /\ owed \in [Requests \X (1 .. MaxParts) -> {0, 1}]
  /\ completed \in Nat /\ handled \in Seq({"plain", "upgrade"})

\* Item b may be sent right after item a: the next one of the same part, or the
\* first one of the next part, or, when a ends a response that keeps the
\* connection, the first one of the next response.
MayFollow(a, b) ==
  \/ ~a.end /\ b.req = a.req /\ b.n = a.n /\ b.k = a.k + 1
  \/ a.end /\ ~a.final /\ b.req = a.req /\ b.n = a.n + 1 /\ b.k = 1
  \/ a.end /\ a.final /\ ~a.close /\ b.req = a.req + 1 /\ b.n = 1 /\ b.k = 1

\* What the client receives is the responses, in the order of its requests,
\* each whole and none twice, and nothing after one that closes the
\* connection: whatever the order in which handlers respond, and whatever the
\* groups that enqueue_group and extract_next_write_operation make of them.
WireInOrder ==
  /\ wire # <<>> => wire[1].req = 0 /\ wire[1].n = 1 /\ wire[1].k = 1
  /\ \A i \in 1 .. Len(wire) - 1 : MayFollow(wire[i], wire[i + 1])

\* The places that hold a part whose notificator is still to be called.
Waiting(p) ==
  LET Ends(group) == /\ group # <<>> /\ has_after_write_notificator(group)
                     /\ p = <<group[Len(group)].req, group[Len(group)].n>>
      inCalls == {i \in DOMAIN stack :
                    stack[i][1] \in {"write_response_parts_impl", "append_response"} /\ Ends(<<stack[i][2]>>)}
      inCell(i) == {g \in DOMAIN m_contexts[i].m_write_groups : Ends(m_contexts[i].m_write_groups[g])}
  IN  {<<"call", i>> : i \in inCalls}
        \cup (UNION {{<<"ring", i, g>> : g \in inCell(i)} : i \in Cells})
        \cup (IF Ends(m_current_wg) THEN {<<"current">>} ELSE {})

\* The after-write notificator of a part is called exactly once, whether the
\* part is written, refused, thrown away by close(), or fails on the socket:
\* until then exactly one place holds it.
NotifiedOnce ==
  \A p \in DOMAIN owed :
    \/ owed[p] = 1 /\ \E place \in Waiting(p) : Waiting(p) = {place}
    \/ owed[p] = 0 /\ Waiting(p) = {}

\* At most one write is outstanding on the socket: when the next one is about
\* to start, none is.
OneWrite ==
  Calls("handle_current_write_ctx") => write.op = "idle" /\ transmitting

\* As long as the connection is open, the request handler is called at most
\* once for each request that arrived, up to the first response to an upgrade
\* request that keeps the connection: however reads, writes and their ends are
\* interleaved, finish_handling_current_write_ctx does not hand the upgrade
\* request of on_request_message_complete out a second time.
HandledOnce ==
  socket = "open" /\ (\A r \in Requests : answer[r] # "kept") => Len(handled) <= completed

\* "Guard total time for a request to be read" and the other guards: a
\* connection that is open is watched by the timer, with a handler to call,
\* unless a request to upgrade is being handled ("Do not guard upgrade request").
OpenIsGuarded ==
  socket = "open" /\ stack = <<>> /\ (\A i \in DOMAIN handled : handled[i] # "upgrade") =>
    timer # "off" /\ m_current_timeout_cb # "none"

\* A connection does not stay open for ever, whatever the client and the
\* handlers do or fail to do, unless a handler of an upgrade request has it.
ConnectionEnds == <>(socket # "open" \/ m_connection_upgrade_stage = "wait_for_result")

\* Client and server do not wait for each other: while the ring has a place for
\* a request and no response closes the connection, a read is outstanding, or
\* a write that resumes reading when it ends is ("Whether we need to resume read
\* after this group is written?").  Only a request to upgrade stops reading for
\* good.
ReadingResumes ==
  /\ socket = "open" /\ stack = <<>>
  /\ m_connection_upgrade_stage = "none"
  /\ is_able_to_get_more_messages
  /\ \A i \in DOMAIN Live : ~Live[i].close
  => read.op # "idle" \/ (transmitting /\ m_init_read_after_this_write)

\* The assertion in init_write_if_necessary:
\* "assert( !m_response_coordinator.closed() )".
NotClosedWhenWriting == Calls("init_write_if_necessary") => ~closed

\* "Prepare parser for consuming new request message": wait_for_http_message
\* does not throw away a message that is half read.
ParserResetBetweenMessages == Calls("wait_for_http_message") => parser.st # "partial"

\* "it must be the only request that is handled at the moment": when the
\* handler of an upgrade request takes the socket, no response is being written.
UpgradeAlone == socket = "moved" => ~transmitting

\* "Request data must be in input context (m_input)": when handle_upgrade_request
\* is called on an open connection, there is a request that the parser has
\* completed and no handler has been given.
UpgradeHasRequest ==
  socket = "open" /\ Calls("handle_upgrade_request") => Len(handled) < completed
=============================================================================
