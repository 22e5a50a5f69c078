---------------------------- MODULE WsConnection ----------------------------
(***************************************************************************)
(* restinio::websocket::basic: ws_connection_t and the user's end of it,   *)
(* ws_t.                                                                   *)
(*                                                                         *)
(* Handlers of a websocket run on one strand and call each other, and the  *)
(* user's message handler calls back into the connection from the middle   *)
(* of them.  Every method is therefore an operator from the state of the   *)
(* connection to its state after the call, and an action is one handler of *)
(* the strand.  The variable c holds that state.  What other threads       *)
(* dispatch to the strand waits in posted.                                 *)
(*                                                                         *)
(* A frame of the peer is named by what the validator and the code make of *)
(* it, and by where its payload ends:                                      *)
(*   "data"      any frame that is not a close frame (pings included)      *)
(*   "close"     a close frame                                             *)
(*   "badHeader" process_new_frame refuses it                              *)
(*   "tooLong"   its payload cannot be allocated: resize throws            *)
(*   "badCode"   a close frame with an invalid code                        *)
(*   "badUtf"    a part of its payload is not UTF-8                        *)
(*   "badEnd"    finish_frame finds that its UTF-8 is not complete         *)
(* cut is "whole" when all of the payload came with the header, "late"     *)
(* when the last part is read separately, and "early" when a part that is  *)
(* refused is not the last one.                                            *)
(***************************************************************************)
EXTENDS Naturals, Sequences, FiniteSets, SequencesExt

CONSTANTS
  Reads,         \* what one read may obtain: a set of sequences of frames
  MaxFrames,     \* bound: frames sent by the peer
  MaxSends,      \* bound: messages sent by the user, a close frame included
  HandlerActs,   \* what the message handler may do: sequences of user calls
  LaterActs,     \* what the user may do on another thread: a set of calls
  WsFaults       \* which operations may fail: "read", "write", "notificator"

ASSUME WsAssumption ==
  /\ \A fs \in Reads :
       /\ fs # <<>>
       /\ \A i \in DOMAIN fs :
            /\ fs[i].kind \in {"data", "close", "badHeader", "tooLong", "badCode", "badUtf", "badEnd"}
            /\ fs[i].cut \in {"whole", "late", "early"}
            /\ fs[i].cut = "early" => fs[i].kind = "badUtf"
            /\ i < Len(fs) => fs[i].cut = "whole"
  /\ MaxFrames \in Nat /\ MaxSends \in Nat
  /\ WsFaults \subseteq {"read", "write", "notificator"}

VARIABLES
  c,         \* the object, ws_t included, and what it did
  posted,    \* calls dispatched to the strand from other threads
  wsTimer,   \* m_timer_guard: "off", "on", "queued"
  obtained   \* how many frames were read from the peer

wsVars == <<c, posted, wsTimer, obtained>>

\* A write group: the response to the upgrade request, a message of the user,
\* a close frame.  Only those of the user, which have an id, have a notificator.
Group(kind, id) == [kind |-> kind, id |-> id]
NoGroup == Group("none", 0)
ItemsCount(group) == IF group.kind = "upgrade" THEN 1 ELSE 2

Idle == [op |-> "idle", at |-> "header"]

\* After upgrade(): the response to the upgrade request is being written.
WsInit ==
  /\ c = [handle |-> "held", alive |-> TRUE, activated |-> FALSE, open |-> TRUE,
          m_read_state |-> "read_nothing", m_write_state |-> "write_enabled",
          m_close_frame_to_user |-> TRUE, m_close_frame_to_peer |-> TRUE, m_close_impl |-> TRUE,
          read |-> Idle, m_buf |-> <<>>, current |-> "none",
          m_outgoing_data |-> <<>>, m_current_wg |-> Group("upgrade", 0), index |-> 1, write |-> "pending",
          closeGuarded |-> FALSE, throws |-> FALSE,
          wire |-> <<Group("upgrade", 0)>>, sent |-> 0, notified |-> [i \in 1 .. MaxSends |-> <<>>],
          closing |-> FALSE, handed |-> 0, told |-> 0, unheard |-> FALSE, failed |-> FALSE]
  /\ posted = <<>>
  /\ wsTimer = "off"
  /\ obtained = 0
-----------------------------------------------------------------------------
(* Writing. *)

\* invoke_after_write_notificator_if_exists, also called by ~write_group_t.
NotifyUser(s, group, result) ==
  IF group.id = 0 THEN s
  ELSE [s EXCEPT !.notified = [@ EXCEPT ![group.id] = Append(@, result)]]

\* An operation started on a closed socket fails.
StartedOn(s) == IF s.open THEN "pending" ELSE "error"

\* handle_current_write_ctx with a group just started: one operation writes
\* all its items, unless the index of a group that failed is still there.
WriteOrFinish(s) ==
  IF s.index < ItemsCount(s.m_current_wg)
    THEN [s EXCEPT !.index = ItemsCount(s.m_current_wg), !.write = StartedOn(s),
                   !.wire = IF s.open THEN Append(@, s.m_current_wg) ELSE @]
    ELSE [NotifyUser(s, s.m_current_wg, "ok") EXCEPT !.m_current_wg = NoGroup, !.index = 0]

\* init_write_if_necessary and init_write.  A group that is finished without
\* a write makes way for the next one, whose index is 0 again; not when its
\* notificator throws, and that error finds the connection closed already.
init_write_if_necessary(s) ==
  LET Started(t) == t.m_current_wg = NoGroup /\ t.m_outgoing_data # <<>>
      Step(t) ==
        IF ~Started(t) THEN t
        ELSE WriteOrFinish([t EXCEPT !.m_current_wg = Head(t.m_outgoing_data), !.m_outgoing_data = Tail(@)])
  IN  IF s.throws /\ Started(s) THEN [Step(s) EXCEPT !.throws = FALSE] ELSE Step(Step(s))

AppendGroup(s, group) == [s EXCEPT !.m_outgoing_data = Append(@, group)]

\* close_impl: outstanding operations are aborted, which is an error to their
\* handlers.
close_impl(s) ==
  IF ~s.m_close_impl THEN s
  ELSE [s EXCEPT !.m_close_impl = FALSE, !.open = FALSE,
                 !.read.op = IF @ = "pending" THEN "error" ELSE @,
                 !.write = IF @ = "pending" THEN "error" ELSE @]

\* Faulty variant: nobody watches how long the peer takes.
WaitUnguarded(s) == [s EXCEPT !.m_read_state = "read_only_close_frame"]

start_waiting_close_frame_only(s) ==
  [s EXCEPT !.m_read_state = "read_only_close_frame", !.closeGuarded = TRUE]

\* Faulty variant: more can be written after the close frame.
SendCloseAndMore(s) ==
  [init_write_if_necessary(AppendGroup(s, Group("close", 0))) EXCEPT !.closing = TRUE]

send_close_frame_to_peer(s) ==
  [init_write_if_necessary(AppendGroup(s, Group("close", 0)))
     EXCEPT !.m_write_state = "write_disabled", !.closing = TRUE]

\* m_close_frame_to_peer.run_if_first( send_close_frame_to_peer ).
CloseToPeerIfFirst(s) ==
  IF s.m_close_frame_to_peer
    THEN send_close_frame_to_peer([s EXCEPT !.m_close_frame_to_peer = FALSE])
    ELSE s

\* ... followed, inside the action, by start_waiting_close_frame_only.
CloseToPeerAndWait(s) ==
  IF s.m_close_frame_to_peer THEN start_waiting_close_frame_only(CloseToPeerIfFirst(s)) ELSE s

graceful_close(s) == CloseToPeerAndWait(s)

\* The lambdas of shutdown(), kill() and write_data(): a group that cannot be
\* written is destroyed, which invokes its notificator.
Shutdown(s) == graceful_close([s EXCEPT !.m_close_frame_to_user = FALSE])

Kill(s) ==
  close_impl([s EXCEPT !.m_close_frame_to_user = FALSE, !.m_close_frame_to_peer = FALSE])

UserCloses(s) ==
  start_waiting_close_frame_only(
    [s EXCEPT !.m_close_frame_to_peer = FALSE, !.m_close_frame_to_user = FALSE,
              !.m_write_state = "write_disabled", !.closing = TRUE])

\* Faulty variant: a group that comes too late is forgotten.
WriteDataForgets(s, group) ==
  IF s.m_write_state # "write_enabled" \/ ~s.open THEN s
  ELSE init_write_if_necessary(AppendGroup(IF group.kind = "close" THEN UserCloses(s) ELSE s, group))

write_data(s, group) ==
  IF s.m_write_state # "write_enabled" \/ ~s.open THEN NotifyUser(s, group, "error")
  ELSE init_write_if_necessary(AppendGroup(IF group.kind = "close" THEN UserCloses(s) ELSE s, group))
-----------------------------------------------------------------------------
(* The user: ws_t, and the message handler. *)

\* What a call of ws_t does at once, in the thread that makes it, and the
\* call of ws_connection_t that it dispatches.  "release" drops the last
\* reference to ws_t, whose destructor calls shutdown().
Detached(s, op) ==
  CASE op = "send" -> [s EXCEPT !.sent = @ + 1]
    [] op = "sendClose" -> [s EXCEPT !.sent = @ + 1, !.handle = "moved"]
    [] op \in {"shutdown", "kill"} -> [s EXCEPT !.handle = "moved"]
    [] op = "release" -> [s EXCEPT !.handle = "gone"]
    [] OTHER -> s

Dispatched(s, op) ==
  CASE op = "send" -> [call |-> "write_data", group |-> Group("message", s.sent + 1)]
    [] op = "sendClose" -> [call |-> "write_data", group |-> Group("close", s.sent + 1)]
    [] op \in {"shutdown", "release"} -> [call |-> "shutdown", group |-> NoGroup]
    [] op = "kill" -> [call |-> "kill", group |-> NoGroup]
    [] op = "activate" -> [call |-> "init_read", group |-> NoGroup]

\* May the user make this call?  Only ws_t with a connection does anything.
Callable(s, op) ==
  CASE op = "release" -> s.handle # "gone"
    [] op \in {"send", "sendClose"} -> s.handle = "held" /\ s.sent < MaxSends
    [] OTHER -> s.handle = "held"

Execute(s, d) ==
  CASE d.call = "write_data" -> write_data(s, d.group)
    [] d.call = "shutdown" -> Shutdown(s)
    [] d.call = "kill" -> Kill(s)

\* A call made on the strand: dispatch executes it immediately.
UserCall(s, op) ==
  IF ~Callable(s, op) THEN s
  ELSE IF op = "release" /\ s.handle = "moved" THEN [s EXCEPT !.handle = "gone"]
  ELSE Execute(Detached(s, op), Dispatched(s, op))

\* call_message_handler, when the handler makes the calls in acts.  The user
\* is not called without ws_t, of which init_read passes the weak handle.
Listening(s) == s.activated /\ s.handle # "gone"
UserCalls(s, acts) == FoldLeft(UserCall, s, acts)

CallOnData(s, acts) ==
  IF Listening(s) THEN UserCalls([s EXCEPT !.handed = @ + 1], acts) ELSE s

CallOnClose(s, acts) ==
  IF Listening(s) THEN UserCalls([s EXCEPT !.told = @ + 1], acts)
  ELSE [s EXCEPT !.unheard = ~s.activated \/ @]

call_close_handler_if_necessary(s, acts) ==
  IF s.m_close_frame_to_user THEN CallOnClose([s EXCEPT !.m_close_frame_to_user = FALSE], acts) ELSE s

trigger_error_and_close(s, acts) == close_impl(call_close_handler_if_necessary(s, acts))
-----------------------------------------------------------------------------
(* Reading. *)

\* start_read_header: what is in the buffer is parsed at once; otherwise a
\* read is started.  "parse" means that the handler goes on with HandleFrame.
start_read_header(s) ==
  [s EXCEPT !.read = [op |-> IF s.m_buf = <<>> THEN StartedOn(s) ELSE "parse", at |-> "header"]]

start_read_payload(s, at, frame) == [s EXCEPT !.read = [op |-> StartedOn(s), at |-> at], !.current = frame]

ReadAny(s) == s.m_read_state = "read_any_frame"

\* handle_parsed_header when the header is refused.
InvalidHeader(s, acts) ==
  CASE ReadAny(s) -> call_close_handler_if_necessary(CloseToPeerIfFirst(s), acts)
    [] s.m_read_state = "read_only_close_frame" -> close_impl(s)
    [] OTHER -> s

\* Faulty variant: after bad UTF-8 everything is read on as before.
InvalidPayloadGoesOn(s, result, acts) ==
  CASE result = "invalid_close_code" -> InvalidHeader(s, acts)
    [] result = "incorrect_utf8_data" ->
         IF ReadAny(s) THEN call_close_handler_if_necessary(CloseToPeerIfFirst(s), acts) ELSE s

\* A bad close code is treated as a bad header is.
handle_invalid_payload(s, result, acts) ==
  CASE result = "invalid_close_code" -> InvalidHeader(s, acts)
    [] result = "incorrect_utf8_data" ->
         IF ReadAny(s) THEN call_close_handler_if_necessary(CloseToPeerAndWait(s), acts) ELSE s

\* call_handler_on_current_message for a frame that finish_frame accepts.
CloseFrame(s, acts) ==
  IF ReadAny(s)
    THEN CallOnClose([CloseToPeerIfFirst([s EXCEPT !.m_close_frame_to_user = FALSE])
                        EXCEPT !.m_read_state = "read_nothing"], acts)
    ELSE close_impl(s)

DataFrame(s, acts) ==
  LET t == IF ReadAny(s) THEN CallOnData(s, acts) ELSE s
  IN  IF t.m_read_state # "read_nothing" THEN start_read_header(t) ELSE t

\* The rest of a frame, when the part of its payload that was still to come,
\* if any, is there.
HandlePayload(s, f, acts) ==
  LET t == [s EXCEPT !.read = Idle, !.current = "none"]
  IN  CASE f.kind = "data" -> DataFrame(t, acts)
        [] f.kind = "close" -> CloseFrame(t, acts)
        [] f.kind = "badCode" -> handle_invalid_payload(t, "invalid_close_code", acts)
        [] f.kind = "badEnd" -> handle_invalid_payload(t, "incorrect_utf8_data", acts)
        [] f.kind = "badUtf" ->
             LET u == handle_invalid_payload(t, "incorrect_utf8_data", acts)
             IN  IF f.cut = "early" THEN start_read_payload(u, "skip", "none") ELSE start_read_header(u)

\* handle_parsed_header and handle_parsed_and_valid_header, for the frame at
\* the head of the buffer.
HandleFrame ==
  /\ c.read.op = "parse"
  /\ \E acts \in HandlerActs :
       LET f == Head(c.m_buf)
           s == [c EXCEPT !.m_buf = Tail(@), !.read = Idle]
       IN  c' = CASE f.kind = "badHeader" -> InvalidHeader(s, acts)
                  [] f.kind = "tooLong" -> trigger_error_and_close(s, acts)
                  [] f.cut = "late" -> start_read_payload(s, "payload", f.kind)
                  [] OTHER -> HandlePayload(s, f, acts)
  /\ wsTimer' = IF c.m_read_state = "read_only_close_frame" /\ Head(c.m_buf) = [kind |-> "close", cut |-> "whole"]
                  THEN IF wsTimer = "on" THEN "off" ELSE wsTimer
                  ELSE wsTimer
  /\ UNCHANGED <<posted, obtained>>
-----------------------------------------------------------------------------
(* The handlers of the strand.  None starts while another one is parsing. *)

StrandFree == c.alive /\ c.read.op # "parse"

\* init_read: the timer is started, and reading.
init_read ==
  /\ StrandFree /\ posted # <<>> /\ Head(posted).call = "init_read"
  /\ posted' = Tail(posted)
  /\ wsTimer' = "on"
  /\ c' = start_read_header([c EXCEPT !.activated = TRUE, !.m_read_state = "read_any_frame"])
  /\ UNCHANGED obtained

\* shutdown, kill or write_data called from another thread.
RunPosted ==
  /\ StrandFree /\ posted # <<>> /\ Head(posted).call # "init_read"
  /\ posted' = Tail(posted)
  /\ c' = Execute(c, Head(posted))
  /\ UNCHANGED <<wsTimer, obtained>>

\* after_read_header: the frames obtained are in the buffer, the last one
\* possibly without the end of its payload.
after_read_header ==
  /\ StrandFree /\ c.read.op = "ok" /\ c.read.at = "header"
  /\ c' = [c EXCEPT !.read.op = "parse"]
  /\ UNCHANGED <<posted, wsTimer, obtained>>

\* after_read_payload: the payload is complete; in "skip" it is thrown away.
after_read_payload ==
  /\ StrandFree /\ c.read.op = "ok" /\ c.read.at # "header"
  /\ \E acts \in HandlerActs :
       c' = IF c.read.at = "skip" THEN start_read_header([c EXCEPT !.read = Idle])
            ELSE HandlePayload(c, [kind |-> c.current, cut |-> "whole"], acts)
  /\ wsTimer' = IF c.m_read_state = "read_only_close_frame" /\ c.read.at = "payload" /\ c.current = "close"
                  /\ wsTimer = "on" THEN "off" ELSE wsTimer
  /\ UNCHANGED <<posted, obtained>>

handle_read_error ==
  /\ StrandFree /\ c.read.op = "error"
  /\ \E acts \in HandlerActs : c' = trigger_error_and_close([c EXCEPT !.read = Idle], acts)
  /\ UNCHANGED <<posted, wsTimer, obtained>>

\* after_write without error: finish_handling_current_write_ctx.  When the
\* notificator throws, the group is reset and the connection closed.
finish_handling_current_write_ctx ==
  /\ StrandFree /\ c.write = "ok"
  /\ LET s == [NotifyUser(c, c.m_current_wg, "ok") EXCEPT !.m_current_wg = NoGroup, !.index = 0, !.write = "idle"]
     IN  \/ c' = init_write_if_necessary(s)
         \/ /\ "notificator" \in WsFaults /\ c.m_current_wg.id # 0
            /\ \E acts \in HandlerActs : c' = trigger_error_and_close(s, acts)
  /\ UNCHANGED <<posted, wsTimer, obtained>>

\* after_write with an error: the user is told, the socket closed, and then
\* fail_write_group leaves the index where it is, unless the notificator throws.
\* The notificator of the next group may throw too, should that group be
\* finished without a write.
WriteError ==
  /\ StrandFree /\ c.write = "error"
  /\ \E acts \in HandlerActs :
       LET s == trigger_error_and_close([c EXCEPT !.write = "idle", !.failed = TRUE], acts)
           t == [NotifyUser(s, s.m_current_wg, "error") EXCEPT !.m_current_wg = NoGroup]
       IN  \/ c' = t
           \/ /\ "notificator" \in WsFaults /\ c.m_current_wg.id # 0
              /\ c' = [t EXCEPT !.index = 0]
           \/ /\ "notificator" \in WsFaults /\ t.m_outgoing_data # <<>>
              /\ Head(t.m_outgoing_data).id # 0 /\ t.index >= ItemsCount(Head(t.m_outgoing_data))
              /\ c' = [t EXCEPT !.throws = TRUE]
  /\ UNCHANGED <<posted, wsTimer, obtained>>

\* Nothing refers to the object any more, neither ws_t nor a handler that
\* waits to be run: the timer only has a weak pointer to it.
Orphan ==
  /\ c.handle # "held" /\ posted = <<>>
  /\ c.read.op = "idle" /\ c.write = "idle" /\ wsTimer # "queued"

\* The timer expires and check_timeout is dispatched to the strand.
check_timeout ==
  /\ c.alive /\ ~Orphan /\ wsTimer = "on"
  /\ wsTimer' = "queued"
  /\ UNCHANGED <<c, posted, obtained>>

\* check_timeout_impl in time: checked again later.
WsInTime ==
  /\ StrandFree /\ wsTimer = "queued"
  /\ wsTimer' = "on"
  /\ UNCHANGED <<c, posted, obtained>>

\* Faulty variant: the user is not told that writing took too long.
WriteTimesOutSilently ==
  /\ StrandFree /\ wsTimer = "queued" /\ c.m_current_wg # NoGroup
  /\ c' = close_impl([c EXCEPT !.m_close_frame_to_peer = FALSE])
  /\ wsTimer' = "off"
  /\ UNCHANGED <<posted, obtained>>

\* ... when a write takes too long ...
WriteTimesOut ==
  /\ StrandFree /\ wsTimer = "queued" /\ c.m_current_wg # NoGroup
  /\ \E acts \in HandlerActs :
       c' = close_impl(call_close_handler_if_necessary([c EXCEPT !.m_close_frame_to_peer = FALSE], acts))
  /\ wsTimer' = "off"
  /\ UNCHANGED <<posted, obtained>>

\* ... and when the peer's close frame does.
CloseTimesOut ==
  /\ StrandFree /\ wsTimer = "queued" /\ c.closeGuarded
  /\ c' = close_impl(c)
  /\ wsTimer' = "off"
  /\ UNCHANGED <<posted, obtained>>

\* ~ws_connection_t: queued groups are destroyed, which invokes their
\* notificators.
DestroyWs ==
  /\ c.alive /\ Orphan
  /\ c' = [FoldLeft(LAMBDA s, g : NotifyUser(s, g, "error"), c, c.m_outgoing_data \o <<c.m_current_wg>>)
             EXCEPT !.alive = FALSE, !.open = FALSE, !.m_outgoing_data = <<>>, !.m_current_wg = NoGroup]
  /\ wsTimer' = "off"
  /\ UNCHANGED <<posted, obtained>>
-----------------------------------------------------------------------------
(* The user's other threads, and the network. *)

\* ws_t is called from another thread; activate() only once.
LaterCall(op) ==
  /\ c.alive /\ Callable(c, op)
  /\ op = "activate" => ~c.activated /\ \A i \in DOMAIN posted : posted[i].call # "init_read"
  /\ c' = Detached(c, op)
  /\ posted' = IF op = "release" /\ c.handle = "moved" THEN posted ELSE Append(posted, Dispatched(c, op))
  /\ UNCHANGED <<wsTimer, obtained>>

WsReadDone ==
  /\ c.read.op = "pending"
  /\ \/ /\ c.read.at = "header"
        /\ \E fs \in Reads :
             /\ obtained + Len(fs) <= MaxFrames
             /\ c' = [c EXCEPT !.read.op = "ok", !.m_buf = fs]
             /\ obtained' = obtained + Len(fs)
     \/ /\ c.read.at # "header"
        /\ c' = [c EXCEPT !.read.op = "ok"]
        /\ UNCHANGED obtained
  /\ UNCHANGED <<posted, wsTimer>>

WsReadFails ==
  /\ c.read.op = "pending" /\ "read" \in WsFaults
  /\ c' = [c EXCEPT !.read.op = "error"]
  /\ UNCHANGED <<posted, wsTimer, obtained>>

WsWriteDone ==
  /\ c.write = "pending"
  /\ c' = [c EXCEPT !.write = "ok"]
  /\ UNCHANGED <<posted, wsTimer, obtained>>

WsWriteFails ==
  /\ c.write = "pending" /\ "write" \in WsFaults
  /\ c' = [c EXCEPT !.write = "error"]
  /\ UNCHANGED <<posted, wsTimer, obtained>>

WsNext ==
  \/ HandleFrame
  \/ init_read
  \/ RunPosted
  \/ after_read_header
  \/ after_read_payload
  \/ handle_read_error
  \/ finish_handling_current_write_ctx
  \/ WriteError
  \/ check_timeout
  \/ WsInTime
  \/ WriteTimesOut
  \/ CloseTimesOut
  \/ DestroyWs
  \/ \E op \in LaterActs : LaterCall(op)
  \/ WsReadDone
  \/ WsReadFails
  \/ WsWriteDone
  \/ WsWriteFails

WsSpec == WsInit /\ [][WsNext]_wsVars

\* The strand runs what is queued for it, the timer fires, and a deadline that
\* nothing extends is found to be over.  The peer, the network and the user
\* owe nothing.
WsFairSpec ==
  /\ WsSpec
  /\ WF_wsVars(HandleFrame)
  /\ WF_wsVars(init_read)
  /\ WF_wsVars(RunPosted)
  /\ WF_wsVars(after_read_header \/ after_read_payload \/ handle_read_error)
  /\ WF_wsVars(finish_handling_current_write_ctx \/ WriteError)
  /\ WF_wsVars(check_timeout)
  /\ WF_wsVars(WsInTime \/ WriteTimesOut \/ CloseTimesOut)
  /\ SF_wsVars(WriteTimesOut)
  /\ SF_wsVars(CloseTimesOut)
  /\ WF_wsVars(DestroyWs)
-----------------------------------------------------------------------------
\* "No more data must be written": whoever closes first, the user, the peer,
\* an error or a timeout, and whatever the user sends meanwhile, the peer
\* receives at most one close frame and nothing after it.
CloseFrameIsLast ==
  \A i \in 1 .. Len(c.wire) - 1 : c.wire[i].kind # "close"

\* A user who still holds the websocket learns of its end: when the socket
\* has been closed, the message handler was called with a close frame.  (A
\* failure that came before init_read had run is lost: there is no handle to
\* call the handler with, and m_close_frame_to_user is used up.)
EndIsReported ==
  c.activated /\ ~c.open /\ c.handle = "held" => c.told > 0 \/ c.unheard

\* Once a close frame is on its way to the peer, no other frame is handed to
\* the message handler, buffered ones included.
NothingAfterClose == [][c'.handed > c.handed => ~c.closing]_wsVars

\* The notificator of a message is called exactly once, at the latest when the
\* connection is destroyed; and before any write has failed it reports success
\* only for a message that was written.
WsNotifiedOnce ==
  \A i \in 1 .. MaxSends :
    /\ Len(c.notified[i]) <= 1
    /\ i <= c.sent /\ ~c.alive => Len(c.notified[i]) = 1
    /\ c.notified[i] = <<"ok">> /\ ~c.failed => \E k \in DOMAIN c.wire : c.wire[k].id = i

\* "when the last reference on this handle is lost underlying connection will
\* be closed" (ws_t): and so it is after a shutdown, a kill or a close frame,
\* though the peer neither reads nor answers, once reading was started.
ReleasedEnds == c.activated /\ c.handle # "held" ~> ~c.alive
=============================================================================
