----------------------------- MODULE HttpInput ------------------------------
(***************************************************************************)
(* The callbacks through which http_parser hands over a request            *)
(* (impl/parser_callbacks.ipp), the context they fill (http_parser_ctx_t   *)
(* of impl/connection.hpp), the fields of a header and the target of a     *)
(* request (http_headers.hpp), and the limits that they enforce            *)
(* (incoming_http_msg_limits.hpp).                                         *)
(*                                                                         *)
(* http_parser itself is not part of the sources.  What the callbacks rely *)
(* on is modelled: the items of a message come in order and any item with  *)
(* a text may come in several pieces, wherever a read from the socket      *)
(* happened to end; a callback that fails stops the parser for good; a     *)
(* complete message pauses it until the connection resets it.              *)
(***************************************************************************)
EXTENDS Integers, SequencesExt

CONSTANTS
    Messages,   \* The messages a peer may send.
    Limits,     \* incoming_http_msg_limits_t.
    Pipeline    \* How many messages come one after the other.

VARIABLES
    sent,       \* The messages of the peer.
    todo,       \* The items of the current message not yet parsed.
    ctx,        \* m_parser_ctx.
    requests,   \* The requests passed to the handler.
    failed      \* A callback has returned -1: the connection is closed.

inputVars == <<sent, todo, ctx, requests, failed>>

-----------------------------------------------------------------------------
(* http_header_fields_t.  Two names are the same whatever their case; the *)
(* model's names are written in one case.                                 *)
FieldsNamed(fields, name) == {i \in DOMAIN fields : fields[i].name = name}

has_field(fields, name) == FieldsNamed(fields, name) # {}

FirstNamed(fields, name) ==
    CHOOSE i \in FieldsNamed(fields, name) : \A j \in FieldsNamed(fields, name) : i <= j

get_field(fields, name) == fields[FirstNamed(fields, name)].value

add_field(fields, name, value) == Append(fields, [name |-> name, value |-> value])

append_field(fields, name, value) ==
    IF has_field(fields, name)
    THEN [fields EXCEPT ![FirstNamed(fields, name)].value = @ \o value]
    ELSE add_field(fields, name, value)

append_last_field(fields, value) == [fields EXCEPT ![Len(fields)].value = @ \o value]

(* http_request_header_t: where the query and the fragment begin is kept  *)
(* up to date as the pieces of the target arrive.                         *)
memchr_helper(ch, text) ==
    IF \E i \in DOMAIN text : text[i] = ch
    THEN (CHOOSE i \in DOMAIN text : text[i] = ch /\ \A j \in 1..(i - 1) : text[j] # ch) - 1
    ELSE Len(text)

append_request_target(h, at) ==
    LET size == Len(h.m_request_target)
        fragment_inc == memchr_helper("#", at)
        searching == size = h.m_fragment_separator_pos
    IN  [h EXCEPT
           !.m_request_target = @ \o at,
           !.m_fragment_separator_pos = IF searching THEN @ + fragment_inc ELSE @,
           !.m_query_separator_pos =
                IF searching /\ size = @
                THEN @ + memchr_helper("?", SubSeq(at, 1, fragment_inc)) ELSE @]

path(h) == SubSeq(h.m_request_target, 1, h.m_query_separator_pos)

query(h) ==
    SubSeq(h.m_request_target, h.m_query_separator_pos + 2, h.m_fragment_separator_pos)

fragment(h) ==
    SubSeq(h.m_request_target, h.m_fragment_separator_pos + 2, Len(h.m_request_target))

-----------------------------------------------------------------------------
(* http_parser_ctx_t.  The chunks and the trailing fields are not reset:  *)
(* they are moved into the request.                                       *)
http_request_header ==
    [m_request_target |-> <<>>, m_query_separator_pos |-> 0,
     m_fragment_separator_pos |-> 0, fields |-> <<>>]

http_parser_ctx ==
    [m_header |-> http_request_header, m_body |-> <<>>, m_current_field_name |-> <<>>,
     m_last_value_total_size |-> 0, m_last_was_value |-> TRUE,
     m_leading_headers_completed |-> FALSE, m_chunks |-> <<>>, m_trailing_fields |-> <<>>,
     m_message_complete |-> FALSE, m_total_field_count |-> 0]

\* A plausible slip: the number of fields goes on from the last message.
ResetKeepsCount(c) ==
    [http_parser_ctx EXCEPT !.m_chunks = c.m_chunks,
                            !.m_trailing_fields = c.m_trailing_fields,
                            !.m_total_field_count = c.m_total_field_count]

reset(c) ==
    [http_parser_ctx EXCEPT !.m_chunks = c.m_chunks,
                            !.m_trailing_fields = c.m_trailing_fields]

(* What a callback leaves and whether it returns -1. *)
Returns(c, minus1) == [ctx |-> c, minus1 |-> minus1]

restinio_url_cb(c, at) ==
    LET new == [c EXCEPT !.m_header = append_request_target(@, at)]
    IN  Returns(new, Len(new.m_header.m_request_target) > Limits.max_url_size)

restinio_header_field_cb(c, at) ==
    LET new == [c EXCEPT !.m_current_field_name = IF c.m_last_was_value THEN at ELSE @ \o at,
                         !.m_last_was_value = FALSE]
    IN  IF c.m_last_was_value /\ c.m_total_field_count = Limits.max_field_count
        THEN Returns(c, TRUE)
        ELSE Returns(new, Len(new.m_current_field_name) > Limits.max_field_name_size)

\* The fields that a value belongs to: the leading or the trailing ones.
FieldsOf(c) ==
    IF c.m_leading_headers_completed THEN c.m_trailing_fields ELSE c.m_header.fields

WithFields(c, fields) ==
    IF c.m_leading_headers_completed
    THEN [c EXCEPT !.m_trailing_fields = fields]
    ELSE [c EXCEPT !.m_header.fields = fields]

restinio_header_value_cb(c, at) ==
    LET added == WithFields(c, add_field(FieldsOf(c), c.m_current_field_name, at))
        longer == WithFields(c, append_last_field(FieldsOf(c), at))
        new == IF ~c.m_last_was_value
               THEN [added EXCEPT
                       !.m_current_field_name = <<>>,
                       !.m_last_value_total_size = Len(at),
                       !.m_last_was_value = TRUE,
                       !.m_total_field_count = @ + 1]
               ELSE [longer EXCEPT !.m_last_value_total_size = @ + Len(at)]
    IN  Returns(new, new.m_last_value_total_size >= Limits.max_field_value_size)

restinio_headers_complete_cb(c, content_length) ==
    Returns([c EXCEPT !.m_leading_headers_completed = TRUE],
            content_length > Limits.max_body_size)

restinio_body_cb(c, at) ==
    IF Len(c.m_body) + Len(at) > Limits.max_body_size
    THEN Returns(c, TRUE) ELSE Returns([c EXCEPT !.m_body = @ \o at], FALSE)

restinio_chunk_header_cb(c, content_length) ==
    Returns(IF content_length = 0 THEN c
            ELSE [c EXCEPT !.m_chunks =
                    Append(@, [m_started_at |-> Len(c.m_body), m_size |-> content_length])],
            FALSE)

restinio_message_complete_cb(c) ==
    Returns([c EXCEPT
               !.m_trailing_fields =
                    IF ~c.m_last_was_value /\ c.m_current_field_name # <<>>
                    THEN add_field(@, c.m_current_field_name, <<>>) ELSE @,
               !.m_message_complete = TRUE], FALSE)

\* chunk_info_t::make_string_view
make_string_view(chunk, body) ==
    SubSeq(body, chunk.m_started_at + 1, chunk.m_started_at + chunk.m_size)

-----------------------------------------------------------------------------
(* External: the items of a message in the order http_parser meets them.  *)
(* body is a sequence of chunks if the message is chunked, and one text   *)
(* announced by Content-Length otherwise.                                 *)
FieldItems(fields) ==
    FlattenSeq([i \in DOMAIN fields |->
        <<[cb |-> "field", text |-> fields[i].name],
          [cb |-> "value", text |-> fields[i].value]>>])

ItemsOf(m) ==
    LET one(cb, n) == [cb |-> cb, text |-> <<>>, n |-> n]
        chunk(t) == <<one("chunk_header", Len(t)), [cb |-> "body", text |-> t]>>
    IN  <<[cb |-> "url", text |-> m.url]>> \o FieldItems(m.fields)
        \o (IF m.chunked
            THEN <<one("headers_complete", 0)>>
                 \o FlattenSeq([i \in DOMAIN m.body |-> chunk(m.body[i])])
                 \o <<one("chunk_header", 0)>> \o FieldItems(m.trailers)
            ELSE <<one("headers_complete", Len(FlattenSeq(m.body)))>>
                 \o [i \in DOMAIN m.body |-> [cb |-> "body", text |-> m.body[i]]])
        \o <<one("message_complete", 0)>>

\* One callback, with `at` as its text or the number of its item.
Call(item, c, at) ==
    CASE item.cb = "url" -> restinio_url_cb(c, at)
      [] item.cb = "field" -> restinio_header_field_cb(c, at)
      [] item.cb = "value" -> restinio_header_value_cb(c, at)
      [] item.cb = "body" -> restinio_body_cb(c, at)
      [] item.cb = "headers_complete" -> restinio_headers_complete_cb(c, item.n)
      [] item.cb = "chunk_header" -> restinio_chunk_header_cb(c, item.n)
      [] item.cb = "message_complete" -> restinio_message_complete_cb(c)

InputInit ==
    /\ sent \in [1..Pipeline -> Messages]
    /\ todo = ItemsOf(sent[1])
    /\ ctx = http_parser_ctx
    /\ requests = <<>>
    /\ failed = FALSE

(* http_parser_execute calls a callback with the next n characters of an  *)
(* item; an item without a text is a single call.                         *)
Parse ==
    /\ ~failed /\ todo # <<>>
    /\ \E n \in (IF todo[1].text = <<>> THEN {0} ELSE 1..Len(todo[1].text)) :
          LET item == todo[1]
              called == Call(item, ctx, SubSeq(item.text, 1, n))
          IN  /\ ctx' = called.ctx
              /\ failed' = called.minus1
              /\ todo' = IF n < Len(item.text)
                         THEN [todo EXCEPT ![1].text = SubSeq(@, n + 1, Len(@))]
                         ELSE Tail(todo)
    /\ UNCHANGED <<sent, requests>>

(* on_request_message_complete moves the message out of the context and   *)
(* wait_for_http_message resets it.                                       *)
RequestComplete ==
    /\ ~failed /\ ctx.m_message_complete
    /\ requests' = Append(requests,
            [m_header |-> ctx.m_header, m_body |-> ctx.m_body,
             m_chunks |-> ctx.m_chunks, m_trailing_fields |-> ctx.m_trailing_fields])
    /\ ctx' = reset([ctx EXCEPT !.m_chunks = <<>>, !.m_trailing_fields = <<>>])
    /\ todo' = IF Len(requests) + 1 < Pipeline THEN ItemsOf(sent[Len(requests) + 2]) ELSE <<>>
    /\ UNCHANGED <<sent, failed>>

InputNext == RequestComplete \/ Parse

-----------------------------------------------------------------------------
(* Reference: which messages the limits admit.  The length of a value has *)
(* to stay below its limit, every other part may reach it.                *)
WithinLimits(m) ==
    LET all == m.fields \o m.trailers
    IN  /\ Len(m.url) <= Limits.max_url_size
        /\ Len(all) <= Limits.max_field_count
        /\ \A i \in DOMAIN all : /\ Len(all[i].name) <= Limits.max_field_name_size
                                 /\ Len(all[i].value) < Limits.max_field_value_size
        /\ Len(FlattenSeq(m.body)) <= Limits.max_body_size

\* The text before, between and after the first "#" and the first "?" before it.
SplitsInto(url, p, q, f) ==
    \E mark1, mark2 \in {<<>>, <<"?">>, <<"#">>} :
        /\ mark1 # <<"#">> /\ mark2 # <<"?">>
        /\ url = p \o mark1 \o q \o mark2 \o f
        /\ \A i \in DOMAIN p : p[i] \notin {"?", "#"}
        /\ \A i \in DOMAIN q : q[i] # "#"
        /\ mark1 = <<>> => q = <<>>
        /\ mark2 = <<>> => f = <<>>

\* The request holds the message, each chunk where the peer cut it.
Holds(request, m) ==
    /\ request.m_header.m_request_target = m.url
    /\ SplitsInto(m.url, path(request.m_header), query(request.m_header),
                  fragment(request.m_header))
    /\ request.m_header.fields = m.fields
    /\ request.m_body = FlattenSeq(m.body)
    /\ request.m_trailing_fields = m.trailers
    /\ [i \in DOMAIN request.m_chunks |-> make_string_view(request.m_chunks[i], request.m_body)]
         = IF m.chunked THEN m.body ELSE <<>>

(* Whatever the cuts between the reads, a request is the message of the    *)
(* peer, a message is refused only if it breaks a limit, and none that     *)
(* breaks one becomes a request (parser_callbacks.ipp,                     *)
(* append_request_target, http_parser_ctx_t::reset).                       *)
RequestsExact ==
    /\ \A i \in DOMAIN requests : WithinLimits(sent[i]) /\ Holds(requests[i], sent[i])
    /\ failed => ~WithinLimits(sent[Len(requests) + 1])

=============================================================================
