--------------------------- MODULE MessageBuilders --------------------------
(***************************************************************************)
(* message_builders.hpp and impl/header_helpers.hpp: the three builders    *)
(* with which a request handler writes its response.  The one controlled   *)
(* by RESTinio sends the whole response in done(), the one controlled by   *)
(* the user and the chunked one send what is ready in every flush().       *)
(*                                                                         *)
(* A writable item is the sequence of its octets.  The text of a header is *)
(* the one symbol "header"; the values it was made of are kept in `made`.  *)
(* Octets and the hexadecimal sizes of chunks are strings of length one or *)
(* "CR" and "LF".  A chunk is a buffer: create_bufs asks a chunk for its   *)
(* buf(), which an item that sends a file does not have.                   *)
(***************************************************************************)
EXTENDS HttpInput

CONSTANTS
    Items,      \* The writable items a handler passes to the builder.
    Codings,    \* The values it may give Transfer-Encoding.
    MaxCalls    \* Bound on the calls of a handler.

VARIABLES
    kind,       \* "restinio_controlled", "user_controlled" or "chunked".
    builder,    \* The fields of response_builder_t.
    made,       \* The headers made by create_header_string.
    groups,     \* The write groups passed to write_response_parts.
    calls       \* The calls of the handler so far.

builderVars == <<kind, builder, made, groups, calls>>

TransferEncoding == "transfer-encoding"

BuilderInit ==
    /\ kind \in {"restinio_controlled", "user_controlled", "chunked"}
    /\ builder \in [m_connection : {TRUE}, connection : {"keep_alive", "close"},
                    content_length : {0}, fields : {<<>>}, m_body_size : {0},
                    m_response_parts : {<<>>}, m_chunks : {<<>>},
                    m_header_was_sent : {FALSE},
                    m_should_keep_alive_when_header_was_sent : {TRUE}]
    /\ made = <<>> /\ groups = <<>> /\ calls = <<>>

\* A call, remembered; the builder's output is `new` groups and headers.
Called(op, item, wscb) ==
    /\ Len(calls) < MaxCalls
    /\ calls' = Append(calls, [op |-> op, item |-> item, wscb |-> wscb])
    /\ UNCHANGED kind

SendsNothing == UNCHANGED <<made, groups>>

header_text == <<"header">>

\* The fields of create_header_string; content_length is skipped for chunks.
create_header_string(b) ==
    [connection |-> b.connection, fields |-> b.fields,
     content_length |-> IF kind = "chunked" THEN <<>> ELSE <<b.content_length>>]

if_neccessary_reserve_first_element_for_header(b) ==
    IF ~b.m_header_was_sent /\ b.m_response_parts = <<>>
    THEN [b EXCEPT !.m_response_parts = << <<>> >>] ELSE b

NotEmpty(item) == IF item = <<>> THEN <<>> ELSE <<item>>

-----------------------------------------------------------------------------
(* set_body, append_body, set_content_length, append_chunk and the calls  *)
(* on the header.                                                         *)
set_body(item) ==
    /\ kind # "chunked"
    /\ Called("set_body", item, FALSE)
    /\ builder' =
         LET b == if_neccessary_reserve_first_element_for_header(builder)
             kept == IF b.m_header_was_sent THEN <<>> ELSE SubSeq(b.m_response_parts, 1, 1)
         IN  [b EXCEPT !.m_response_parts = kept \o NotEmpty(item), !.m_body_size = Len(item)]
    /\ SendsNothing

append_body(item) ==
    /\ kind # "chunked"
    /\ Called("append_body", item, FALSE)
    /\ builder' =
         LET b == if_neccessary_reserve_first_element_for_header(builder)
         IN  IF kind = "user_controlled" /\ item = <<>> THEN builder
             ELSE [b EXCEPT !.m_response_parts = @ \o NotEmpty(item),
                            !.m_body_size = @ + Len(item)]
    /\ SendsNothing

set_content_length(n) ==
    /\ kind = "user_controlled"
    /\ Called("set_content_length", <<>>, FALSE)
    /\ builder' = [builder EXCEPT !.content_length = n]
    /\ SendsNothing

append_chunk(item) ==
    /\ kind = "chunked"
    /\ Called("append_chunk", item, FALSE)
    /\ builder' = [builder EXCEPT !.m_chunks = @ \o NotEmpty(item)]
    /\ SendsNothing

\* The handler names the codings of the body at most once.
append_header(codings) ==
    /\ ~has_field(builder.fields, TransferEncoding)
    /\ Called("append_header", <<>>, FALSE)
    /\ builder' = [builder EXCEPT !.fields = add_field(@, TransferEncoding, codings)]
    /\ SendsNothing

connection_attr(c) ==
    /\ Called("connection", <<>>, FALSE)
    /\ builder' = [builder EXCEPT !.connection = c]
    /\ SendsNothing

-----------------------------------------------------------------------------
Group(items, final, keep_alive, wscb) ==
    [items |-> items, final |-> final, keep_alive |-> keep_alive, wscb |-> wscb]

should_keep_alive(b) == b.connection = "keep_alive"

\* The builder controlled by RESTinio: done() sends all.
SendWhole(wscb) ==
    LET b == [if_neccessary_reserve_first_element_for_header(builder)
                EXCEPT !.content_length = builder.m_body_size]
    IN  /\ made' = Append(made, create_header_string(b))
        /\ groups' = Append(groups,
                Group([b.m_response_parts EXCEPT ![1] = header_text],
                      TRUE, should_keep_alive(b), wscb))
        /\ builder' = [b EXCEPT !.m_response_parts = <<>>, !.m_connection = FALSE]

\* send_ready_data of the builder controlled by the user.
SendParts(final, wscb) ==
    LET reserved == if_neccessary_reserve_first_element_for_header(builder)
        b == IF builder.m_header_was_sent THEN builder
             ELSE [reserved EXCEPT
                     !.m_should_keep_alive_when_header_was_sent = should_keep_alive(builder),
                     !.m_response_parts = [@ EXCEPT ![1] = header_text],
                     !.m_header_was_sent = TRUE]
        sends == b.m_response_parts # <<>> \/ wscb \/ final
    IN  /\ made' = IF builder.m_header_was_sent THEN made
                   ELSE Append(made, create_header_string(builder))
        /\ groups' = IF sends
                     THEN Append(groups, Group(b.m_response_parts, final,
                                     b.m_should_keep_alive_when_header_was_sent, wscb))
                     ELSE groups
        /\ builder' = [b EXCEPT !.m_response_parts = IF sends THEN <<>> ELSE @,
                                !.m_connection = ~final]

(* The chunked builder: Transfer-Encoding ends in chunked, and the chunks *)
(* are written with their sizes.                                          *)
prepare_header_for_sending(b) ==
    [b EXCEPT
       !.m_should_keep_alive_when_header_was_sent = should_keep_alive(b),
       !.fields =
            IF has_field(@, TransferEncoding)
               /\ Contains(get_field(@, TransferEncoding), "chunked")
            THEN @ ELSE append_field(@, TransferEncoding, <<"chunked">>)]

HexDigit == <<"0", "1", "2", "3", "4", "5", "6", "7", "8", "9", "A", "B", "C", "D", "E", "F">>

\* fmt::format( "{:X}", n ) for the sizes of the model, below 256.
Hex(n) ==
    (IF n < 16 THEN <<>> ELSE <<HexDigit[(n \div 16) + 1]>>) \o <<HexDigit[(n % 16) + 1]>>

CrLf == <<"CR", "LF">>

\* A plausible slip: the end of the last chunk is left to the next flush.
LastChunkUnended(b, add_zero_chunk) ==
    LET chunk(i) == <<(IF i = 1 THEN <<>> ELSE CrLf) \o Hex(Len(b.m_chunks[i])) \o CrLf,
                      b.m_chunks[i]>>
        appendix == IF add_zero_chunk
                    THEN (IF b.m_chunks = <<>> THEN <<>> ELSE CrLf) \o <<"0">> \o CrLf \o CrLf
                    ELSE <<>>
    IN  (IF b.m_header_was_sent THEN <<>> ELSE <<header_text>>)
        \o FlattenSeq([i \in DOMAIN b.m_chunks |-> chunk(i)]) \o NotEmpty(appendix)

create_bufs(b, add_zero_chunk) ==
    LET chunk(i) == <<(IF i = 1 THEN <<>> ELSE CrLf) \o Hex(Len(b.m_chunks[i])) \o CrLf,
                      b.m_chunks[i]>>
        appendix == (IF b.m_chunks = <<>> THEN <<>> ELSE CrLf)
                    \o (IF add_zero_chunk THEN <<"0">> \o CrLf \o CrLf ELSE <<>>)
    IN  (IF b.m_header_was_sent THEN <<>> ELSE <<header_text>>)
        \o FlattenSeq([i \in DOMAIN b.m_chunks |-> chunk(i)]) \o NotEmpty(appendix)

\* send_ready_data of the chunked builder.
SendChunks(final, wscb) ==
    LET b == IF builder.m_header_was_sent THEN builder ELSE prepare_header_for_sending(builder)
        bufs == create_bufs(b, final)
    IN  /\ made' = IF b.m_header_was_sent THEN made ELSE Append(made, create_header_string(b))
        /\ groups' = IF bufs # <<>> \/ wscb
                     THEN Append(groups, Group(bufs, final,
                                     b.m_should_keep_alive_when_header_was_sent, wscb))
                     ELSE groups
        /\ builder' = [b EXCEPT !.m_header_was_sent = TRUE, !.m_chunks = <<>>,
                                !.m_connection = ~final]

\* After done() a flush does nothing and another done() throws.
flush(wscb) ==
    /\ kind # "restinio_controlled"
    /\ Called("flush", <<>>, wscb)
    /\ IF ~builder.m_connection THEN UNCHANGED builder /\ SendsNothing
       ELSE IF kind = "chunked" THEN SendChunks(FALSE, wscb) ELSE SendParts(FALSE, wscb)

done(wscb) ==
    /\ Called("done", <<>>, wscb)
    /\ IF ~builder.m_connection THEN UNCHANGED builder /\ SendsNothing
       ELSE CASE kind = "restinio_controlled" -> SendWhole(wscb)
              [] kind = "user_controlled" -> SendParts(TRUE, wscb)
              [] kind = "chunked" -> SendChunks(TRUE, wscb)

BuilderNext ==
    \/ \E item \in Items : set_body(item) \/ append_body(item) \/ append_chunk(item)
    \/ set_content_length(1)
    \/ \E codings \in Codings : append_header(codings)
    \/ \E c \in {"keep_alive", "close"} \ {builder.connection} : connection_attr(c)
    \/ \E wscb \in BOOLEAN : flush(wscb) \/ done(wscb)

-----------------------------------------------------------------------------
(* Reference: the body a reader of the calls expects.  A set_body takes   *)
(* back what was given before it and not flushed; done() ends it all.     *)
IndexOfDone == {i \in DOMAIN calls : calls[i].op = "done"}

Ended == IndexOfDone # {}

BeforeDone(i) == \A d \in IndexOfDone : i < d

ExpectedBody ==
    LET stays(i) ==
            /\ BeforeDone(i)
            /\ \A j \in (i + 1)..Len(calls) :
                 (calls[j].op = "set_body" /\ BeforeDone(j)) =>
                     \E f \in i..j : calls[f].op = "flush"
    IN  FlattenSeq([i \in DOMAIN calls |-> IF stays(i) THEN calls[i].item ELSE <<>>])

\* Reference: a decoder of the chunked coding.
RECURSIVE Unchunk(_, _)
Unchunk(wire, body) ==
    LET sizes == {n \in 0..255 : /\ Len(wire) >= Len(Hex(n)) + 2
                                 /\ SubSeq(wire, 1, Len(Hex(n)) + 2) = Hex(n) \o CrLf}
        n == CHOOSE s \in sizes : TRUE
        from == Len(Hex(n)) + 2
        data == SubSeq(wire, from + 1, from + n)
        rest == SubSeq(wire, from + n + 1, Len(wire))
    IN  IF sizes = {} \/ (sizes # {} /\ Len(wire) < from + n + 2) THEN <<"malformed">>
        ELSE IF SubSeq(rest, 1, 2) # CrLf THEN <<"malformed">>
        ELSE IF n = 0 THEN (IF Len(rest) = 2 THEN body ELSE <<"malformed">>)
        ELSE Unchunk(SubSeq(rest, 3, Len(rest)), body \o data)

Wire == FlattenSeq(FlattenSeq([g \in DOMAIN groups |-> groups[g].items]))

(* A response is one header followed by the body that the handler gave,    *)
(* framed as the header announces it: by Content-Length, or by one chunked *)
(* coding that comes last.  Its write groups all carry the connection      *)
(* attribute of the header that was sent, only the last one is final, and  *)
(* nothing follows it (message_builders.hpp, send_ready_data, done).       *)
ResponseFramed ==
    /\ groups # <<>> =>
         /\ Len(made) = 1 /\ Head(Wire) = "header" /\ ~Contains(Tail(Wire), "header")
         /\ \A g \in DOMAIN groups :
              /\ groups[g].keep_alive = (made[1].connection = "keep_alive")
              /\ groups[g].final <=> (Ended /\ g = Len(groups))
    /\ Ended =>
         /\ groups # <<>>
         /\ LET body == Tail(Wire)
            IN  IF kind = "chunked"
                THEN /\ Unchunk(body, <<>>) = ExpectedBody
                     /\ made[1].content_length = <<>>
                     /\ LET codings == get_field(made[1].fields, TransferEncoding)
                        IN  {i \in DOMAIN codings : codings[i] = "chunked"} = {Len(codings)}
                ELSE /\ body = ExpectedBody
                     /\ kind = "restinio_controlled" =>
                            made[1].content_length = <<Len(body)>>

=============================================================================
