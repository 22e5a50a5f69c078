------------------------------ MODULE WsFrames ------------------------------
(***************************************************************************)
(* The frames of a websocket: the header parser and writer (ws_parser.hpp),*)
(* masking, and the validator of frame order, close codes and text         *)
(* (ws_protocol_validator.hpp).  Bytes are numbers of 0..255 and a masking *)
(* key is the sequence of its four bytes, most significant first.          *)
(***************************************************************************)
EXTENDS Utf8, Bitwise

Flag(byte, bit) == (byte \div (2 ^ bit)) % 2 = 1
BitIf(flag, bit) == IF flag THEN 2 ^ bit ELSE 0

-----------------------------------------------------------------------------
(* message_details_t and its two ways to bytes and back                    *)

NoKey == <<0, 0, 0, 0>>

ShortUpTo65536(len) ==
    CASE len <= 125 -> [payload_len |-> len, ext |-> 0]
      [] len \in 126..65536 -> [payload_len |-> 126, ext |-> len]
      [] len > 65536 -> [payload_len |-> 127, ext |-> len]

\* init_payload_len: up to 125 in place, then the code of a 2 or 8 byte number.
init_payload_len(len) ==
    CASE len <= 125 -> [payload_len |-> len, ext |-> 0]
      [] len \in 126..65535 -> [payload_len |-> 126, ext |-> len]
      [] len > 65535 -> [payload_len |-> 127, ext |-> len]

message_details(fin, rsv, opcode, len, masked, key) ==
    [fin |-> fin, rsv |-> rsv, opcode |-> opcode, mask |-> masked,
     payload_len |-> init_payload_len(len).payload_len,
     ext |-> init_payload_len(len).ext,
     key |-> IF masked THEN key ELSE NoKey]

\* message_details_t::payload_len()
PayloadLen(md) == IF md.payload_len > 125 THEN md.ext ELSE md.payload_len

read_number_from_big_endian_bytes(data) ==
    FoldLeft(LAMBDA number, byte : number * 256 + byte, 0, data)

\* The numbers of the model are below 2^31: higher bytes are zero.
write_number_to_big_endian_bytes(number, bytes) ==
    [i \in 1..bytes |->
        IF bytes - i > 3 THEN 0 ELSE (number \div (256 ^ (bytes - i))) % 256]

write_message_details(md) ==
    LET first == BitIf(md.fin, 7) + BitIf(1 \in md.rsv, 6) + BitIf(2 \in md.rsv, 5)
                 + BitIf(3 \in md.rsv, 4) + (md.opcode % 16)
        second == BitIf(md.mask, 7) + md.payload_len
        ext == CASE md.payload_len < 126 -> <<>>
                 [] md.payload_len = 126 -> write_number_to_big_endian_bytes(md.ext, 2)
                 [] md.payload_len = 127 -> write_number_to_big_endian_bytes(md.ext, 8)
    IN  <<first, second>> \o ext \o (IF md.mask THEN md.key ELSE <<>>)

\* ws_parser_t: the state, the bytes collected for it and how many it expects.
EmptyDetails == message_details(TRUE, {}, 0, 0, FALSE, NoKey)

ParserInit == [state |-> "waiting_for_first_2_bytes", loaded |-> <<>>,
               expected |-> 2, msg |-> EmptyDetails]

Expect(p, state, n) == [p EXCEPT !.state = state, !.loaded = <<>>, !.expected = n]

parse_first_2_bytes(md, data) ==
    [md EXCEPT !.fin = Flag(data[1], 7),
               !.rsv = {i \in 1..3 : Flag(data[1], 7 - i)},
               !.opcode = data[1] % 16,
               !.mask = Flag(data[2], 7),
               !.payload_len = data[2] % 128]

process_first_2_bytes(p) ==
    LET md == parse_first_2_bytes(p.msg, p.loaded)
        q == [p EXCEPT !.msg = md]
    IN  CASE md.payload_len = 126 -> Expect(q, "waiting_for_ext_len", 2)
          [] md.payload_len = 127 -> Expect(q, "waiting_for_ext_len", 8)
          [] md.payload_len <= 125 /\ md.mask -> Expect(q, "waiting_for_mask_key", 4)
          [] OTHER -> Expect(q, "header_parsed", md.payload_len)

process_extended_length(p) ==
    LET q == [p EXCEPT !.msg.ext = read_number_from_big_endian_bytes(p.loaded)]
    IN  IF q.msg.mask THEN Expect(q, "waiting_for_mask_key", 4)
        ELSE [q EXCEPT !.state = "header_parsed"]

process_masking_key(p) ==
    [p EXCEPT !.msg.key = p.loaded, !.state = "header_parsed"]

\* process_byte: the handler of the state runs when its bytes are complete.
process_byte(p, byte) ==
    LET q == [p EXCEPT !.loaded = Append(@, byte)]
    IN  CASE Len(q.loaded) < q.expected -> q
          [] q.state = "waiting_for_first_2_bytes" -> process_first_2_bytes(q)
          [] q.state = "waiting_for_ext_len" -> process_extended_length(q)
          [] q.state = "waiting_for_mask_key" -> process_masking_key(q)

header_parsed(p) == p.state = "header_parsed"

\* parser_execute consumes the bytes of a header and not one more.
RECURSIVE parser_execute(_, _, _)
parser_execute(p, data, parsed_bytes) ==
    IF parsed_bytes = Len(data) \/ header_parsed(p)
    THEN [parser |-> p, parsed |-> parsed_bytes]
    ELSE parser_execute(process_byte(p, data[parsed_bytes + 1]), data,
                        parsed_bytes + 1)

-----------------------------------------------------------------------------
(* Masking                                                                 *)

\* mask_unmask_payload: byte i is xor-ed with byte i mod 4 of the key.
mask_unmask_payload(key, payload) ==
    [i \in 1..Len(payload) |-> payload[i] ^^ key[((i - 1) % 4) + 1]]

UnmaskFromZero(v, byte) == byte ^^ v.mask[1]

\* unmasker_t counts the bytes of the frame over all its parts.
unmask_byte(v, byte) == byte ^^ v.mask[(v.unmasked % 4) + 1]

-----------------------------------------------------------------------------
(* ws_protocol_validator_t                                                 *)

Continuation == 0
Text == 1
Binary == 2
Close == 8
Ping == 9
Pong == 10

is_control_frame(opcode) == opcode \in {Close, Ping, Pong}
is_data_frame(opcode) == opcode \in {Text, Binary}
is_valid_opcode(opcode) == opcode \in {Continuation, Text, Binary, Close, Ping, Pong}

ValidatorInit ==
    [state |-> "initial_state", working |-> "empty_state", previous |-> "none",
     frame |-> EmptyDetails, closeCode |-> <<>>, utf8 |-> CheckerInit,
     mask |-> NoKey, unmasked |-> 0]

StillValid(state) ==
    state \in {"initial_state", "frame_header_is_valid", "payload_part_is_valid",
               "frame_is_valid"}

validate_frame_header(md) ==
    CASE ~is_valid_opcode(md.opcode) -> "invalid_opcode"
      [] is_control_frame(md.opcode) /\ ~md.fin -> "non_final_control_frame"
      [] ~md.mask -> "empty_mask_from_client_side"
      [] md.rsv # {} -> "non_zero_rsv_flags"
      [] is_control_frame(md.opcode) /\ PayloadLen(md) > 125 -> "payload_len_is_too_big"
      [] OTHER -> "frame_header_is_valid"

check_previous_frame_type(previous, opcode) ==
    CASE previous = "none" /\ opcode = Continuation ->
           "continuation_frame_without_data_frame"
      [] previous # "none" /\ is_data_frame(opcode) ->
           "new_data_frame_without_finishing_previous"
      [] OTHER -> "frame_header_is_valid"

\* process_new_frame: an unfinished data frame is remembered by its kind.
process_new_frame(v, md) ==
    LET header == validate_frame_header(md)
        order == check_previous_frame_type(v.previous, md.opcode)
        state == IF header = "frame_header_is_valid" THEN order ELSE header
    IN  IF state # "frame_header_is_valid" THEN [v EXCEPT !.state = state]
        ELSE [v EXCEPT
                 !.state = state,
                 !.working = "processing_frame",
                 !.previous = CASE md.opcode = Text /\ ~md.fin -> "text"
                                [] md.opcode = Binary /\ ~md.fin -> "binary"
                                [] OTHER -> @,
                 !.closeCode = IF md.opcode = Close THEN <<>> ELSE @,
                 !.frame = md,
                 !.mask = md.key,
                 !.unmasked = 0]

validate_close_code(code) ==
    code \in (1000..1011) \cup (3000..4999) /\ code \notin {1004, 1005, 1006}

CheckText(v, byte) ==
    LET u == CheckByte(v.utf8, byte)
    IN  [v EXCEPT !.utf8 = u,
                  !.state = IF Accepting(u) THEN @ ELSE "incorrect_utf8_data"]

\* process_payload_byte: text is checked as UTF-8 across the frames of a
\* message; of a close frame the code, then the reason.
process_payload_byte(w, masked) ==
    LET byte == unmask_byte(w, masked)
        v == [w EXCEPT !.unmasked = @ + 1]
        code == Append(v.closeCode, byte)
    IN  CASE \/ v.frame.opcode = Text
             \/ v.frame.opcode = Continuation /\ v.previous = "text" -> CheckText(v, byte)
          [] v.frame.opcode = Close /\ Len(v.closeCode) < 2 ->
               [v EXCEPT !.closeCode = code,
                         !.state = IF Len(code) = 2 /\ ~validate_close_code(
                                          read_number_from_big_endian_bytes(code))
                                   THEN "invalid_close_code" ELSE @]
          [] v.frame.opcode = Close /\ Len(v.closeCode) = 2 -> CheckText(v, byte)
          [] OTHER -> v

\* process_and_unmask_next_payload_part: stops at the first byte it rejects.
process_next_payload_part(v, part) ==
    IF ~StillValid(v.state) THEN v
    ELSE FoldLeft(LAMBDA acc, byte :
                      IF acc.state = "payload_part_is_valid"
                      THEN process_payload_byte(acc, byte) ELSE acc,
                  [v EXCEPT !.state = "payload_part_is_valid"], part)

FinishForgetsText(v) ==
    [v EXCEPT !.state = IF StillValid(@) THEN "frame_is_valid" ELSE @,
              !.working = "empty_state",
              !.previous = IF ~is_control_frame(v.frame.opcode) /\ v.frame.fin
                           THEN "none" ELSE @]

\* finish_frame: the verdict on the frame.  Every final frame, a control frame
\* between two fragments included, must not leave a character unfinished.
finish_frame(v) ==
    LET state == IF StillValid(v.state) THEN "frame_is_valid" ELSE v.state
    IN  [v EXCEPT
            !.state = IF v.frame.fin /\ ~finalized(v.utf8)
                      THEN "incorrect_utf8_data" ELSE state,
            !.utf8 = IF v.frame.fin THEN ResetChecker(@) ELSE @,
            !.working = "empty_state",
            !.previous = IF ~is_control_frame(v.frame.opcode) /\ v.frame.fin
                         THEN "none" ELSE @]

-----------------------------------------------------------------------------
(* A stream of frames as the connection feeds it to the validator: the     *)
(* header, the parts of the payload as they arrive, the end; up to the     *)
(* first frame that is not valid.  A frame is [fin, opcode, parts].        *)

Details(frame, key) ==
    message_details(frame.fin, {}, frame.opcode, Len(FlattenSeq(frame.parts)), TRUE, key)

MaskedParts(frame, key) ==
    LET masked == mask_unmask_payload(key, FlattenSeq(frame.parts))
        start(k) == Len(FlattenSeq(SubSeq(frame.parts, 1, k - 1)))
    IN  [k \in 1..Len(frame.parts) |->
            SubSeq(masked, start(k) + 1, start(k) + Len(frame.parts[k]))]

\* validate_frame_header, the parts, finish_frame; ready for the next frame
\* (finish_frame sets initial_state) when the verdict is frame_is_valid.
ValidateFrame(v, frame, key) ==
    LET started == process_new_frame(v, Details(frame, key))
        fed == FoldLeft(process_next_payload_part, started, MaskedParts(frame, key))
    IN  IF ~StillValid(started.state) THEN started
        ELSE IF ~StillValid(fed.state) THEN fed ELSE finish_frame(fed)

ValidateFrames(frames, key) ==
    FoldLeft(LAMBDA v, frame :
                 IF StillValid(v.state) THEN ValidateFrame(v, frame, key) ELSE v,
             ValidatorInit, frames)

FramesAccepted(frames, key) == StillValid(ValidateFrames(frames, key).state)

-----------------------------------------------------------------------------
(* The protocol by definition, on complete messages.                       *)

Payload(frame) == FlattenSeq(frame.parts)

CloseAllowed(frame) ==
    LET p == Payload(frame)
    IN  frame.opcode = Close /\ Len(p) >= 2 =>
            /\ validate_close_code(p[1] * 256 + p[2])
            /\ IsUtf8(SubSeq(p, 3, Len(p)))

\* The verdict on a stream, given the kind of the message that is open (0: none)
\* and what was received of it.  "open" when the last message is not finished,
\* "interrupted" when a control frame comes inside a character of a text.
RECURSIVE Verdict(_, _, _)
Verdict(frames, kind, received) ==
    LET f == Head(frames)
        text == received \o Payload(f)
        of == IF f.opcode = Continuation THEN kind ELSE f.opcode
    IN  CASE frames = <<>> -> IF kind = 0 THEN "ok" ELSE "open"
          [] frames # <<>> /\ is_control_frame(f.opcode) ->
               IF ~f.fin \/ ~CloseAllowed(f) THEN "bad"
               ELSE IF kind = Text /\ ~IsUtf8(received) THEN "interrupted"
               ELSE Verdict(Tail(frames), kind, received)
          [] frames # <<>> /\ ~is_control_frame(f.opcode) ->
               IF (f.opcode = Continuation) # (kind # 0) THEN "bad"
               ELSE IF ~f.fin THEN Verdict(Tail(frames), of, text)
               ELSE IF of = Text /\ ~IsUtf8(text) THEN "bad"
               ELSE Verdict(Tail(frames), 0, <<>>)

=============================================================================
