----------------------------- MODULE Multipart ------------------------------
(***************************************************************************)
(* helpers/multipart_body.hpp, helpers/file_upload.hpp and sync_chain/:    *)
(* a multipart body is cut at its boundary, each part is parsed into       *)
(* fields and a body, and the parts that hold uploaded files are passed to *)
(* a handler until it stops the enumeration.  The request is a record of   *)
(* the value of Content-Type (an optional) and the body.  A handler is the *)
(* sequence of what its calls return.                                      *)
(***************************************************************************)
EXTENDS HttpFields

eol == <<"CR", "LF">>

last_separator == <<"-", "-">> \o eol

StartsWith(s, prefix) == Len(s) >= Len(prefix) /\ SubSeq(s, 1, Len(prefix)) = prefix

Drop(s, n) == SubSeq(s, n + 1, Len(s))

\* string_view::find: the first position of `what`, counted from 0, or <<>>.
find(s, what) ==
    LET at == {i \in 0..(Len(s) - Len(what)) : SubSeq(s, i + 1, i + Len(what)) = what}
    IN  IF at = {} THEN <<>> ELSE <<Min(at)>>

\* A plausible slip: a boundary inside a line ends the part.
AnywhereInLine(s, pos) == pos >= Len(eol)

\* The text at position `pos` follows an end of line.
AfterEol(s, pos) == pos >= Len(eol) /\ SubSeq(s, pos - Len(eol) + 1, pos) = eol

(* split_multipart_body: the loop over the parts, then the whole function. *)
RECURSIVE SplitParts(_, _, _)
SplitParts(remaining_body, boundary, tmp_result) ==
    IF ~StartsWith(remaining_body, eol) THEN <<>>
    ELSE LET part == Drop(remaining_body, Len(eol))
             pos == find(part, boundary)
         IN  IF pos = <<>> \/ (pos # <<>> /\ ~AfterEol(part, pos[1])) THEN <<>>
             ELSE LET result == Append(tmp_result, SubSeq(part, 1, pos[1] - Len(eol)))
                      rest == Drop(part, pos[1] + Len(boundary))
                  IN  IF StartsWith(rest, last_separator) THEN result
                      ELSE SplitParts(rest, boundary, result)

split_multipart_body(body, boundary) ==
    LET pos == find(body, boundary)
    IN  IF pos = <<>> \/ (pos # <<>> /\ pos[1] # 0 /\ ~AfterEol(body, pos[1])) THEN <<>>
        ELSE LET rest == Drop(body, pos[1] + Len(boundary))
             IN  IF StartsWith(rest, last_separator) THEN <<>>
                 ELSE SplitParts(rest, boundary, <<>>)

(* make_parser: the fields of a part, an empty line, the body. *)
make_part_parser ==
    produce([fields |-> <<>>, body |-> <<>>],
        <<field_setter(produce(<<>>,
              <<repeat(0, N,
                  <<to_container(produce([name |-> <<>>, value |-> <<>>],
                      <<field_setter(to_lower(token_p), "name"), symbol(":"), ows,
                        field_setter([is |-> "field_value"], "value"),
                        symbol("CR"), symbol("LF")>>))>>)>>), "fields"),
          symbol("CR"), symbol("LF"),
          field_setter([is |-> "rest"], "body")>>)

\* The part is not required to be read to its end: the body is its rest.
try_parse_part(part) == try_parse(make_part_parser, part, 0)

is_bcharnospace(ch) ==
    ch \in IsDigit \union IsAlpha \union CharSet("'()+_,-./:=?")

is_bchar(ch) == is_bcharnospace(ch) \/ ch = " "

\* The longest boundary the code accepts.
MaxBoundary == 70

check_boundary_value(value) ==
    /\ Len(value) \in 1..MaxBoundary
    /\ \A i \in 1..(Len(value) - 1) : is_bchar(value[i])
    /\ is_bcharnospace(value[Len(value)])

Caseless(text) == [i \in DOMAIN text |-> to_lower_case(text[i])]

BoundaryOf(media_type, expected_media_type, expected_media_subtype) ==
    LET boundary == find_first(media_type.parameters, Chars("boundary"))
    IN  IF \/ Caseless(expected_media_type) # Caseless(media_type.type)
           \/ /\ expected_media_subtype # <<>>
              /\ Caseless(expected_media_subtype[1]) # Caseless(media_type.subtype)
           \/ ~boundary.ok
        THEN Failed("content_type_field_inappropriate_value", 0)
        ELSE IF ~check_boundary_value(boundary.value) THEN Failed("illegal_boundary_value", 0)
        ELSE Parsed(<<"-", "-">> \o boundary.value, 0)

BoundaryFrom(parsed, expected_media_type, expected_media_subtype) ==
    IF ~parsed.ok THEN Failed("content_type_field_parse_error", 0)
    ELSE BoundaryOf(parsed.value.media_type, expected_media_type, expected_media_subtype)

detect_boundary_for_multipart_body(req, expected_media_type, expected_media_subtype) ==
    IF req.content_type = <<>> THEN Failed("content_type_field_not_found", 0)
    ELSE BoundaryFrom(ParseAll(content_type_value, req.content_type[1]),
                      expected_media_type, expected_media_subtype)

-----------------------------------------------------------------------------
\* opt_value_of: the value of the first field of that name.
opt_value_of(fields, name) ==
    LET found == {i \in DOMAIN fields : Caseless(fields[i].name) = name}
    IN  IF found = {} THEN <<>> ELSE <<fields[Min(found)].value>>

Optional(found) == IF found.ok THEN <<found.value>> ELSE <<>>

(* analyze_part: a part holds a file if its disposition is form-data, has *)
(* a name and one of the two file names.                                  *)
FileOf(body, parameters) ==
    LET param(name) == Optional(find_first(parameters, Chars(name)))
    IN  IF param("name") = <<>>
        THEN Failed("content_disposition_field_inappropriate_value", 0)
        ELSE IF param("filename*") = <<>> /\ param("filename") = <<>>
        THEN Failed("no_files_found", 0)
        ELSE Parsed([body |-> body, name |-> param("name")[1],
                     filename_star |-> param("filename*"), filename |-> param("filename")], 0)

FileFrom(body, parsed) ==
    IF ~parsed.ok THEN Failed("content_disposition_field_parse_error", 0)
    ELSE IF parsed.value.value # Chars("form-data") THEN Failed("no_files_found", 0)
    ELSE FileOf(body, parsed.value.parameters)

analyze_part(part) ==
    LET disposition_field == opt_value_of(part.fields, Chars("content-disposition"))
    IN  IF disposition_field = <<>> THEN Failed("no_files_found", 0)
        ELSE FileFrom(part.body, ParseAll(content_disposition_value, disposition_field[1]))

\* What an enumeration has come to: the files passed to the user's handler,
\* the answers its next calls will give, and whether it has ended.
Enumerating(files, answers) ==
    [ok |-> TRUE, ended |-> FALSE, files |-> files, answers |-> answers, error |-> "none"]

EndedBy(ok, files, error) ==
    [ok |-> ok, ended |-> TRUE, files |-> files, answers |-> <<>>, error |-> error]

\* The handler that enumerate_parts_with_files wraps around the user's.
HandlePart(e, part) ==
    LET called == Append(e.files, part.value)
    IN  CASE part.ok /\ Head(e.answers) = "continue_enumeration" ->
               Enumerating(called, Tail(e.answers))
          [] part.ok /\ Head(e.answers) = "stop_enumeration" -> EndedBy(TRUE, called, "none")
          [] part.ok /\ Head(e.answers) = "terminate_enumeration" ->
               EndedBy(FALSE, called, "terminated_by_handler")
          [] ~part.ok /\ part.reason = "no_files_found" -> e
          [] ~part.ok /\ part.reason # "no_files_found" -> EndedBy(FALSE, e.files, part.reason)

EnumeratePart(e, parsed) ==
    IF parsed.ok THEN HandlePart(e, analyze_part(parsed.value))
    ELSE EndedBy(FALSE, e.files, "unexpected_error")

enumerate_parts_of_request_body(parts, answers) ==
    FoldLeft(LAMBDA e, part : IF e.ended THEN e ELSE EnumeratePart(e, try_parse_part(part)),
             Enumerating(<<>>, answers), parts)

PartsEnumerated(parts, answers) ==
    IF parts = <<>> THEN EndedBy(FALSE, <<>>, "no_parts_found")
    ELSE enumerate_parts_of_request_body(parts, answers)

EnumeratedWith(boundary, body, answers) ==
    IF ~boundary.ok THEN EndedBy(FALSE, <<>>, boundary.reason)
    ELSE PartsEnumerated(split_multipart_body(body, boundary.value), answers)

enumerate_parts_with_files(req, answers) ==
    EnumeratedWith(
        detect_boundary_for_multipart_body(req, Chars("multipart"), <<Chars("form-data")>>),
        req.body, answers)

-----------------------------------------------------------------------------
(* sync_chain: the handlers are called in order until one of them accepts *)
(* or rejects the request.                                                *)
handle_by_chain(handlers) ==
    LET final == {i \in DOMAIN handlers : handlers[i] \in {"accepted", "rejected"}}
    IN  IF final = {} THEN [called |-> Len(handlers), status |-> "not_handled"]
        ELSE [called |-> Min(final), status |-> handlers[Min(final)]]

=============================================================================
