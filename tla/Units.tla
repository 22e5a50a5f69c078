-------------------------------- MODULE Units -------------------------------
(***************************************************************************)
(* The parts of restinio that work on one value or for one caller, side by *)
(* side: in every behaviour one of them, `unit`, is at work.               *)
(*                                                                         *)
(* HttpInput, MessageBuilders, Sendfile and Server are state machines.     *)
(* The other units are functions of the code (WsFrames, HttpFields,        *)
(* Codecs, Router, Multipart): a job is picked, the function computes the  *)
(* result, and the properties compare it with a reference that does not    *)
(* follow the code.                                                        *)
(***************************************************************************)
EXTENDS WsFrames, FieldGrammar, Router, Multipart, MessageBuilders, Sendfile, Server

CONSTANTS
    StateUnits, \* Which of the state machines are explored.
    Jobs,       \* For each of the other units, the sets of its jobs.
    Routers     \* The routers of the jobs, by name: the sequences of their entries.

VARIABLES unit, job, result

jobVars == <<unit, job, result>>
unitsVars == <<jobVars, inputVars, builderVars, sendfileVars, serverVars>>

-----------------------------------------------------------------------------
(* What the functions compute for a job.                                   *)

\* A header and what follows it arrive in two reads.
ReadHeader(bytes, cut) ==
    LET first == parser_execute(ParserInit, SubSeq(bytes, 1, cut), 0)
        second == parser_execute(first.parser, SubSeq(bytes, cut + 1, Len(bytes)), 0)
    IN  IF header_parsed(first.parser) THEN first
        ELSE [second EXCEPT !.parsed = @ + first.parsed]

JobDetails == message_details(job.fin, job.rsv, job.opcode, job.len, job.masked, job.key)

RawText(pieces) == FlattenSeq([i \in DOMAIN pieces |-> pieces[i].text])

\* A query string, as a client writes it from the pairs of the job.
QueryText ==
    LET pair(p) == escape_percent_encoding(job.traits, p[1]) \o <<"=">>
                   \o escape_percent_encoding(job.traits, p[2])
        separated(i) == (IF i = 1 THEN <<>> ELSE <<job.separator>>) \o pair(job.pairs[i])
    IN  FlattenSeq([i \in DOMAIN job.pairs |-> separated(i)]) \o job.more

Entries == Routers[job.router]

ExpressEntries ==
    [i \in DOMAIN Entries |->
        [method |-> Entries[i].method,
         route |-> path2regex(RawText(Entries[i].pieces), Entries[i].opts).value]]

EasyParserEntries ==
    [i \in DOMAIN Entries |->
        [method |-> Entries[i].method,
         route |-> [k \in DOMAIN Entries[i].pieces |-> Entries[i].pieces[k].item]]]

RouterOf(entries) == [entries |-> entries, non_matched_request_handler |-> job.last]

Compute ==
    CASE unit = "header" ->
           ReadHeader(write_message_details(JobDetails) \o job.more, job.cut)
      [] unit = "frames" -> FramesAccepted(job.frames, job.key)
      [] unit = "field" ->
           try_extract_field_value_from(FieldParser[job.field], job.text, <<>>)
      [] unit = "auth" -> [basic |-> basic_auth(job.text), bearer |-> bearer_auth(job.text)]
      [] unit = "number" ->
           [from_string |-> parse_integer(job.type, job.text),
            easy_parser |-> ParseAll(IF job.type.signed
                                     THEN decimal_number_p(job.type, from_one_to_max)
                                     ELSE number_p(job.type), job.text)]
      [] unit = "base64" -> try_decode(job.text)
      [] unit = "bytes" -> try_decode(encode(job.bytes))
      [] unit = "escaped" -> unescape_percent_encoding(job.traits, RawText(job.pieces))
      [] unit = "text" ->
           unescape_percent_encoding(job.traits, escape_percent_encoding(job.traits, job.text))
      [] unit = "query" -> try_parse_query(job.traits, QueryText)
      [] unit = "express" ->
           express_router(RouterOf(ExpressEntries), job.method, RawText(job.pieces))
      [] unit = "easy_parser" ->
           easy_parser_router(RouterOf(EasyParserEntries), job.method, RawText(job.pieces))
      [] unit = "multipart" -> split_multipart_body(RawText(job.pieces), job.boundary)
      [] unit = "upload" ->
           enumerate_parts_with_files([content_type |-> job.content_type.text,
                                       body |-> RawText(job.pieces) \o job.boundary \o last_separator],
                                      job.answers)
      [] unit = "chain" -> handle_by_chain(job.handlers)

DoJob ==
    /\ unit \notin StateUnits /\ result = <<>>
    /\ result' = <<Compute>>
    /\ UNCHANGED <<unit, job, inputVars, builderVars, sendfileVars, serverVars>>

-----------------------------------------------------------------------------
(* The state machines.  One that is not explored rests where it begins.    *)

InputRests ==
    /\ sent = <<>> /\ todo = <<>> /\ ctx = http_parser_ctx
    /\ requests = <<>> /\ failed = FALSE

BuilderRests ==
    /\ kind = "chunked" /\ builder = <<>> /\ made = <<>> /\ groups = <<>> /\ calls = <<>>

SendfileRests ==
    /\ socket = "tcp" /\ range = [m_offset |-> 0, m_size |-> 0] /\ file_size = 0
    /\ runner = <<>> /\ at = "start" /\ buffer = <<>> /\ wire = <<>> /\ told = <<>>

ServerRests == mode = (CHOOSE m \in Modes : TRUE) /\ ServerInit

UnitsInit ==
    /\ result = <<>>
    /\ \/ unit \in StateUnits /\ job = <<>>
       \/ unit \in DOMAIN Jobs /\ \E jobs \in Jobs[unit] : job \in jobs
    /\ IF unit = "input" THEN InputInit ELSE InputRests
    /\ IF unit = "builder" THEN BuilderInit ELSE BuilderRests
    /\ IF unit = "sendfile" THEN SendfileInit ELSE SendfileRests
    /\ IF unit = "server" THEN ServerInit ELSE ServerRests

UnitsNext ==
    \/ DoJob
    \/ unit = "input" /\ InputNext
       /\ UNCHANGED <<jobVars, builderVars, sendfileVars, serverVars>>
    \/ unit = "builder" /\ BuilderNext
       /\ UNCHANGED <<jobVars, inputVars, sendfileVars, serverVars>>
    \/ unit = "sendfile" /\ SendfileNext
       /\ UNCHANGED <<jobVars, inputVars, builderVars, serverVars>>
    \/ unit = "server" /\ ServerNext
       /\ UNCHANGED <<jobVars, inputVars, builderVars, sendfileVars>>

\* Only the threads of a server are assumed to be scheduled (ServerFairSpec).
UnitsSpec ==
    /\ UnitsInit /\ [][UnitsNext]_unitsVars
    /\ WF_serverVars(unit = "server" /\ main # "terminated" /\ Caller)
    /\ \A t \in Threads :
          WF_serverVars(unit = "server" /\ main # "terminated" /\ PoolThread(t))

-----------------------------------------------------------------------------
(* The properties.  Done(u): the job of unit u has its result.             *)

Done(u) == unit = u /\ result # <<>>

(* Whatever the cuts of the reads, the header that write_message_details   *)
(* wrote is what ws_parser_t::parser_execute reads, and not one byte of    *)
(* what follows is consumed.  The validator accepts a complete stream of   *)
(* frames iff the protocol allows it: fragments in order, control frames   *)
(* whole, texts in UTF-8 across their fragments and parts, close codes     *)
(* allowed (ws_protocol_validator_t, unmasker_t, utf8_checker_t).          *)
FramesExact ==
    /\ Done("header") =>
         /\ header_parsed(result[1].parser)
         /\ result[1].parser.msg = JobDetails
         /\ PayloadLen(result[1].parser.msg) = job.len
         /\ result[1].parsed = Len(write_message_details(JobDetails))
    /\ Done("frames") =>
         LET verdict == Verdict(job.frames, 0, <<>>)
         IN  /\ verdict = "ok" => result[1]
             /\ verdict = "bad" => ~result[1]

\* A user and a password, or a token, are what an Authorization field carries.
AuthExact(r) ==
    CASE job.is = "basic" ->
           /\ r.basic.ok <=> job.username # <<>>
           /\ r.basic.ok => r.basic.value = [username |-> job.username, password |-> job.password]
           /\ ~r.bearer.ok
      [] job.is = "bearer" -> ~r.basic.ok /\ r.bearer.ok /\ r.bearer.value.token = job.token
      [] job.is = "none" -> ~r.basic.ok /\ ~r.bearer.ok

(* The number that a text of a sign and digits stands for.                 *)
Signed(text) == text # <<>> /\ text[1] \in {"+", "-"}
DigitsOf(text) == IF Signed(text) THEN Tail(text) ELSE text
IsNumeral(text) == DigitsOf(text) # <<>> /\ ToSet(DigitsOf(text)) \subseteq IsDigit
NumberOf(text) ==
    LET n == FoldLeft(LAMBDA sum, c : sum * 10 + DigitValue(c), 0, DigitsOf(text))
    IN  IF text[1] = "-" THEN -n ELSE n
InRange(t, n) ==
    n \in IF t.signed THEN -(2 ^ (t.bits - 1))..(2 ^ (t.bits - 1) - 1) ELSE 0..(2 ^ t.bits - 1)

\* The numbers of a derivation: the port of a host, the positions of a byte range.
NumbersIn(field, texts) ==
    CASE field = "host" -> {texts[i] : i \in DOMAIN texts \cap {3}}
      [] field = "range" /\ texts[1] = <<"b">> -> {t \in ToSet(Tail(texts)) : t # <<"-">>}
      [] OTHER -> {}
TypeOfNumbers(field) == IF field = "host" THEN UintType(16) ELSE Pos20

\* A text with a number that its type cannot hold.
TooLarge(field, derivations) ==
    LET type == TypeOfNumbers(field)
    IN  \E texts \in derivations : \E t \in NumbersIn(field, texts) :
            Len(t) > Len(max_representation(type)) \/ ~InRange(type, NumberOf(t))

\* What the grammar derives and the code does not take.
NotTaken(field, text) ==
    \/ field = "host" /\ LooksLikeIPv4(text)
    \/ field = "transfer_encoding" /\ Derivations(List1(NarrowCoding), text) = {}

(* The parser of a field accepts exactly the texts of the grammar that its *)
(* documentation quotes, and the value holds the texts of a derivation; so *)
(* no failed alternative, optional clause or repetition of easy_parser     *)
(* leaves a trace (http_field_parsers/, easy_parser.hpp).  Three things    *)
(* the code does differently, and nothing else.  A host name that begins   *)
(* with an IPv4 address may be refused: the order of the alternatives is   *)
(* final.  A coding that RFC 7230 names is not taken with parameters, nor  *)
(* white space around the "=" of a transfer-parameter                      *)
(* (transfer-encoding.hpp:42-43 has both).  A number too large for its     *)
(* type is refused or stands for another one: see OverflowNoticed.         *)
FieldsExact ==
    /\ Done("field") =>
         LET text == remove_trailing_spaces(job.text[1])
             texts == IF job.text = <<>> THEN {} ELSE Derivations(Grammar[job.field], text)
         IN  IF result[1].ok
             THEN FieldTexts(job.field, result[1].value) \in texts \/ TooLarge(job.field, texts)
             ELSE texts = {} \/ NotTaken(job.field, text) \/ TooLarge(job.field, texts)
    /\ Done("auth") => AuthExact(result[1])

-----------------------------------------------------------------------------
(* from_string takes a sign (no minus for an unsigned type) and at most as *)
(* many digits as the greatest value has, and refuses a numeral out of     *)
(* range; easy_parser takes a sign for a signed type.  What they do not    *)
(* take is refused, with two exceptions: from_string takes an @ for a      *)
(* digit, and easy_parser takes some numerals that are out of range.       *)
NumbersExact(r) ==
    LET t == job.type
        fits == IsNumeral(job.text) /\ InRange(t, NumberOf(job.text))
        short == Len(DigitsOf(job.text)) <= Len(Decimal(extremum_value(t, "+")))
        minus == job.text # <<>> /\ job.text[1] = "-"
        digitLike == short /\ ToSet(DigitsOf(job.text)) \subseteq IsDigit \cup {"@"}
    IN  /\ fits /\ short /\ (minus => t.signed) =>
               r.from_string.ok /\ r.from_string.value = NumberOf(job.text)
        /\ r.from_string.ok /\ ~fits => "@" \in ToSet(job.text) /\ digitLike
        /\ r.from_string.ok => short /\ (minus => t.signed)
        /\ fits /\ (Signed(job.text) => t.signed) =>
               r.easy_parser.ok /\ r.easy_parser.value = NumberOf(job.text)
        /\ r.easy_parser.ok => IsNumeral(job.text) /\ (Signed(job.text) => t.signed)

\* A base64 text, but for its length: one or two paddings at its end at most.
IsBase64(text) ==
    /\ text # <<>>
    /\ \E n \in 0..2 : LET body == SubSeq(text, 1, Len(text) - n)
                       IN  /\ ToSet(body) \subseteq ToSet(base64_alphabet)
                           /\ \A i \in (Len(body) + 1)..Len(text) : text[i] = "="

\* A text without whole groups is refused when it is shorter than a group or not
\* base64; otherwise its last group is read past the end of the text.
Base64Exact(r) ==
    IF Len(job.text) % 4 = 0 THEN r.ok <=> IsBase64(job.text)
    ELSE ~r.ok /\ (r.reason = "undefined" <=> Len(job.text) > 4 /\ IsBase64(job.text))

\* A piece of an escaped text stands for bytes unless it is bad for the traits.
PieceBytes(pieces) == FlattenSeq([i \in DOMAIN pieces |-> pieces[i].bytes])

(* What is encoded is decoded to itself, a text is accepted iff it is well *)
(* formed, and no character or digit is taken for another: base64          *)
(* (utils/base64.hpp), percent-encoding with UTF-8 across escapes          *)
(* (utils/percent_encoding.hpp), the pairs of a query string               *)
(* (uri_helpers.hpp), integers (utils/from_string.hpp, easy_parser.hpp).   *)
(* The exceptions are the ones NumbersExact and Base64Exact state: an @    *)
(* among the digits (from_string_details.ipp:20), numerals whose overflow  *)
(* easy_parser does not notice (OverflowNoticed), and base64 whose last    *)
(* group is not whole, which is not refused but read past its end.         *)
CodecsExact ==
    /\ Done("number") => NumbersExact(result[1])
    /\ Done("base64") => Base64Exact(result[1])
    /\ Done("bytes") => result[1].ok /\ result[1].value = job.bytes
    /\ Done("escaped") =>
         LET bytes == PieceBytes(job.pieces)
         IN  IF \E i \in DOMAIN job.pieces : job.traits \in job.pieces[i].bad
             THEN ~result[1].ok
             ELSE /\ result[1].ok <=> IsUtf8(bytes)
                  /\ result[1].ok => result[1].value = bytes
    /\ Done("text") => result[1].ok /\ result[1].value = Codes(job.text)
    /\ Done("query") =>
         LET pairs == [i \in DOMAIN job.pairs |-> <<Codes(job.pairs[i][1]), Codes(job.pairs[i][2])>>]
         IN  /\ result[1].ok /\ result[1].value.pairs = pairs
             /\ \A i \in DOMAIN pairs :
                  (\A k \in 1..(i - 1) : pairs[k][1] # pairs[i][1]) =>
                      get_param(result[1].value, pairs[i][1]) = <<pairs[i][2]>>

(* "Value of the accumulator will be changed only if there is no overflow" *)
(* (overflow_controlled_integer_accumulator.hpp:153): a numeral that its   *)
(* type cannot hold yields no number.  The code asks whether the value got *)
(* smaller, which misses overflows: 300 is read as 44.                     *)
OverflowNoticed ==
    Done("number") /\ result[1].easy_parser.ok =>
        result[1].easy_parser.value = NumberOf(job.text)

-----------------------------------------------------------------------------
(* Routes.  A piece of a route has its text (express) or its item          *)
(* (easy_parser), the names of its parameters and a grammar whose texts    *)
(* are the values of the parameters.  A piece of a path has its text and   *)
(* the text it is normalized to.                                           *)

PlainPiece(str) == [text |-> Chars(str), names |-> <<>>, means |-> Lit(Lowered(Chars(str)))]
CasePiece(str) ==
    [text |-> Chars(str), names |-> <<>>,
     means |-> Cat([i \in 1..Len(str) |-> DropChar({Chars(str)[i]})])]
ParamPiece(str, names, means) == [text |-> Chars(str), names |-> names, means |-> means]
ItemPiece(item, names, means) == [item |-> item, names |-> names, means |-> means]

Fragment(delimiter) == Rep(1, Many, KeepChar(ToSet(AsciiText) \ {delimiter}))
Prefixed(prefix, means) == Cat(<<DropChar({prefix}), means>>)
Maybe(means) == Alt(<<means, Emit(<<>>)>>)
Repeated(prefix, means) == Cat(<<means, Some(Cat(<<KeepChar({prefix}), means>>))>>)

RouteMeans(entry) == Cat([k \in DOMAIN entry.pieces |-> entry.pieces[k].means])
RouteNames(entry) == FlattenSeq([k \in DOMAIN entry.pieces |-> entry.pieces[k].names])

Normalized == FlattenSeq([i \in DOMAIN job.pieces |-> job.pieces[i].normal])
Unnormal == \E i \in DOMAIN job.pieces : job.pieces[i].normal = <<"bad">>

\* Where the match of an express route may end: at the end of the path, before
\* one of ends_with and, when the route is only a beginning, before a delimiter.
MayEnd(entry, target, n) ==
    LET opts == entry.opts
        rest == SubSeq(target, n + 1, Len(target))
        route == RawText(entry.pieces)
    IN  \/ rest = <<>>
        \/ \E k \in DOMAIN opts.ends_with : StartsWith(rest, opts.ends_with[k])
        \/ ~opts.ending /\ (rest[1] = "/" \/ route = <<>> \/ Last(route) = "/")

ExpressTexts(entry) ==
    LET slash == IF entry.opts.strict THEN <<>> ELSE <<Opt(DropChar({"/"}))>>
        route == Cat(<<RouteMeans(entry)>> \o slash)
        target == Normalized
    IN  UNION {Derivations(route, SubSeq(target, 1, n)) :
                  n \in {k \in 0..Len(target) : MayEnd(entry, target, k)}}

EasyParserTexts(entry) ==
    LET target == Normalized
    IN  Derivations(RouteMeans(entry), IF Len(target) > 1 /\ Last(target) = "/"
                                       THEN Front(target) ELSE target)

\* A text as unescape() yields it: bytes, unless it holds a character that has to
\* be escaped.
RECURSIVE Unescaped(_)
Unescaped(text) ==
    IF text = <<>> THEN <<>>
    ELSE IF text[1] = "%"
    THEN <<DigitValue(text[2]) * 16 + DigitValue(text[3])>> \o Unescaped(SubSeq(text, 4, Len(text)))
    ELSE <<IF text[1] = "+" THEN 32 ELSE Code(text[1])>> \o Unescaped(Tail(text))
HasToBeEscaped(c) == c \notin IsAlphanum \cup CharSet("-.~_+%/")

\* The handler called is that of the first entry that the request matches.
FirstMatch(texts(_)) ==
    LET found == {i \in DOMAIN Entries :
                    /\ (job.method \in Entries[i].method.methods)
                         <=> (Entries[i].method.is = "any_of")
                    /\ texts(Entries[i]) # {}}
    IN  IF found # {} THEN Min(found) ELSE IF job.last THEN 0 ELSE -1

Throws(r) == "params" \notin DOMAIN r /\ r.handler = "throws"

HandlerIs(r, first) ==
    CASE first = 0 -> "params" \notin DOMAIN r /\ r.handler = "non_matched"
      [] first = -1 -> "params" \notin DOMAIN r /\ r.handler = "not_handled"
      [] OTHER -> "params" \in DOMAIN r /\ r.handler = first

WithNames(entry, texts) ==
    LET names == RouteNames(entry)
        pairs == [i \in DOMAIN names |-> <<names[i], texts[i]>>]
    IN  [named |-> SelectSeq(pairs, LAMBDA p : p[1] # <<>>),
         indexed |-> SelectSeq(pairs, LAMBDA p : p[1] = <<>>)]

\* The values of an easy_parser route; a piece named "unescape" gives bytes.
ValuesOf(entry, texts) ==
    LET names == RouteNames(entry)
    IN  [i \in DOMAIN names |-> CASE names[i] = "unescape" -> Unescaped(texts[i])
                                  [] names[i] = "number" -> NumberOf(texts[i])
                                  [] names[i] = "text" -> texts[i]]

(* A request goes to the handler of the first entry, in the order of       *)
(* registration, whose methods and route match the normalized path, with   *)
(* parameters that the route derives from it; to the handler of            *)
(* non-matched requests when there is none.  A path whose escapes are not  *)
(* UTF-8 reaches no handler, and the easy_parser router throws only for    *)
(* such a path or one that unescape() refuses (path2regex.hpp, express.hpp,*)
(* easy_parser_router.hpp, target_path_holder.hpp, method_matcher.hpp).    *)
RoutesExact ==
    /\ Done("express") =>
         IF Unnormal THEN Throws(result[1])
         ELSE LET first == FirstMatch(ExpressTexts)
              IN  /\ HandlerIs(result[1], first)
                  /\ first > 0 =>
                       \E texts \in ExpressTexts(Entries[first]) :
                           result[1].params = WithNames(Entries[first], texts)
    /\ Done("easy_parser") =>
         LET first == FirstMatch(EasyParserTexts)
         IN  IF Unnormal THEN Throws(result[1])
             ELSE IF \E i \in DOMAIN Normalized : HasToBeEscaped(Normalized[i])
             THEN Throws(result[1]) \/ HandlerIs(result[1], first)
             ELSE /\ HandlerIs(result[1], first)
                  /\ first > 0 =>
                       \E texts \in EasyParserTexts(Entries[first]) :
                           result[1].params = ValuesOf(Entries[first], texts)

-----------------------------------------------------------------------------
(* A multipart body as a sequence of lexemes: boundary, eol, dashes, text. *)
Lexeme(i) == IF i \in DOMAIN job.pieces THEN job.pieces[i].lexeme ELSE "none"

Boundaries ==
    SelectSeq([i \in DOMAIN job.pieces |-> i], LAMBDA i : Lexeme(i) = "boundary")

\* The k-th part lies between two boundaries, each on a line of its own.
PartIsWhole(k) ==
    LET from == Boundaries[k]
        to == Boundaries[k + 1]
    IN  Lexeme(from + 1) = "eol" /\ Lexeme(to - 1) = "eol" /\ from + 1 < to - 1

ExpectedParts ==
    LET bs == Boundaries
        final == {k \in DOMAIN bs : Lexeme(bs[k] + 1) = "dashes" /\ Lexeme(bs[k] + 2) = "eol"}
        count == Min(final) - 1
    IN  IF \/ final = {}
           \/ bs[1] # 1 /\ Lexeme(bs[1] - 1) # "eol"
           \/ \E k \in 1..count : ~PartIsWhole(k)
        THEN <<>>
        ELSE [k \in 1..count |-> RawText(SubSeq(job.pieces, bs[k] + 2, bs[k + 1] - 2))]

\* What an upload should do with the parts left, given the answers left.  A part
\* is "file", "other" (no file in it) or in error.
RECURSIVE UploadMeans(_, _, _)
UploadMeans(pieces, answers, files) ==
    IF pieces = <<>> THEN [files |-> files, ok |-> TRUE]
    ELSE LET part == Head(pieces).part
         IN  CASE part = "other" -> UploadMeans(Tail(pieces), answers, files)
               [] part = "error" -> [files |-> files, ok |-> FALSE]
               [] part = "file" ->
                    LET called == Append(files, Head(pieces).file)
                    IN  IF Head(answers) = "continue_enumeration"
                        THEN UploadMeans(Tail(pieces), Tail(answers), called)
                        ELSE [files |-> called, ok |-> Head(answers) = "stop_enumeration"]

(* A multipart body is cut into the parts between its boundaries, each on  *)
(* a line of its own, and yields nothing unless it is whole to the last    *)
(* one.  The handler of an upload is called once for every part with a     *)
(* file, in order, until it stops the enumeration or a part is in error,   *)
(* and not at all when the boundary cannot be told.  A chain calls its     *)
(* handlers in order up to the first that accepts or rejects               *)
(* (multipart_body.hpp, file_upload.hpp, sync_chain/).                     *)
PartsExact ==
    /\ Done("multipart") => result[1] = ExpectedParts
    /\ Done("upload") =>
         LET means == IF job.content_type.good /\ job.pieces # <<>>
                      THEN UploadMeans(job.pieces, job.answers, <<>>)
                      ELSE [files |-> <<>>, ok |-> FALSE]
         IN  /\ result[1].ok = means.ok
             /\ [i \in DOMAIN result[1].files |-> result[1].files[i].body] = means.files
    /\ Done("chain") =>
         LET called == result[1].called
         IN  /\ \A i \in 1..(called - 1) : job.handlers[i] = "not_handled"
             /\ called < Len(job.handlers) => job.handlers[called] # "not_handled"
             /\ result[1].status = IF called = 0 THEN "not_handled" ELSE job.handlers[called]

=============================================================================
