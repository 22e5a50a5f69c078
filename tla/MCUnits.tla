------------------------------- MODULE MCUnits ------------------------------
(***************************************************************************)
(* The jobs and the instances of the state machines that TLC explores.     *)
(* The jobs of a unit come in several sets: TLC takes long for the union   *)
(* of large ones.                                                          *)
(***************************************************************************)
EXTENDS Units

-----------------------------------------------------------------------------
(* HttpInput: two pipelined messages; each limit is reached and exceeded.  *)

Field(n, v) == [name |-> n, value |-> v]

MCMessages ==
    [url : {<<"/">>, <<"/", "#", "?">>, <<"/", "?", "a", "#">>, <<"/", "a", "?", "b", "#">>},
     fields : {<<>>, <<Field(<<"a">>, <<>>), Field(<<"a">>, <<"x", "y">>)>>},
     chunked : {FALSE}, body : {<<>>, <<<<"p", "q">>>>}, trailers : {<<>>}]
    \cup
    [url : {<<"/">>},
     fields : {<<Field(<<"a", "b">>, <<"x", "y", "z">>)>>, <<Field(<<"a", "b", "c">>, <<"x">>)>>},
     chunked : {FALSE}, body : {<<>>, <<<<"p", "q", "r">>>>}, trailers : {<<>>}]
    \cup
    [url : {<<"/">>}, fields : {<<>>, <<Field(<<"a", "b">>, <<"x">>)>>}, chunked : {TRUE},
     body : {<<>>, <<<<"p">>, <<"q">>>>, <<<<"p", "p">>, <<"q">>>>},
     trailers : {<<>>, <<Field(<<"t">>, <<"z">>)>>}]

MCLimits == [max_url_size |-> 4, max_field_name_size |-> 2, max_field_value_size |-> 3,
             max_field_count |-> 2, max_body_size |-> 2]

(* MessageBuilders: an empty item and one whose size has two digits.        *)
MCItems == {<<>>, [i \in 1..17 |-> "y"]}
MCCodings == {<<"gzip">>, <<"chunked">>}

-----------------------------------------------------------------------------
(* WebSocket headers and frames                                            *)

Key == <<1, 2, 3, 255>>

\* Every length at which the form of the header changes, every cut.
Headers ==
    [fin : BOOLEAN, rsv : {{}, {1, 3}}, opcode : {Text, Pong},
     len : {0, 125, 126, 65535, 65536, 2147483647}, masked : BOOLEAN, key : {Key},
     more : {<<129, 7>>}, cut : 0..14]
HeaderJobs ==
    {h \in Headers :
        h.cut <= Len(write_message_details(message_details(h.fin, h.rsv, h.opcode, h.len,
                                                           h.masked, h.key)))}

AFrame(fin, opcode, parts) == [fin |-> fin, opcode |-> opcode, parts |-> parts]

\* 195 169 is a character of two bytes.
TextFrames ==
    {AFrame(fin, opcode, parts) :
        fin \in BOOLEAN, opcode \in {Text, Continuation},
        parts \in {<<>>, <<<<195>>>>, <<<<169>>>>, <<<<97, 195>>, <<169>>>>}}
    \cup {AFrame(fin, Ping, <<<<195>>>>) : fin \in BOOLEAN} \cup {AFrame(TRUE, Binary, <<<<195>>>>)}

CloseFrames ==
    {AFrame(TRUE, Close, <<p>>) :
        p \in {<<>>} \cup {<<code \div 256, code % 256>> \o reason :
                              code \in {999, 1000, 1003, 1004, 1006, 1007, 1011, 1012, 2999, 3000, 4999, 5000},
                              reason \in {<<>>, <<97>>, <<195>>, <<195, 169>>}}}

\* One text of the bytes at which UTF-8 changes its mind.
EdgeBytes == {0, 127, 128, 143, 144, 159, 160, 191, 192, 194, 224, 237, 239}
EdgeTexts ==
    {<<a>> : a \in EdgeBytes} \cup {<<a, b>> : a, b \in EdgeBytes}
    \cup {<<a, b, c>> : a \in {194, 224, 237, 239}, b, c \in EdgeBytes}
    \cup {<<a, b, 128, c>> : a \in {240, 241, 244, 245, 248}, b \in EdgeBytes, c \in {97, 128, 191}}

FrameJobs ==
    {{[frames |-> fs, key |-> Key] : fs \in [1..n -> TextFrames]} : n \in 0..3}
    \cup {{[frames |-> <<f>>, key |-> Key] : f \in CloseFrames},
          {[frames |-> <<AFrame(FALSE, Text, <<<<97>>>>), f>>, key |-> Key] : f \in CloseFrames},
          {[frames |-> <<AFrame(TRUE, Text, <<t>>)>>, key |-> Key] : t \in EdgeTexts}}

-----------------------------------------------------------------------------
(* Header fields: texts of up to MaxPieces lexemes of the field.           *)

MaxPieces == 4

Lexemes ==
    [connection |-> {"a", "B-", ",", " ", "("},
     accept_charset |-> {"a", ";q=", "0.5", "1.0", ",", " "},
     accept_encoding |-> {"a", ";q=", "0.5", "1.001", ","},
     accept_language |-> {"a", "*", "-", "b1", "abcdefgh", ";q=0"},
     cache_control |-> {"a", "=", "\"b c\"", ",", " "},
     content_type |-> {"a/b", ";", "c=", "\"\\\"\"", " ", "a"},
     accept |-> {"a/b", ";q=0.1", ";q=5", ";c=d", ";e", ","},
     transfer_encoding |-> {"gzip", "x-", "a", ";b=c", ";b =c", ",", " "},
     user_agent |-> {"a", "/b", " ", "(", ")", "\\"},
     content_disposition |-> {"a", ";n=", ";f*=", "u''", "%41", "\"x\""},
     range |-> {"bytes=", "a=", "0-", "12", "3000000", "-", ","},
     host |-> {"a", "1.2.3.4", ":", "80", "99999", "[::1]", "%41"},
     authorization |-> {"a", " ", "c=", ",", "\"b\""}]

TextsOf(lexemes, n) == {FlattenSeq(s) : s \in SeqOf({Chars(x) : x \in lexemes}, n)}

IPv6Texts ==
    {<<"[">> \o t \o <<"]">> :
        t \in TextsOf({"::", ":", "1", "a:b:c", "1:2:3:4", "1.2.3.4"}, 3)}

FieldJobs ==
    {{[field |-> f, text |-> <<t>>] : t \in TextsOf(Lexemes[f], MaxPieces)} : f \in DOMAIN Lexemes}
    \cup {{[field |-> "host", text |-> <<t>>] : t \in IPv6Texts},
          {[field |-> f, text |-> <<>>] : f \in DOMAIN Lexemes}}

AuthJobs ==
    {[is |-> "basic", username |-> u, password |-> p,
      text |-> <<Chars("bAsic ") \o encode(u \o <<58>> \o p)>>] :
        u \in {<<>>, <<97>>, <<97, 195, 169>>}, p \in {<<>>, <<58>>, <<98, 58, 99>>}}
    \cup {[is |-> "bearer", token |-> t, text |-> <<Chars("Bearer  ") \o t>>] :
             t \in {Chars("a"), Chars("a1/="), Chars("+==")}}
    \cup {[is |-> "none", text |-> t] :
             t \in {<<>>, <<Chars("basic")>>, <<Chars("basic ?")>>, <<Chars("basic YQ==")>>,
                    <<Chars("basic a=b")>>, <<Chars("bearer a=b")>>, <<Chars("digest YTpi")>>}}

-----------------------------------------------------------------------------
(* Codecs                                                                  *)

NumberJobs ==
    {[type : {UintType(8), IntType(8)}, text : [1..n -> CharSet("0125-+x@")]] : n \in 0..4}
    \cup {{[type |-> t, text |-> Chars(s)] :
              t \in {UintType(8), IntType(8)},
              s \in {"127", "128", "-128", "-129", "255", "256", "+127", "99"}},
          {[type |-> t, text |-> Chars(s)] :
              t \in {UintType(16), IntType(16)},
              s \in {"9", "32767", "32768", "-32768", "-32769", "65535", "65536", "00001"}}}

Base64Jobs ==
    {[text |-> s] : s \in SeqOf(CharSet("Ab/=?"), 4)}
    \cup {[text |-> Chars("Ab/A") \o s] : s \in SeqOf(CharSet("A=?"), 4)}
BytesJobs == {[bytes |-> b] : b \in SeqOf({0, 1, 127, 128, 255}, 4) \ {<<>>}}

AllTraits == DOMAIN ordinary_char
EscapedPiece(str, bytes, bad) == [text |-> Chars(str), bytes |-> bytes, bad |-> bad]
EscapedPieces ==
    {EscapedPiece("a", <<97>>, {}), EscapedPiece("+", <<32>>, {}),
     EscapedPiece("%20", <<32>>, {}), EscapedPiece("%C3", <<195>>, {}),
     EscapedPiece("%a9", <<169>>, {}), EscapedPiece("%ED", <<237>>, {}),
     EscapedPiece("%A0", <<160>>, {}),
     EscapedPiece("~", <<126>>, {"x_www_form_urlencoded"}),
     EscapedPiece("*", <<42>>, {"restinio_default"}),
     EscapedPiece("&", <<38>>, AllTraits \ {"relaxed"}),
     EscapedPiece("%4-", <<>>, AllTraits), EscapedPiece("%G1", <<>>, AllTraits)}
EscapedJobs == {[traits : AllTraits, pieces : [1..n -> EscapedPieces]] : n \in 0..3}

\* In a relaxed text a plus is ordinary, but it is read as a space.
TextJobs ==
    {j \in [traits : AllTraits, text : SeqOf(CharSet("a +%~*"), 3)] :
        j.traits = "relaxed" => "+" \notin ToSet(j.text)}

QueryWords == {<<"a">>, Chars("a b"), Chars("=&"), Chars(";%")}
QueryJobs ==
    {j \in [traits : AllTraits \ {"relaxed"}, separator : {"&", ";"}, more : {<<>>, <<"&">>},
            pairs : {<<>>} \cup {<<p>> : p \in QueryWords \X (QueryWords \cup {<<>>})}
                    \cup {<<p, q>> : p \in QueryWords \X {<<>>, <<"b">>},
                                     q \in QueryWords \X {<<>>, <<"c">>}}] :
        /\ j.traits = "x_www_form_urlencoded" => j.separator = "&"
        /\ j.pairs = <<>> => j.more = <<>>}

-----------------------------------------------------------------------------
(* Routers                                                                 *)

XName == Chars("x")
YName == Chars("y")
XParam == ParamPiece("/:x", <<XName>>, Prefixed("/", Kept("raw", Fragment("/"))))
XOptional == ParamPiece("/:x?", <<XName>>, Maybe(Prefixed("/", Kept("raw", Fragment("/")))))
XPlus == ParamPiece("/:x+", <<XName>>, Prefixed("/", Kept("raw", Repeated("/", Fragment("/")))))
XStar ==
    ParamPiece("/:x*", <<XName>>, Maybe(Prefixed("/", Kept("raw", Repeated("/", Fragment("/"))))))
XNumber == ParamPiece("/(\\d+)", <<<<>>>>, Prefixed("/", Kept("raw", Rep(1, Many, KeepChar(IsDigit)))))
XAny == ParamPiece("/:x(.*)", <<XName>>, Prefixed("/", Kept("raw", Some(KeepChar(ToSet(AsciiText))))))
XDashY ==
    ParamPiece("/:x-:y", <<XName, YName>>,
               Prefixed("/", Cat(<<Kept("raw", Fragment("/")), Sym("-"), Kept("raw", Fragment("/"))>>)))
XPartial ==
    ParamPiece("/:x?-", <<XName>>,
               Cat(<<DropChar({"/"}), Maybe(Kept("raw", Fragment("/"))), DropChar({"-"})>>))
YExtension == ParamPiece(".:y", <<YName>>, Prefixed(".", Kept("raw", Fragment("."))))

Entry(matcher, pieces, opts) == [method |-> matcher, pieces |-> pieces, opts |-> opts]
Get(pieces) == Entry(simple_matcher("GET"), pieces, options)

Strict == [options EXCEPT !.strict = TRUE]
Sensitive == [options EXCEPT !.sensitive = TRUE]
Beginning == [options EXCEPT !.ending = FALSE]
EndsWith == [options EXCEPT !.ends_with = <<<<"-">>>>]

\* One route after another, and the routes of the application in its order.
ExpressRouters ==
    [plain |-> <<Get(<<PlainPiece("/a")>>), Get(<<XParam>>)>>,
     optional |-> <<Get(<<XOptional, PlainPiece("/a")>>), Get(<<XNumber>>), Get(<<XDashY>>)>>,
     repeated |-> <<Get(<<XPlus, PlainPiece("/a")>>), Get(<<XStar>>)>>,
     partial |-> <<Get(<<PlainPiece("/a"), YExtension>>), Get(<<XAny, PlainPiece("/")>>),
                   Get(<<XPartial>>)>>,
     optioned |-> <<Entry(any_of_methods({"GET", "POST"}), <<PlainPiece("/A")>>, Strict),
                    Entry(none_of_methods({"GET"}), <<CasePiece("/a")>>, Sensitive),
                    Entry(simple_matcher("GET"), <<PlainPiece("/a")>>, Beginning)>>,
     beginning |-> <<Entry(simple_matcher("GET"), <<PlainPiece("/a/")>>, Beginning),
                     Entry(simple_matcher("GET"), <<XParam>>, EndsWith)>>]

PathPiece(str) == [text |-> Chars(str), normal |-> Chars(str)]
PathPieces ==
    {PathPiece("/"), PathPiece("/a"), PathPiece("A"), PathPiece("/7"), PathPiece("-"), PathPiece(".a"),
     [text |-> Chars("%61"), normal |-> <<"a">>], PathPiece("%2f"), PathPiece("%C3%A9"),
     [text |-> Chars("%C3-"), normal |-> <<"bad">>]}

ExpressJobs ==
    {[router : DOMAIN ExpressRouters, method : {"GET"}, last : {TRUE}, pieces : [1..n -> PathPieces]] :
        n \in 0..3}
    \cup {[router : DOMAIN ExpressRouters, method : {"POST"}, last : {FALSE}, pieces : [1..n -> PathPieces]] :
             n \in 0..2}

AppEntries ==
    <<Get(<<PlainPiece("/")>>), Get(<<PlainPiece("/game")>>), Get(<<PlainPiece("/players")>>),
      Get(<<PlainPiece("/startgame")>>), Get(<<PlainPiece("/settings")>>),
      Entry(simple_matcher("POST"), <<PlainPiece("/players")>>, options),
      Entry(simple_matcher("POST"), <<PlainPiece("/game")>>, options),
      Entry(simple_matcher("OPTIONS"), <<PlainPiece("/")>>, options),
      Entry(none_of_methods({"GET", "POST"}), <<PlainPiece("/api")>>, options),
      Entry(none_of_methods({"GET"}),
            <<PlainPiece("/author"),
              ParamPiece("/:author", <<Chars("author")>>, Prefixed("/", Kept("raw", Fragment("/"))))>>,
            options)>>
AppJobs ==
    {[router |-> "app", method |-> m, last |-> FALSE, pieces |-> p] :
        m \in {"GET", "POST", "OPTIONS", "PUT"},
        p \in SeqOf({PathPiece("/"), PathPiece("/game"), PathPiece("/players"), PathPiece("/api"),
                     PathPiece("/author"), PathPiece("s")}, 2)}

\* Routes of the easy_parser router: a fragment ends at a slash or at the end.
Fixed(str) == ItemPiece(FixedItem(str), <<>>, Cat([i \in 1..Len(str) |-> DropChar({Chars(str)[i]})]))
FragmentItem == ItemPiece(ProducerItem(path_fragment_p("/")), <<"text">>, Kept("raw", Fragment("/")))
NumberItem ==
    ItemPiece(ProducerItem(number_p(UintType(16))), <<"number">>,
              Kept("raw", Rep(1, Many, KeepChar(IsDigit))))
UnescapeItem ==
    ItemPiece(unescape(path_fragment_p("/")), <<"unescape">>, Kept("raw", Fragment("/")))

EasyGet(pieces) == [method |-> simple_matcher("GET"), pieces |-> pieces]
EasyParserRouters ==
    [items |-> <<EasyGet(<<Fixed("/a")>>), EasyGet(<<Fixed("/"), NumberItem>>),
                 [method |-> none_of_methods({"PUT"}),
                  pieces |-> <<Fixed("/"), FragmentItem, Fixed("/a")>>],
                 EasyGet(<<Fixed("/"), UnescapeItem>>)>>,
     pair |-> <<EasyGet(<<Fixed("/"), FragmentItem, Fixed("/"), UnescapeItem>>),
                EasyGet(<<Fixed("/")>>)>>]

EasyParserJobs ==
    {[router : DOMAIN EasyParserRouters, method : {m}, last : {m = "POST"},
      pieces : [1..n -> (PathPieces \ {PathPiece(".a")}) \cup {PathPiece("!")}]] :
        m \in {"GET", "POST"}, n \in 0..3}

-----------------------------------------------------------------------------
(* Multipart bodies, uploads and chains                                    *)

Boundary == Chars("--b")
PieceOf(lexeme, text) == [lexeme |-> lexeme, text |-> text]
BodyPieces ==
    {PieceOf("boundary", Boundary), PieceOf("eol", eol), PieceOf("dashes", Chars("--")),
     PieceOf("text", <<"x">>)}
BodyStart == <<PieceOf("boundary", Boundary), PieceOf("eol", eol)>>
BodyEnd == <<PieceOf("boundary", Boundary), PieceOf("dashes", Chars("--")), PieceOf("eol", eol)>>
MultipartJobs ==
    {[boundary : {Boundary}, pieces : [1..n -> BodyPieces]] : n \in 0..5}
    \cup {[boundary : {Boundary}, pieces : {BodyStart \o s \o BodyEnd : s \in [1..n -> BodyPieces]}] :
             n \in 0..5}

PartText(lines, body) ==
    Boundary \o eol \o FlattenSeq([i \in DOMAIN lines |-> Chars(lines[i]) \o eol]) \o eol \o body \o eol
UploadPart(is, body, lines) ==
    [part |-> is, file |-> body, text |-> PartText(lines, body)]
FormData(params) == <<"Content-Disposition: form-data" \o params>>
UploadParts ==
    {UploadPart("file", <<"x">>, FormData("; name=n; filename=f")),
     UploadPart("file", <<>>, <<"a: b">> \o FormData("; filename*=utf-8''f; name=\"n\"")),
     UploadPart("other", <<"y">>, FormData("; name=n")),
     UploadPart("other", <<>>, <<"a:b">>),
     UploadPart("other", <<"y">>, <<"Content-Disposition: attachment; name=n; filename=f">>),
     UploadPart("error", <<>>, FormData("; filename=f")),
     UploadPart("error", <<>>, FormData("; name")),
     UploadPart("error", <<>>, <<"a b">>)}
Answers == {"continue_enumeration", "stop_enumeration", "terminate_enumeration"}
GoodType == [good |-> TRUE, text |-> <<Chars("MULTIPART/Form-Data; Boundary=b")>>]
ContentTypes ==
    {[good |-> FALSE, text |-> t] :
        t \in {<<>>, <<Chars("multipart")>>, <<Chars("text/form-data; boundary=b")>>,
               <<Chars("multipart/mixed; boundary=b")>>, <<Chars("multipart/form-data; b=b")>>,
               <<Chars("multipart/form-data; boundary=\"b \"")>>}}
UploadJobs ==
    {[boundary |-> Boundary, content_type |-> GoodType, pieces |-> p, answers |-> a] :
        p \in SeqOf(UploadParts, 2), a \in Answers \X Answers}
    \cup {[boundary |-> Boundary, content_type |-> c, pieces |-> <<p>>, answers |-> <<>>] :
             c \in ContentTypes, p \in UploadParts}

ChainJobs == {[handlers |-> h] : h \in SeqOf({"accepted", "rejected", "not_handled"}, 3)}

MCRouters == ExpressRouters @@ EasyParserRouters @@ [app |-> AppEntries]

-----------------------------------------------------------------------------
MCJobs ==
    [header |-> {HeaderJobs}, frames |-> FrameJobs, field |-> FieldJobs, auth |-> {AuthJobs},
     number |-> NumberJobs, base64 |-> {Base64Jobs}, bytes |-> {BytesJobs}, escaped |-> EscapedJobs,
     text |-> {TextJobs}, query |-> {QueryJobs}, express |-> ExpressJobs \cup {AppJobs},
     easy_parser |-> EasyParserJobs, multipart |-> MultipartJobs, upload |-> {UploadJobs},
     chain |-> {ChainJobs}]

MCNumberJobs == [number |-> NumberJobs]

=============================================================================
