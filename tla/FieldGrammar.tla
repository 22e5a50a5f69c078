---------------------------- MODULE FieldGrammar ----------------------------
(***************************************************************************)
(* What the field parsers promise: the ABNF that the documentation of each *)
(* make_parser() quotes, as a grammar in which every alternative and every *)
(* number of repetitions is a possible derivation.  A derivation yields    *)
(* the texts it keeps; the value of a parser is flattened to the same list *)
(* of texts.  Unlike the parser, a grammar has no order of alternatives    *)
(* and takes nothing back.                                                 *)
(***************************************************************************)
EXTENDS HttpFields

KeepChar(S) == [g |-> "keep", of |-> S]
DropChar(S) == [g |-> "drop", of |-> S]
Lit(text) == [g |-> "lit", text |-> text]
Cat(items) == [g |-> "cat", items |-> items]
Alt(items) == [g |-> "alt", items |-> items]
Rep(min, max, item) == [g |-> "rep", min |-> min, max |-> max, item |-> item]
Kept(as, item) == [g |-> "kept", as |-> as, item |-> item]
But(texts, item) == [g |-> "but", texts |-> texts, item |-> item]
Unless(item) == [g |-> "not", item |-> item]
Emit(text) == [g |-> "emit", text |-> text]

Many == 99
Some(item) == Rep(0, Many, item)
Opt(item) == Rep(0, 1, item)

Lowered(text) == [i \in DOMAIN text |-> to_lower_case(text[i])]

StripZeros(digits) ==
    LET first == {i \in DOMAIN digits : digits[i] # "0"}
    IN  IF first = {} THEN <<"0">> ELSE SubSeq(digits, Min(first), Len(digits))

\* A kept text, as the value holds it: in lower case, as a number without
\* leading zeros, or as a weight of four digits.
Normal(as, text) ==
    CASE as = "raw" -> text
      [] as = "lower" -> Lowered(text)
      [] as = "number" -> StripZeros(text)
      [] as = "weight" -> text \o SubSeq(<<"0", "0", "0">>, 1, 4 - Len(text))

\* The derivations of t that continue d: the position where each ends, the texts
\* it keeps and the characters kept so far of the text being collected.
RECURSIVE Derive(_, _, _), Repeats(_, _, _, _)
Derive(t, s, d) ==
    CASE t.g \in {"keep", "drop"} ->
           IF d.end < Len(s) /\ s[d.end + 1] \in t.of
           THEN {[d EXCEPT !.end = @ + 1,
                           !.chars = IF t.g = "keep" THEN Append(@, s[d.end + 1]) ELSE @]}
           ELSE {}
      [] t.g = "lit" ->
           IF /\ d.end + Len(t.text) <= Len(s)
              /\ Lowered(SubSeq(s, d.end + 1, d.end + Len(t.text))) = t.text
           THEN {[d EXCEPT !.end = @ + Len(t.text)]}
           ELSE {}
      [] t.g = "cat" ->
           FoldLeft(LAMBDA ds, item : UNION {Derive(item, s, e) : e \in ds}, {d}, t.items)
      [] t.g = "alt" -> UNION {Derive(t.items[i], s, d) : i \in DOMAIN t.items}
      [] t.g = "rep" -> Repeats(t, s, {d}, 0)
      [] t.g = "kept" ->
           {[e EXCEPT !.chars = d.chars, !.texts = Append(@, Normal(t.as, e.chars))] :
               e \in Derive(t.item, s, [d EXCEPT !.chars = <<>>])}
      [] t.g = "but" -> {e \in Derive(t.item, s, d) : Last(e.texts) \notin t.texts}
      [] t.g = "not" -> IF Derive(t.item, s, d) = {} THEN {d} ELSE {}
      [] t.g = "emit" -> {[d EXCEPT !.texts = Append(@, t.text)]}

\* n repetitions have led to ds; an item that takes nothing is not repeated.
Repeats(t, s, ds, n) ==
    LET more == IF n = t.max THEN {}
                ELSE (UNION {Derive(t.item, s, d) : d \in ds}) \ ds
    IN  (IF n >= t.min THEN ds ELSE {})
        \cup (IF more = {} THEN {} ELSE Repeats(t, s, more, n + 1))

Derivations(t, s) ==
    {d.texts : d \in {e \in Derive(t, s, [end |-> 0, texts |-> <<>>, chars |-> <<>>]) :
                         e.end = Len(s)}}

-----------------------------------------------------------------------------
(* The rules                                                               *)

Sym(str) == Lit(Chars(str))
Ows == Some(DropChar(IsSpace))
TokenChars == Rep(1, Many, KeepChar(IsTokenChar))
LowerToken == Kept("lower", TokenChars)
RawToken == Kept("raw", TokenChars)

QuotedString ==
    Kept("raw", Cat(<<Sym("\""),
                      Some(Alt(<<KeepChar(IsQdtext),
                                 Cat(<<DropChar({"\\"}), KeepChar(Quotable)>>)>>)),
                      Sym("\"")>>))

List1(item) ==
    Cat(<<Some(Cat(<<Sym(","), Ows>>)), item,
          Some(Cat(<<Ows, Sym(","), Opt(Cat(<<Ows, item>>))>>))>>)

List0(item) ==
    Opt(Cat(<<Alt(<<Sym(","), item>>),
              Some(Cat(<<Ows, Sym(","), Opt(Cat(<<Ows, item>>))>>))>>))

Semicolon == Cat(<<Ows, Sym(";"), Ows>>)
Value == Alt(<<RawToken, QuotedString>>)
Params == Some(Cat(<<Semicolon, LowerToken, Sym("="), Value>>))
OptValue == Opt(Cat(<<Sym("="), Emit(<<"=">>), Value>>))

Digit(S) == KeepChar(CharSet(S))
Qvalue ==
    Kept("weight",
         Alt(<<Cat(<<Digit("0"), Opt(Cat(<<Sym("."), Rep(0, 3, KeepChar(IsDigit))>>))>>),
               Cat(<<Digit("1"), Opt(Cat(<<Sym("."), Rep(0, 3, Digit("0"))>>))>>)>>))
Weight == Cat(<<Semicolon, Sym("q="), Qvalue>>)
WeightOr1 == Alt(<<Weight, Emit(Chars("1000"))>>)

\* ![weight]: a parameter does not begin as a weight does.
MediaRange ==
    Cat(<<LowerToken, Sym("/"), LowerToken,
          Some(Cat(<<Unless(Weight), Semicolon, LowerToken, Sym("="), Value>>))>>)

AcceptParams ==
    Cat(<<Emit(<<"q">>), Weight, Some(Cat(<<Semicolon, LowerToken, OptValue>>))>>)

Number == Kept("number", Rep(1, Many, KeepChar(IsDigit)))
ByteRange ==
    Alt(<<Cat(<<Number, Sym("-"), Emit(<<"-">>), Number>>),
          Cat(<<Number, Sym("-"), Emit(<<"-">>)>>),
          Cat(<<Sym("-"), Emit(<<"-">>), Number>>)>>)

\* transfer-coding: the names of RFC 7230 are tokens too, and x-gzip is kept as
\* gzip.  White space may stand around the "=" of a parameter.
TransferCoding ==
    Alt(<<Cat(<<Sym("x-gzip"), Emit(Chars("gzip"))>>),
          Cat(<<LowerToken, Some(Cat(<<Semicolon, LowerToken, Ows, Sym("="), Ows, Value>>))>>)>>)

\* The codings without such white space, and without parameters of a known one.
KnownCodings ==
    {Chars("chunked"), Chars("compress"), Chars("deflate"), Chars("gzip"), Chars("x-gzip")}
NarrowCoding == Alt(<<LowerToken, Cat(<<But(KnownCodings, LowerToken), Params>>)>>)

Product == Cat(<<RawToken, Opt(Cat(<<Sym("/"), Emit(<<"/">>), RawToken>>))>>)

RECURSIVE Comment(_)
Comment(depth) ==
    Cat(<<Sym("("),
          Some(Alt(<<KeepChar(IsCtext), Cat(<<DropChar({"\\"}), KeepChar(Quotable)>>)>>
                   \o (IF depth = 0 THEN <<>> ELSE <<Comment(depth - 1)>>))),
          Sym(")")>>)

-----------------------------------------------------------------------------
(* IPv6: eight groups of which a double colon may stand for one or more,   *)
(* the last two of them perhaps written as an IPv4 address.                *)

H16 == Rep(1, 4, KeepChar(IsHexDigit))
Octet ==
    Alt(<<KeepChar(IsDigit), Cat(<<Digit("123456789"), KeepChar(IsDigit)>>),
          Cat(<<Digit("1"), KeepChar(IsDigit), KeepChar(IsDigit)>>),
          Cat(<<Digit("2"), Digit("01234"), KeepChar(IsDigit)>>),
          Cat(<<Digit("2"), Digit("5"), Digit("012345")>>)>>)
IPv4 == Cat(<<Octet, Digit("."), Octet, Digit("."), Octet, Digit("."), Octet>>)

Joined(items) ==
    Cat([i \in 1..(2 * Len(items) - 1) |->
            IF i % 2 = 1 THEN items[(i + 1) \div 2] ELSE Digit(":")])
HexGroups(n) == IF n = 0 THEN Cat(<<>>) ELSE Joined([i \in 1..n |-> H16])
LastGroups(n) ==
    Alt(<<HexGroups(n)>>
        \o (IF n < 2 THEN <<>> ELSE <<Joined(Append([i \in 1..(n - 2) |-> H16], IPv4))>>))
IPv6 ==
    Alt(<<LastGroups(8)>> \o
        FlattenSeq([b \in 1..8 |-> [a \in 1..(9 - b) |->
            Cat(<<HexGroups(b - 1), Digit(":"), Digit(":"), LastGroups(a - 1)>>)]]))

RegName ==
    Rep(1, Many,
        Alt(<<KeepChar(IsAlphanum \cup CharSet("-._~!$&'()*+,;=")),
              Cat(<<Digit("%"), KeepChar(IsHexDigit), KeepChar(IsHexDigit)>>)>>))

\* A text that has an IPv4 address as a prefix.
LooksLikeIPv4(text) == \E n \in 0..Len(text) : Derivations(IPv4, SubSeq(text, 1, n)) # {}

-----------------------------------------------------------------------------
(* The fields: the parser, the grammar and the texts of a parsed value.    *)

Pos20 == UintType(20)

FieldParser ==
    [connection |-> connection_value,
     accept_charset |-> accept_charset_value,
     accept_encoding |-> accept_encoding_value,
     accept_language |-> accept_language_value,
     cache_control |-> cache_control_value,
     content_type |-> content_type_value,
     accept |-> accept_value,
     transfer_encoding |-> transfer_encoding_value,
     user_agent |-> user_agent_value,
     content_disposition |-> content_disposition_value,
     range |-> range_value(Pos20),
     host |-> raw_host_value,
     authorization |-> authorization_value]

Grammar ==
    [connection |-> List1(LowerToken),
     accept_charset |-> List1(Cat(<<LowerToken, WeightOr1>>)),
     accept_encoding |-> List0(Cat(<<LowerToken, WeightOr1>>)),
     accept_language |->
         List1(Cat(<<Kept("raw", Alt(<<Digit("*"),
                         Cat(<<Rep(1, 8, KeepChar(IsAlpha)),
                               Some(Cat(<<Digit("-"), Rep(1, 8, KeepChar(IsAlphanum))>>))>>)>>)),
                     WeightOr1>>)),
     cache_control |-> List1(Cat(<<LowerToken, OptValue>>)),
     content_type |-> Cat(<<LowerToken, Sym("/"), LowerToken, Params>>),
     accept |-> List0(Cat(<<MediaRange, Opt(AcceptParams)>>)),
     transfer_encoding |-> List1(TransferCoding),
     user_agent |->
         Cat(<<Product, Some(Cat(<<DropChar(IsSpace), Ows, Emit(<<" ">>),
                                   Alt(<<Product, Kept("raw", Comment(2))>>)>>))>>),
     content_disposition |->
         Cat(<<LowerToken,
               Some(Cat(<<Semicolon,
                   Alt(<<Cat(<<Kept("lower", Cat(<<Some(KeepChar(IsTokenChar)),
                                                   KeepChar(IsTokenChar \ {"*"})>>)),
                               Sym("="), Value>>),
                         Cat(<<Kept("lower", Cat(<<Some(KeepChar(IsTokenChar)), Digit("*")>>)),
                               Sym("="),
                               Kept("raw", Cat(<<Rep(1, Many, KeepChar(mime_charsetc_symbol_p.of)),
                                   Digit("'"), Some(KeepChar(language_symbol_p.of)), Digit("'"),
                                   Some(Alt(<<KeepChar(attr_char_symbol_p.of),
                                       Cat(<<Digit("%"), KeepChar(IsHexDigit),
                                             KeepChar(IsHexDigit)>>)>>))>>))>>)>>)>>))>>),
     range |->
         Alt(<<Cat(<<Sym("bytes="), Emit(<<"b">>), List1(ByteRange)>>),
               Cat(<<But({Chars("bytes")}, RawToken), Sym("="), Kept("raw", Rep(1, Many, KeepChar(IsVchar)))>>)>>),
     host |->
         Cat(<<Alt(<<Cat(<<Emit(<<"6">>), Sym("["), Kept("lower", IPv6), Sym("]")>>),
                     Cat(<<Emit(<<"4">>), Kept("raw", IPv4)>>),
                     Cat(<<Emit(<<"n">>), Kept("lower", RegName)>>)>>),
               Opt(Cat(<<Sym(":"), Number>>))>>),
     authorization |->
         Cat(<<LowerToken,
               Opt(Cat(<<Rep(1, Many, DropChar({" ", "\t"})),
                   Alt(<<Cat(<<Emit(<<"6">>), Kept("raw", Cat(<<
                                   Rep(1, Many, KeepChar(token68_symbol_p.of)),
                                   Some(Digit("="))>>))>>),
                         List0(Cat(<<LowerToken, Ows, Sym("="), Ows, Value>>))>>)>>))>>)]

ParamTexts(params) == FlattenSeq([i \in DOMAIN params |-> <<params[i].first, params[i].second>>])
OptTexts(opt) == IF opt = <<>> THEN <<>> ELSE <<<<"=">>, opt[1]>>
OptParamTexts(params) ==
    FlattenSeq([i \in DOMAIN params |-> <<params[i].first>> \o OptTexts(params[i].second)])
WeightText(w) == [i \in 1..4 |-> Chars("0123456789")[((w \div 10 ^ (4 - i)) % 10) + 1]]
WeightedTexts(items, name) ==
    FlattenSeq([i \in DOMAIN items |-> <<items[i][name], WeightText(items[i].weight)>>])
MediaTexts(m) == <<m.type, m.subtype>> \o ParamTexts(m.parameters)
ProductTexts(p) ==
    <<p.product>> \o (IF p.version = <<>> THEN <<>> ELSE <<<<"/">>, p.version[1]>>)
RangeTexts(r) ==
    CASE r.kind = "double_ended" -> <<Decimal(r.first), <<"-">>, Decimal(r.last)>>
      [] r.kind = "open_ended" -> <<Decimal(r.first), <<"-">>>>
      [] r.kind = "suffix_length" -> <<<<"-">>, Decimal(r.length)>>
FlatMap(op(_), items) == FlattenSeq([i \in DOMAIN items |-> op(items[i])])

FieldTexts(field, v) ==
    CASE field = "connection" -> v.values
      [] field = "accept_charset" -> WeightedTexts(v.charsets, "charset")
      [] field = "accept_encoding" -> WeightedTexts(v.codings, "content_coding")
      [] field = "accept_language" -> WeightedTexts(v.languages, "language_range")
      [] field = "cache_control" -> OptParamTexts(v.directives)
      [] field = "content_type" -> MediaTexts(v.media_type)
      [] field = "accept" ->
           FlatMap(LAMBDA item : MediaTexts(item.media_type) \o
                       (IF item.weight = <<>> THEN <<>>
                        ELSE <<<<"q">>, WeightText(item.weight[1])>>
                             \o OptParamTexts(item.accept_params)), v.items)
      [] field = "transfer_encoding" ->
           FlatMap(LAMBDA c : IF c.kind = "known" THEN <<Chars(c.v)>>
                              ELSE <<c.token>> \o ParamTexts(c.parameters), v.values)
      [] field = "user_agent" ->
           ProductTexts(v.product) \o
           FlatMap(LAMBDA item : <<<<" ">>>> \o (IF item.kind = "product" THEN ProductTexts(item)
                                                 ELSE <<item.v>>), v.tail)
      [] field = "content_disposition" -> <<v.value>> \o ParamTexts(v.parameters)
      [] field = "range" ->
           IF v.value.kind = "bytes" THEN <<<<"b">>>> \o FlatMap(RangeTexts, v.value.ranges)
           ELSE <<v.value.range_unit, v.value.range_set>>
      [] field = "host" ->
           <<<<CASE v.host.kind = "ipv6" -> "6" [] v.host.kind = "ipv4" -> "4"
                 [] v.host.kind = "reg_name" -> "n">>, v.host.v>>
           \o (IF v.port = <<>> THEN <<>> ELSE <<Decimal(v.port[1])>>)
      [] field = "authorization" ->
           <<v.auth_scheme>> \o
           (CASE v.auth_param.kind = "params" ->
                   FlatMap(LAMBDA p : <<p.name, p.value.v>>, v.auth_param.v)
              [] v.auth_param.kind = "token68" /\ v.auth_param.v = <<>> -> <<>>
              [] v.auth_param.kind = "token68" /\ v.auth_param.v # <<>> ->
                   <<<<"6">>, v.auth_param.v>>)

=============================================================================
