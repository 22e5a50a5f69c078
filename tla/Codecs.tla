------------------------------- MODULE Codecs -------------------------------
(***************************************************************************)
(* The conversions of restinio between texts and values: base64            *)
(* (utils/base64.hpp), percent-encoding and URI normalization              *)
(* (utils/percent_encoding.hpp), query strings (uri_helpers.hpp) and       *)
(* integers (utils/from_string.hpp).  A text is a sequence of characters   *)
(* as in EasyParser; what a conversion yields is a sequence of bytes, the  *)
(* numbers 0..255.                                                         *)
(***************************************************************************)
EXTENDS EasyParser, Utf8

AsciiText ==
    Chars(" !\"#$%&'()*+,-./0123456789:;<=>?@ABCDEFGHIJKLMNOPQRSTUVWXYZ[\\]^_")
    \o <<"grave">> \o Chars("abcdefghijklmnopqrstuvwxyz{|}~")
CodeTable == [c \in ToSet(AsciiText) |-> 31 + (CHOOSE i \in DOMAIN AsciiText : AsciiText[i] = c)]
Code(c) == IF c = "nul" THEN 0 ELSE CodeTable[c]
Codes(text) == [i \in DOMAIN text |-> Code(text[i])]

-----------------------------------------------------------------------------
(* base64                                                                  *)

base64_alphabet ==
    Chars("ABCDEFGHIJKLMNOPQRSTUVWXYZabcdefghijklmnopqrstuvwxyz0123456789+/")
is_base64_char == ToSet(base64_alphabet) \cup {"="}
base64_decode_lut ==
    [c \in ToSet(base64_alphabet) |->
        (CHOOSE i \in 1..64 : base64_alphabet[i] = c) - 1]

\* The loop of is_valid_base64_string: what it expects next, and its counters.
Base64Step(st, c) ==
    CASE st.expects = "b64ch" ->
           IF c = "=" \/ c \notin is_base64_char THEN [st EXCEPT !.expects = "failed"]
           ELSE [st EXCEPT !.chars = @ + 1,
                           !.expects = IF st.chars >= 1 THEN "b64ch_or_padding" ELSE @]
      [] st.expects = "b64ch_or_padding" ->
           IF c = "=" THEN [st EXCEPT !.expects = "padding", !.paddings = @ + 1]
           ELSE IF c \in is_base64_char THEN st ELSE [st EXCEPT !.expects = "failed"]
      [] st.expects = "padding" ->
           IF c = "=" /\ st.paddings < 2 THEN [st EXCEPT !.paddings = @ + 1]
           ELSE [st EXCEPT !.expects = "failed"]
      [] st.expects = "failed" -> st

is_valid_base64_string(text) ==
    /\ Len(text) >= 4
    /\ FoldLeft(Base64Step, [expects |-> "b64ch", chars |-> 0, paddings |-> 0],
                text).expects # "failed"

n_bits_from(shift, bits, value) == (value \div (2 ^ shift)) % (2 ^ bits)
sixbits_char(shift, bs) == base64_alphabet[n_bits_from(shift, 6, bs) + 1]

EncodeDropsLastSix(group) ==
    LET at(i) == IF i <= Len(group) THEN group[i] ELSE 0
        bs == at(1) * 65536 + at(2) * 256 + at(3)
    IN  <<sixbits_char(18, bs), sixbits_char(12, bs),
          IF Len(group) > 1 THEN sixbits_char(6, bs) ELSE "=",
          IF Len(group) > 3 THEN sixbits_char(0, bs) ELSE "=">>

\* One group of encode: three bytes, or the one or two that remain.
EncodeGroup(group) ==
    LET at(i) == IF i <= Len(group) THEN group[i] ELSE 0
        bs == at(1) * 65536 + at(2) * 256 + at(3)
    IN  <<sixbits_char(18, bs), sixbits_char(12, bs),
          IF Len(group) > 1 THEN sixbits_char(6, bs) ELSE "=",
          IF Len(group) > 2 THEN sixbits_char(0, bs) ELSE "=">>

InGroupsOf(s, size) ==
    [g \in 1..((Len(s) + size - 1) \div size) |->
        SubSeq(s, (g - 1) * size + 1, Min({g * size, Len(s)}))]

encode(bytes) ==
    LET groups == InGroupsOf(bytes, 3)
    IN  FlattenSeq([g \in DOMAIN groups |-> EncodeGroup(groups[g])])

DecodeGroup(group) ==
    LET six(i) == IF group[i] = "=" THEN 0 ELSE base64_decode_lut[group[i]]
        bs == ((six(1) * 64 + six(2)) * 64 + six(3)) * 64 + six(4)
        paddings == Cardinality({i \in 3..4 : group[i] = "="})
    IN  SubSeq(<<n_bits_from(16, 8, bs), n_bits_from(8, 8, bs), n_bits_from(0, 8, bs)>>,
               1, 3 - paddings)

\* A valid text whose last group is not whole is read past its end.
try_decode(text) ==
    IF ~is_valid_base64_string(text) THEN Failed("invalid_base64_sequence", 0)
    ELSE IF Len(text) % 4 # 0 THEN Failed("undefined", 0)
    ELSE LET groups == InGroupsOf(text, 4)
         IN  Parsed(FlattenSeq([g \in DOMAIN groups |-> DecodeGroup(groups[g])]), 0)

-----------------------------------------------------------------------------
(* Percent-encoding                                                        *)

\* The characters a text may hold as they are, for each of the traits.  The
\* search of the relaxed ones also finds the zero that ends their list.
ordinary_char ==
    [restinio_default |-> IsAlphanum \cup CharSet("-.~_"),
     x_www_form_urlencoded |-> IsAlphanum \cup CharSet("*-._"),
     javascript_compatible |-> IsAlphanum \cup CharSet("-.~_*!'()"),
     relaxed |-> IsAlphanum \cup CharSet(" -._~:/?#[]@!$&'()*+,;=") \cup {"nul"}]

extract_escaped_char(c1, c2) == DigitValue(c1) * 16 + DigitValue(c2)

\* Whether three characters from pos + 1 are an escape.
EscapeAt(text, pos) ==
    pos + 3 <= Len(text) /\ text[pos + 2] \in IsHexDigit /\ text[pos + 3] \in IsHexDigit

RECURSIVE do_unescape_percent_encoding(_, _, _, _, _)
do_unescape_percent_encoding(traits, text, pos, u, collected) ==
    LET c == text[pos + 1]
        expect_next_utf8_byte == ~finalized(u)
        ch == extract_escaped_char(text[pos + 2], text[pos + 3])
        v == CheckByte(u, ch)
        next(n, w, byte) == do_unescape_percent_encoding(
                                traits, text, pos + n, w, Append(collected, byte))
    IN  CASE eof(text, pos) -> IF expect_next_utf8_byte
                               THEN Failed("unfinished_sequence", pos)
                               ELSE Parsed(collected, pos)
          [] ~eof(text, pos) /\ c = "%" ->
               IF ~EscapeAt(text, pos) THEN Failed("invalid_escape", pos)
               ELSE IF ~Accepting(v) THEN Failed("invalid_utf8", pos)
               ELSE next(3, IF finalized(v) THEN ResetChecker(v) ELSE v, ch)
          [] ~eof(text, pos) /\ c # "%" ->
               IF expect_next_utf8_byte THEN Failed("next_byte_expected", pos)
               ELSE IF c = "+" THEN next(1, u, 32)
               ELSE IF c \in ordinary_char[traits] THEN next(1, u, Code(c))
               ELSE Failed("invalid_character", pos)

unescape_percent_encoding(traits, text) ==
    do_unescape_percent_encoding(traits, text, 0, CheckerInit, <<>>)

HexDigits == Chars("0123456789ABCDEF")
PercentHex(code) == <<"%", HexDigits[(code \div 16) + 1], HexDigits[(code % 16) + 1]>>

EscapeKeepsPlus(traits, text) ==
    FlattenSeq([i \in DOMAIN text |->
        IF text[i] \in ordinary_char[traits] \cup {"+"} THEN <<text[i]>>
        ELSE PercentHex(Code(text[i]))])

\* escape_percent_encoding, of a text in ASCII
escape_percent_encoding(traits, text) ==
    FlattenSeq([i \in DOMAIN text |->
        IF text[i] \in ordinary_char[traits] THEN <<text[i]>>
        ELSE PercentHex(Code(text[i]))])

-----------------------------------------------------------------------------
(* Normalization of a URI: an escape of an unreserved character becomes    *)
(* the character.  The two passes of the code (the capacity, the copy) run *)
(* the same algorithm.                                                     *)

is_unreserved_char == ordinary_char["restinio_default"]

RECURSIVE run_normalization_algo(_, _, _, _)
run_normalization_algo(text, pos, u, out) ==
    LET c == text[pos + 1]
        three == SubSeq(text, pos + 1, pos + 3)
        v == CheckByte(u, extract_escaped_char(text[pos + 2], text[pos + 3]))
        unreserved == {a \in is_unreserved_char : Code(a) = v.symbol}
    IN  IF eof(text, pos)
        THEN IF finalized(u) THEN Parsed(out, pos) ELSE Failed("unfinished_sequence", pos)
        ELSE IF c # "%"
        THEN IF ~finalized(u) THEN Failed("next_byte_expected", pos)
             ELSE run_normalization_algo(text, pos + 1, u, Append(out, c))
        ELSE IF ~EscapeAt(text, pos) THEN Failed("invalid_escape", pos)
        ELSE IF ~Accepting(v) THEN Failed("invalid_utf8", pos)
        ELSE run_normalization_algo(text, pos + 3,
                 IF finalized(v) THEN ResetChecker(v) ELSE v,
                 out \o (IF finalized(v) /\ unreserved # {}
                         THEN <<CHOOSE a \in unreserved : TRUE>> ELSE three))

estimate_required_capacity(text) ==
    LET r == run_normalization_algo(text, 0, CheckerInit, <<>>)
    IN  IF r.ok THEN Parsed(Len(r.value), 0) ELSE r

normalize_to(text) == run_normalization_algo(text, 0, CheckerInit, <<>>)

-----------------------------------------------------------------------------
(* Query strings                                                           *)

find_next_separator(traits) ==
    IF traits \in {"restinio_default", "javascript_compatible"} THEN {"&", ";"} ELSE {"&"}

\* find_first_of from pos, the size of the text when there is none
FindFirst(S, text, pos) ==
    Min({Len(text)} \cup {i \in pos..(Len(text) - 1) : text[i + 1] \in S})

RECURSIVE QueryPairs(_, _, _, _)
QueryPairs(traits, text, pos, pairs) ==
    LET eq == FindFirst({"="}, text, pos)
        separator == FindFirst(find_next_separator(traits), text, eq + 1)
        key == unescape_percent_encoding(traits, SubSeq(text, pos + 1, eq))
        value == unescape_percent_encoding(traits, SubSeq(text, eq + 2, separator))
        tag == unescape_percent_encoding(traits, text)
    IN  IF pos >= Len(text) THEN Parsed([pairs |-> pairs, tag |-> <<>>], 0)
        ELSE IF eq = Len(text)
        THEN IF pos # 0 THEN Failed("no_equal_sign", pos)
             ELSE IF tag.ok THEN Parsed([pairs |-> <<>>, tag |-> <<tag.value>>], 0) ELSE tag
        ELSE IF ~key.ok THEN key
        ELSE IF ~value.ok THEN value
        ELSE QueryPairs(traits, text, separator + 1,
                        Append(pairs, <<key.value, value.value>>))

try_parse_query(traits, text) == QueryPairs(traits, text, 0, <<>>)

\* query_string_params_t::get_param
get_param(params, key) ==
    LET found == {i \in DOMAIN params.pairs : params.pairs[i][1] = key}
    IN  IF found = {} THEN <<>> ELSE <<params.pairs[Min(found)][2]>>

-----------------------------------------------------------------------------
(* Integers from texts                                                     *)

\* digits_mapping, as it is: the entry of @ is F0, not FF
digits_mapping(c) ==
    CASE c \in IsDigit -> DigitValue(c) [] c = "@" -> 240 [] OTHER -> 255

Decimal(n) ==
    LET digits[k \in Nat] == (IF k < 10 THEN <<>> ELSE digits[k \div 10])
                             \o <<Chars("0123456789")[(k % 10) + 1]>>
    IN  digits[n]

max_representation(t) == Decimal(extremum_value(t, "+"))
min_representation(t) == IF t.signed THEN Decimal(extremum_value(t, "-")) ELSE <<"0">>

\* memcmp of two texts of the same length
MemcmpGreater(a, b) ==
    \E i \in DOMAIN a : /\ Code(a[i]) > Code(b[i])
                        /\ \A k \in 1..(i - 1) : a[k] = b[k]

parse_integer_no_checks(t, digits, minus) ==
    LET n == FoldLeft(LAMBDA acc, c : (acc * 10 + digits_mapping(c)) % (2 ^ t.bits), 0, digits)
    IN  CastTo(t, IF minus THEN (-n) % (2 ^ t.bits) ELSE n)

RangeUnchecked(t, digits, minus) == FALSE

\* The comparison is made for texts of the greatest length only.
OutOfRange(t, digits, minus) ==
    /\ Len(digits) = Len(max_representation(t))
    /\ MemcmpGreater(digits, IF minus THEN min_representation(t) ELSE max_representation(t))

\* parse_integer.  Of an empty text the byte after its end is read: whatever it
\* is the text is refused, as empty or (after a sign) as too long.
parse_integer(t, text) ==
    LET sign == IF text = <<>> THEN "" ELSE text[1]
        minus == sign = "-"
        digits == IF sign \in {"-", "+"} THEN Tail(text) ELSE text
    IN  IF minus /\ ~t.signed THEN Failed("unsigned_with_minus", 0)
        ELSE IF digits = <<>> THEN Failed("empty", 0)
        ELSE IF Len(digits) > Len(max_representation(t)) THEN Failed("too_long", 0)
        ELSE IF \E i \in DOMAIN digits : digits_mapping(digits[i]) = 255
        THEN Failed("invalid_digit", 0)
        ELSE IF OutOfRange(t, digits, minus) THEN Failed("out_of_range", 0)
        ELSE Parsed(parse_integer_no_checks(t, digits, minus), 0)

=============================================================================
