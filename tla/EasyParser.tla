----------------------------- MODULE EasyParser -----------------------------
(***************************************************************************)
(* The recursive-descent parser of restinio: producers extract a value,    *)
(* clauses extract values and store them into a target.  A parser object   *)
(* is a term (a record with field "is"); its try_parse or try_process is   *)
(* interpreted over a source: a sequence of characters s and the number    *)
(* pos of characters already taken from it.  A character is a string of    *)
(* length one; "grave" is the accent that is also a quote of TLA+, "CR"    *)
(* and "LF" end a line, "obs" stands for every byte above 7F.  Of the C++  *)
(* types a std::string is a sequence of characters, a vector a sequence, a *)
(* struct a record, an optional a sequence of at most one value, a variant *)
(* a record with a field "kind".                                           *)
(***************************************************************************)
EXTENDS Integers, SequencesExt, FiniteSetsExt

Chars(str) == [i \in 1..Len(str) |-> SubSeq(str, i, i)]
CharSet(str) == ToSet(Chars(str))

UpperCase == Chars("ABCDEFGHIJKLMNOPQRSTUVWXYZ")
LowerCase == Chars("abcdefghijklmnopqrstuvwxyz")
IsSpace == {" ", "\t"}
IsDigit == CharSet("0123456789")
IsHexDigit == IsDigit \cup CharSet("abcdefABCDEF")

ToLowerTable == [c \in ToSet(UpperCase) |->
                    LowerCase[CHOOSE i \in 1..26 : UpperCase[i] = c]]
to_lower_case(c) == IF c \in ToSet(UpperCase) THEN ToLowerTable[c] ELSE c

DigitTable == [c \in IsDigit \cup CharSet("abcdef") |->
                  (CHOOSE i \in 1..16 : Chars("0123456789abcdef")[i] = c) - 1]
DigitValue(c) == DigitTable[to_lower_case(c)]

-----------------------------------------------------------------------------
(* Results, and the source.  On a failure pos is where the source is left  *)
(* and, for a clause, target what the failed attempt left in the target.   *)

Parsed(value, pos) == [ok |-> TRUE, value |-> value, pos |-> pos]
Failed(reason, pos) == [ok |-> FALSE, reason |-> reason, pos |-> pos]

Stored(target, pos) == [ok |-> TRUE, target |-> target, pos |-> pos]
NotStored(reason, target, pos) ==
    [ok |-> FALSE, reason |-> reason, target |-> target, pos |-> pos]

eof(s, pos) == pos >= Len(s)

\* The position after the longest run of characters of S.
SkipWhile(S, s, pos) ==
    Min({i \in pos..Len(s) : eof(s, i) \/ s[i + 1] \notin S})

\* content_consumer_t: without a commit the source goes back.
BackTo(r, pos) == IF r.ok THEN r ELSE [r EXCEPT !.pos = pos]

remove_trailing_spaces(s) ==
    SubSeq(s, 1, Max({0} \cup {i \in 1..Len(s) : s[i] \notin IsSpace}))

ensure_no_remaining_content(s, pos) == eof(s, SkipWhile(IsSpace, s, pos))

-----------------------------------------------------------------------------
(* Numbers.  A type is its width in bits and whether it is signed.         *)

UintType(bits) == [bits |-> bits, signed |-> FALSE]
IntType(bits) == [bits |-> bits, signed |-> TRUE]

extremum_value(t, sign) ==
    CASE sign = "-" -> 2 ^ (t.bits - 1)
      [] sign = "+" /\ t.signed -> 2 ^ (t.bits - 1) - 1
      [] sign = "+" /\ ~t.signed -> 2 ^ t.bits - 1

\* static_cast to T of a number of the unsigned type of the same width.
CastTo(t, n) == IF t.signed /\ n >= 2 ^ (t.bits - 1) THEN n - 2 ^ t.bits ELSE n

AccInit == [current |-> 0, overflow |-> FALSE]

NextDigitMustGrow(acc, t, sign, base, digit) ==
    LET updated == (acc.current * base + digit) % (2 ^ t.bits)
    IN  IF updated <= acc.current \/ (t.signed /\ updated > extremum_value(t, sign))
        THEN [acc EXCEPT !.overflow = TRUE]
        ELSE [acc EXCEPT !.current = updated]

\* next_digit: the product and the sum wrap around in the storage type.
next_digit(acc, t, sign, base, digit) ==
    LET updated == (acc.current * base + digit) % (2 ^ t.bits)
    IN  IF updated < acc.current \/ (t.signed /\ updated > extremum_value(t, sign))
        THEN [acc EXCEPT !.overflow = TRUE]
        ELSE [acc EXCEPT !.current = updated]

\* try_parse_digits_with_digits_limit and its twin for hexadecimal digits:
\* at most p.max digits, at least p.min, stopped by the first overflow.
try_parse_digits(p, sign, s, pos) ==
    LET digits == IF p.base = 16 THEN IsHexDigit ELSE IsDigit
        last == Min({SkipWhile(digits, s, pos), pos + p.max})
        acc == FoldLeft(LAMBDA a, c :
                            IF a.overflow THEN a
                            ELSE next_digit(a, p.type, sign, p.base, DigitValue(c)),
                        AccInit, SubSeq(s, pos + 1, last))
    IN  CASE acc.overflow -> Failed("illegal_value_found", pos)
          [] ~acc.overflow /\ last - pos < p.min -> Failed("pattern_not_found", pos)
          [] OTHER -> Parsed(CastTo(p.type, acc.current), last)

\* decimal_number_producer_t: an optional sign.
decimal_number(p, s, pos) ==
    IF eof(s, pos) THEN Failed("pattern_not_found", pos)
    ELSE LET c == s[pos + 1]
             sign == IF c = "-" THEN "-" ELSE "+"
             r == IF c \in {"-", "+"} THEN try_parse_digits(p, sign, s, pos + 1)
                  ELSE IF c \in IsDigit THEN try_parse_digits(p, sign, s, pos)
                  ELSE Failed("pattern_not_found", pos)
         IN  IF r.ok /\ c = "-"
             THEN Parsed(CastTo(p.type, (-r.value) % (2 ^ p.type.bits)), r.pos)
             ELSE BackTo(r, pos)

-----------------------------------------------------------------------------
(* Producers of one character and of a fixed text                          *)

\* symbol_producer_template_t
symbol_producer(p, s, pos) ==
    CASE eof(s, pos) -> Failed("unexpected_eof", pos)
      [] ~eof(s, pos) /\ s[pos + 1] \in p.of -> Parsed(s[pos + 1], pos + 1)
      [] OTHER -> Failed("unexpected_character", pos)

\* any_symbol_p (p.but is empty) and any_symbol_if_not_p
other_symbol_producer(p, s, pos) ==
    CASE eof(s, pos) -> Failed("unexpected_eof", pos)
      [] ~eof(s, pos) /\ s[pos + 1] \notin p.but -> Parsed(s[pos + 1], pos + 1)
      [] OTHER -> Failed("unexpected_character", pos)

\* try_parse_exact_fragment, and its caseless twin over a lowered fragment
try_parse_exact_fragment(p, s, pos) ==
    LET seen(i) == IF p.caseless THEN to_lower_case(s[pos + i]) ELSE s[pos + i]
        here == Min({Len(p.fragment), Len(s) - pos})
    IN  CASE \E i \in 1..here : seen(i) # p.fragment[i] -> Failed("pattern_not_found", pos)
          [] here < Len(p.fragment) /\ (\A i \in 1..here : seen(i) = p.fragment[i]) ->
               Failed("unexpected_eof", pos)
          [] OTHER -> Parsed(TRUE, pos + here)

-----------------------------------------------------------------------------
(* The hand-written producers of the HTTP field parsers                    *)

IsAlpha == ToSet(UpperCase) \cup ToSet(LowerCase)
IsAlphanum == IsAlpha \cup IsDigit
IsTokenChar == IsAlphanum \cup CharSet("!#$%&'*+-.^_|~") \cup {"grave"}
IsVchar == IsTokenChar \cup CharSet("\"(),/:;<=>?@[\\]{}")
IsObsText == {"obs"}
IsQdtext == (IsVchar \ {"\"", "\\"}) \cup IsSpace \cup IsObsText
IsCtext == (IsVchar \ {"(", ")", "\\"}) \cup IsSpace \cup IsObsText
Quotable == IsSpace \cup IsVchar \cup IsObsText

\* ows_producer_t: any number of spaces is one space, none is nothing.
ows_producer(s, pos) ==
    LET last == SkipWhile(IsSpace, s, pos)
    IN  Parsed(IF last > pos THEN <<" ">> ELSE <<>>, last)

token_producer(s, pos) ==
    LET last == SkipWhile(IsTokenChar, s, pos)
    IN  CASE last > pos -> Parsed(SubSeq(s, pos + 1, last), last)
          [] last = pos -> Failed(IF eof(s, pos) THEN "unexpected_eof"
                                  ELSE "unexpected_character", pos)

\* content_disposition_details: a name that ends with * is an extended one.
regular_token_producer(s, pos) ==
    LET r == token_producer(s, pos)
    IN  IF r.ok /\ Last(r.value) = "*" THEN Failed("unexpected_character", pos) ELSE r

ext_token_producer(s, pos) ==
    LET r == token_producer(s, pos)
    IN  IF r.ok /\ Last(r.value) # "*" THEN Failed("pattern_not_found", pos) ELSE r

\* quoted_string_producer_t::try_parse_value, after the first quote
RECURSIVE QuotedRest(_, _, _)
QuotedRest(s, pos, value) ==
    LET c == s[pos + 1]
    IN  CASE eof(s, pos) -> Failed("unexpected_eof", pos)
          [] ~eof(s, pos) /\ c = "\"" -> Parsed(value, pos + 1)
          [] ~eof(s, pos) /\ c = "\\" ->
               IF eof(s, pos + 1) THEN Failed("unexpected_eof", pos + 1)
               ELSE IF s[pos + 2] \notin Quotable
               THEN Failed("unexpected_character", pos + 1)
               ELSE QuotedRest(s, pos + 2, Append(value, s[pos + 2]))
          [] ~eof(s, pos) /\ c \in IsQdtext -> QuotedRest(s, pos + 1, Append(value, c))
          [] OTHER -> Failed("unexpected_character", pos)

quoted_string_producer(s, pos) ==
    CASE eof(s, pos) -> Failed("unexpected_eof", pos)
      [] ~eof(s, pos) /\ s[pos + 1] # "\"" -> Failed("unexpected_character", pos)
      [] OTHER -> BackTo(QuotedRest(s, pos + 1, <<>>), pos)

quoted_pair_producer(s, pos) ==
    CASE eof(s, pos) -> Failed("unexpected_eof", pos)
      [] ~eof(s, pos) /\ s[pos + 1] # "\\" -> Failed("unexpected_character", pos)
      [] ~eof(s, pos) /\ s[pos + 1] = "\\" /\ eof(s, pos + 1) ->
           Failed("unexpected_eof", pos)
      [] OTHER -> IF s[pos + 2] \in Quotable THEN Parsed(s[pos + 2], pos + 2)
                  ELSE Failed("unexpected_character", pos)

\* multipart_body: the rest of the line, and the rest of the text (not taken).
field_value_producer(s, pos) ==
    LET last == Min({i \in pos..Len(s) : eof(s, i) \/ s[i + 1] \in {"CR", "LF"}})
    IN  IF eof(s, last) THEN Failed("unexpected_eof", last)
        ELSE Parsed(SubSeq(s, pos + 1, last), last)

body_producer(s, pos) == Parsed(SubSeq(s, pos + 1, Len(s)), pos)

-----------------------------------------------------------------------------
(* Transformers and consumers                                              *)

\* A converter may refuse a value (expected_t of an error_reason_t).
transform(by, value) ==
    CASE by.op = "lower" -> Parsed([i \in DOMAIN value |-> to_lower_case(value[i])], 0)
      [] by.op = "just" -> Parsed(by.value, 0)
      [] by.op = "kind" -> Parsed([kind |-> by.kind, v |-> value], 0)
      [] by.op = "one_of" -> IF value \in by.values THEN Parsed(value, 0)
                             ELSE Failed("illegal_value_found", 0)

\* What the consumer stores; "append" and "concat" are to_container for an item
\* and for a string, "emplace" for a map that keeps the first value of a key.
consume(by, target, value) ==
    CASE by.op = "skip" -> target
      [] by.op = "as_result" -> value
      [] by.op = "just_result" -> by.value
      [] by.op = "field" -> [target EXCEPT ![by.name] = value]
      [] by.op = "opt_field" -> [target EXCEPT ![by.name] = <<value>>]
      [] by.op = "append" -> Append(target, value)
      [] by.op = "concat" -> target \o value
      [] by.op = "emplace" ->
           IF value.first \in DOMAIN target THEN target
           ELSE [k \in DOMAIN target \cup {value.first} |->
                    IF k = value.first THEN value.second ELSE target[k]]
      [] by.op = "digit" -> target + by.multiplier * DigitValue(value)

-----------------------------------------------------------------------------
(* Terms                                                                   *)

\* The maximum of repeat that stands for "no limit", and that of digits.
N == 1000000
unlimited_max == 127

digits_to_consume(min, max) == [min |-> min, max |-> max]

Symbols(S) == [is |-> "symbol", of |-> S]
symbol_p(c) == Symbols({c})
any_symbol_p == [is |-> "other_symbol", but |-> {}]
any_symbol_if_not_p(c) == [is |-> "other_symbol", but |-> {c}]
caseless_symbol_p(c) == Symbols({x \in IsVchar \cup IsSpace : to_lower_case(x) = to_lower_case(c)})
symbol_from_range_p(chars) == Symbols(chars)
space_p == Symbols(IsSpace)
digit_p == Symbols(IsDigit)
hexdigit_p == Symbols(IsHexDigit)

non_negative_decimal_number_p(t, digits) ==
    [is |-> "digits", type |-> t, base |-> 10, min |-> digits.min, max |-> digits.max]
hexadecimal_number_p(t, digits) ==
    [is |-> "digits", type |-> t, base |-> 16, min |-> digits.min, max |-> digits.max]
decimal_number_p(t, digits) ==
    [is |-> "decimal", type |-> t, base |-> 10, min |-> digits.min, max |-> digits.max]
from_one_to_max == digits_to_consume(1, unlimited_max)

exact_p(str) == [is |-> "exact", fragment |-> Chars(str), caseless |-> FALSE]
caseless_exact_p(str) ==
    [is |-> "exact", caseless |-> TRUE,
     fragment |-> [i \in 1..Len(str) |-> to_lower_case(Chars(str)[i])]]

produce(init, clauses) == [is |-> "produce", init |-> init, clauses |-> clauses]
Transformed(producer, by) == [is |-> "transformed", producer |-> producer, by |-> by]
to_lower(producer) == Transformed(producer, [op |-> "lower"])
just(producer, value) == Transformed(producer, [op |-> "just", value |-> value])
convert(producer, kind) == Transformed(producer, [op |-> "kind", kind |-> kind])
convert_if(producer, values) == Transformed(producer, [op |-> "one_of", values |-> values])

\* producer >> consumer
Bind(producer, by) == [is |-> "bind", producer |-> producer, by |-> by]
skip(producer) == Bind(producer, [op |-> "skip"])
as_result(producer) == Bind(producer, [op |-> "as_result"])
just_result(producer, value) == Bind(producer, [op |-> "just_result", value |-> value])
field_setter(producer, name) == Bind(producer, [op |-> "field", name |-> name])
opt_field_setter(producer, name) == Bind(producer, [op |-> "opt_field", name |-> name])
to_container(producer) == Bind(producer, [op |-> "append"])
to_string(producer) == Bind(producer, [op |-> "concat"])
to_map(producer) == Bind(producer, [op |-> "emplace"])

symbol(c) == skip(symbol_p(c))
caseless_symbol(c) == skip(caseless_symbol_p(c))
space == skip(space_p)
digit == skip(digit_p)
hexdigit == skip(hexdigit_p)
exact(str) == skip(exact_p(str))
caseless_exact(str) == skip(caseless_exact_p(str))

alternatives(clauses) == [is |-> "alternatives", clauses |-> clauses]
maybe(clauses) == [is |-> "maybe", clauses |-> clauses]
not_clause(clauses) == [is |-> "not", clauses |-> clauses]
and_clause(clauses) == [is |-> "and", clauses |-> clauses]
sequence(clauses) == [is |-> "sequence", clauses |-> clauses]
force_only_this_alternative(clauses) == [is |-> "force", clauses |-> clauses]
repeat(min, max, clauses) ==
    [is |-> "repeat", min |-> min, max |-> max, clauses |-> clauses]

-----------------------------------------------------------------------------
(* The interpreter                                                         *)

RECURSIVE try_parse(_, _, _), try_process(_, _, _, _), AllOf(_, _, _, _)
RECURSIVE AnyOf(_, _, _, _), RepeatItems(_, _, _, _, _)

\* tuple_algorithms::all_of: the clauses in turn, up to the first failure.
AllOf(clauses, s, pos, target) ==
    IF clauses = <<>> THEN Stored(target, pos)
    ELSE LET r == try_process(Head(clauses), s, pos, target)
         IN  IF r.ok THEN AllOf(Tail(clauses), s, r.pos, r.target) ELSE r

\* tuple_algorithms::any_of with the lambda of alternatives_clause_t: every
\* attempt works on a copy of the target, and a forced one is the last.
AnyOf(clauses, s, pos, target) ==
    IF clauses = <<>> THEN NotStored("no_appropriate_alternative", target, pos)
    ELSE LET r == try_process(Head(clauses), s, pos, target)
         IN  CASE r.ok -> r
               [] ~r.ok /\ r.reason = "force_only_this_alternative_failed" ->
                    NotStored("no_appropriate_alternative", target, pos)
               [] OTHER -> AnyOf(Tail(clauses), s, pos, target)

alternatives_clause(c, s, pos, target) == AnyOf(c.clauses, s, pos, target)

maybe_clause(c, s, pos, target) ==
    LET r == AllOf(c.clauses, s, pos, target)
    IN  IF r.ok THEN r ELSE Stored(target, pos)

\* not_clause_t and and_clause_t work on a dummy target and never commit.
not_clause_(c, s, pos, target) ==
    IF AllOf(c.clauses, s, pos, target).ok
    THEN NotStored("pattern_not_found", target, pos) ELSE Stored(target, pos)

and_clause_(c, s, pos, target) ==
    IF AllOf(c.clauses, s, pos, target).ok
    THEN Stored(target, pos) ELSE NotStored("pattern_not_found", target, pos)

SequenceKeepsPosition(c, s, pos, target) == AllOf(c.clauses, s, pos, target)

sequence_clause(c, s, pos, target) ==
    LET r == AllOf(c.clauses, s, pos, target)
    IN  IF r.ok THEN r ELSE NotStored(r.reason, target, pos)

forced_alternative_clause(c, s, pos, target) ==
    LET r == sequence_clause(c, s, pos, target)
    IN  IF r.ok THEN r
        ELSE NotStored("force_only_this_alternative_failed", target, r.pos)

\* The loop of repeat_clause_t.  Items are stored into the target itself: a
\* failed item gives back its characters, not what it had stored.
RepeatItems(c, s, pos, target, count) ==
    LET r == AllOf(c.clauses, s, pos, target)
    IN  IF count = c.max THEN [target |-> target, pos |-> pos, count |-> count]
        ELSE IF r.ok THEN RepeatItems(c, s, r.pos, r.target, count + 1)
        ELSE [target |-> r.target, pos |-> pos, count |-> count]

repeat_clause(c, s, pos, target) ==
    LET r == RepeatItems(c, s, pos, target, 0)
    IN  IF r.count >= c.min THEN Stored(r.target, r.pos)
        ELSE NotStored("pattern_not_found", r.target, pos)

\* consume_value_clause_t: what the producer took before it failed stays taken.
consume_value_clause(c, s, pos, target) ==
    LET r == try_parse(c.producer, s, pos)
    IN  IF r.ok THEN Stored(consume(c.by, target, r.value), r.pos)
        ELSE NotStored(r.reason, target, r.pos)

try_process(c, s, pos, target) ==
    CASE c.is = "bind" -> consume_value_clause(c, s, pos, target)
      [] c.is = "alternatives" -> alternatives_clause(c, s, pos, target)
      [] c.is = "maybe" -> maybe_clause(c, s, pos, target)
      [] c.is = "not" -> not_clause_(c, s, pos, target)
      [] c.is = "and" -> and_clause_(c, s, pos, target)
      [] c.is = "sequence" -> sequence_clause(c, s, pos, target)
      [] c.is = "force" -> forced_alternative_clause(c, s, pos, target)
      [] c.is = "repeat" -> repeat_clause(c, s, pos, target)

\* produce_t: a fresh value for the clauses to fill.
produce_(p, s, pos) ==
    LET r == AllOf(p.clauses, s, pos, p.init)
    IN  IF r.ok THEN Parsed(r.target, r.pos) ELSE Failed(r.reason, r.pos)

transformed_value_producer(p, s, pos) ==
    LET r == try_parse(p.producer, s, pos)
        v == transform(p.by, r.value)
    IN  IF ~r.ok THEN r
        ELSE IF v.ok THEN Parsed(v.value, r.pos) ELSE Failed(v.reason, r.pos)

\* comment_producer_t: comments nest; their parentheses are dropped.
comment_producer(s, pos) ==
    try_parse(
        produce(<<>>,
            <<sequence(
                <<symbol("("),
                  repeat(0, N,
                      <<alternatives(
                          <<to_container(Symbols(IsCtext)),
                            to_container([is |-> "quoted_pair"]),
                            to_string([is |-> "comment"])>>)>>),
                  symbol(")")>>)>>),
        s, pos)

try_parse(p, s, pos) ==
    CASE p.is = "symbol" -> symbol_producer(p, s, pos)
      [] p.is = "other_symbol" -> other_symbol_producer(p, s, pos)
      [] p.is = "digits" -> try_parse_digits(p, "+", s, pos)
      [] p.is = "decimal" -> decimal_number(p, s, pos)
      [] p.is = "exact" -> try_parse_exact_fragment(p, s, pos)
      [] p.is = "produce" -> produce_(p, s, pos)
      [] p.is = "transformed" -> transformed_value_producer(p, s, pos)
      [] p.is = "ows" -> ows_producer(s, pos)
      [] p.is = "token" -> token_producer(s, pos)
      [] p.is = "regular_token" -> regular_token_producer(s, pos)
      [] p.is = "ext_token" -> ext_token_producer(s, pos)
      [] p.is = "quoted_string" -> quoted_string_producer(s, pos)
      [] p.is = "quoted_pair" -> quoted_pair_producer(s, pos)
      [] p.is = "comment" -> comment_producer(s, pos)
      [] p.is = "field_value" -> field_value_producer(s, pos)
      [] p.is = "rest" -> body_producer(s, pos)

\* easy_parser::try_parse: the whole text must be the value.
AllConsumed(s, r) ==
    IF r.ok /\ ~ensure_no_remaining_content(s, r.pos)
    THEN Failed("unconsumed_input", SkipWhile(IsSpace, s, r.pos)) ELSE r

ParseSource(p, s) == AllConsumed(s, try_parse(p, s, 0))

ParseAll(p, text) == ParseSource(p, remove_trailing_spaces(text))

=============================================================================
