----------------------------- MODULE HttpFields -----------------------------
(***************************************************************************)
(* The parsers of HTTP field values (restinio/helpers/http_field_parsers): *)
(* the term each make_parser() builds, and the extraction of credentials.  *)
(* A qvalue is the number of its thousandths, as in qvalue_t.              *)
(***************************************************************************)
EXTENDS EasyParser, Codecs

ows_p == [is |-> "ows"]
ows == skip(ows_p)
token_p == [is |-> "token"]
quoted_string_p == [is |-> "quoted_string"]
quoted_pair_p == [is |-> "quoted_pair"]
comment_p == [is |-> "comment"]
alpha_symbol_p == Symbols(IsAlpha)
alphanum_symbol_p == Symbols(IsAlphanum)
vchar_symbol_p == Symbols(IsVchar)
ctext_symbol_p == Symbols(IsCtext)
token_symbol_p == Symbols(IsTokenChar)

expected_token_p(str) ==
    produce(FALSE, <<as_result(exact_p(str)), not_clause(<<skip(token_symbol_p)>>)>>)

expected_caseless_token_p(str) ==
    produce(FALSE, <<as_result(caseless_exact_p(str)),
                     not_clause(<<skip(token_symbol_p)>>)>>)

\* qvalue_producer_t: digits are added up in a copy of the value.
digit_consumer(producer, multiplier) ==
    Bind(producer, [op |-> "digit", multiplier |-> multiplier])

QvalueMaximum == 1000

qvalue_p ==
    produce(0,
        <<alternatives(
            <<sequence(
                <<symbol("0"),
                  maybe(<<symbol("."),
                          maybe(<<digit_consumer(digit_p, 100),
                                  maybe(<<digit_consumer(digit_p, 10),
                                          maybe(<<digit_consumer(digit_p, 1)>>)>>)>>)>>)>>),
              sequence(
                <<digit_consumer(symbol_p("1"), 1000),
                  maybe(<<symbol("."),
                          maybe(<<symbol("0"),
                                  maybe(<<symbol("0"),
                                          maybe(<<symbol("0")>>)>>)>>)>>)>>)>>)>>)

weight_p ==
    produce(0, <<ows, symbol(";"), ows, caseless_symbol("q"), symbol("="),
                 as_result(qvalue_p)>>)

non_empty_comma_separated_list_p(element) ==
    produce(<<>>,
        <<sequence(<<repeat(0, N, <<symbol(","), ows>>),
                     to_container(element),
                     repeat(0, N, <<ows, symbol(","),
                                    maybe(<<ows, to_container(element)>>)>>)>>)>>)

maybe_empty_comma_separated_list_p(element) ==
    produce(<<>>,
        <<maybe(<<alternatives(<<symbol(","), to_container(element)>>),
                  repeat(0, N, <<ows, symbol(","),
                                 maybe(<<ows, to_container(element)>>)>>)>>)>>)

-----------------------------------------------------------------------------
(* Parameters                                                              *)

Parameter == [first |-> <<>>, second |-> <<>>]

ParameterValue ==
    alternatives(<<field_setter(token_p, "second"),
                   field_setter(quoted_string_p, "second")>>)

OptParameterValue ==
    maybe(<<symbol("="),
            alternatives(<<opt_field_setter(token_p, "second"),
                           opt_field_setter(quoted_string_p, "second")>>)>>)

params_with_value_p ==
    produce(<<>>,
        <<repeat(0, N,
            <<to_container(produce(Parameter,
                <<ows, symbol(";"), ows, field_setter(to_lower(token_p), "first"),
                  symbol("="), ParameterValue>>))>>)>>)

params_with_opt_value_p ==
    produce(<<>>,
        <<repeat(0, N,
            <<to_container(produce(Parameter,
                <<ows, symbol(";"), ows, field_setter(to_lower(token_p), "first"),
                  OptParameterValue>>))>>)>>)

\* find_first: the first parameter of that name, whatever its case.
find_first(where, what) ==
    LET same(a) == [i \in DOMAIN a |-> to_lower_case(a[i])]
        found == {i \in DOMAIN where : same(where[i].first) = same(what)}
    IN  IF found = {} THEN Failed("not_found", 0)
        ELSE Parsed(where[Min(found)].second, 0)

-----------------------------------------------------------------------------
(* Lists of tokens and of weighted items                                   *)

connection_value ==
    produce([values |-> <<>>],
        <<field_setter(non_empty_comma_separated_list_p(to_lower(token_p)), "values")>>)

content_encoding_value ==
    produce([values |-> <<>>],
        <<field_setter(non_empty_comma_separated_list_p(to_lower(token_p)), "values")>>)

WeightedItem(name, producer) ==
    produce((name :> <<>>) @@ [weight |-> QvalueMaximum],
            <<field_setter(producer, name), maybe(<<field_setter(weight_p, "weight")>>)>>)

accept_charset_value ==
    produce([charsets |-> <<>>],
        <<field_setter(non_empty_comma_separated_list_p(
                           WeightedItem("charset", to_lower(token_p))), "charsets")>>)

accept_encoding_value ==
    produce([codings |-> <<>>],
        <<field_setter(maybe_empty_comma_separated_list_p(
                           WeightedItem("content_coding", to_lower(token_p))), "codings")>>)

make_language_tag_p ==
    produce(<<>>, <<repeat(1, 8, <<to_container(alpha_symbol_p)>>),
                    repeat(0, N, <<to_container(symbol_p("-")),
                                   repeat(1, 8, <<to_container(alphanum_symbol_p)>>)>>)>>)

make_language_range_p ==
    produce(<<>>, <<alternatives(<<to_container(symbol_p("*")),
                                   as_result(make_language_tag_p)>>)>>)

accept_language_value ==
    produce([languages |-> <<>>],
        <<field_setter(non_empty_comma_separated_list_p(
                           WeightedItem("language_range", make_language_range_p)),
                       "languages")>>)

cache_control_value ==
    produce([directives |-> <<>>],
        <<field_setter(non_empty_comma_separated_list_p(
            produce(Parameter, <<field_setter(to_lower(token_p), "first"),
                                 OptParameterValue>>)), "directives")>>)

-----------------------------------------------------------------------------
(* Media types                                                             *)

MediaType == [type |-> <<>>, subtype |-> <<>>, parameters |-> <<>>]

make_default_parser ==
    produce(MediaType,
        <<field_setter(to_lower(token_p), "type"), symbol("/"),
          field_setter(to_lower(token_p), "subtype"),
          field_setter(params_with_value_p, "parameters")>>)

\* The parser of Accept: the first parameter that is a weight ends the list.
make_weight_aware_parser ==
    produce(MediaType,
        <<field_setter(to_lower(token_p), "type"), symbol("/"),
          field_setter(to_lower(token_p), "subtype"),
          field_setter(produce(<<>>,
              <<repeat(0, N,
                  <<to_container(produce(Parameter,
                      <<not_clause(<<skip(weight_p)>>), ows, symbol(";"), ows,
                        field_setter(to_lower(token_p), "first"), symbol("="),
                        ParameterValue>>))>>)>>), "parameters")>>)

content_type_value ==
    produce([media_type |-> MediaType], <<field_setter(make_default_parser, "media_type")>>)

accept_value ==
    produce([items |-> <<>>],
        <<field_setter(maybe_empty_comma_separated_list_p(
            produce([media_type |-> MediaType, weight |-> <<>>, accept_params |-> <<>>],
                <<field_setter(make_weight_aware_parser, "media_type"),
                  maybe(<<opt_field_setter(weight_p, "weight"),
                          field_setter(params_with_opt_value_p, "accept_params")>>)>>)),
            "items")>>)

-----------------------------------------------------------------------------
(* Transfer-Encoding, User-Agent, Content-Disposition                      *)

KnownCoding(str, coding) ==
    just_result(expected_caseless_token_p(str), [kind |-> "known", v |-> coding])

transfer_encoding_value ==
    produce([values |-> <<>>],
        <<field_setter(non_empty_comma_separated_list_p(
            produce([kind |-> "known", v |-> "chunked"],
                <<alternatives(
                    <<KnownCoding("chunked", "chunked"),
                      KnownCoding("compress", "compress"),
                      KnownCoding("deflate", "deflate"),
                      KnownCoding("gzip", "gzip"),
                      KnownCoding("x-gzip", "gzip"),
                      as_result(produce(
                          [kind |-> "extension", token |-> <<>>, parameters |-> <<>>],
                          <<field_setter(to_lower(token_p), "token"),
                            field_setter(params_with_value_p, "parameters")>>))>>)>>)),
            "values")>>)

product_producer ==
    produce([kind |-> "product", product |-> <<>>, version |-> <<>>],
        <<field_setter(token_p, "product"),
          maybe(<<symbol("/"), opt_field_setter(token_p, "version")>>)>>)

user_agent_value ==
    produce([product |-> <<>>, tail |-> <<>>],
        <<field_setter(product_producer, "product"),
          field_setter(produce(<<>>,
              <<repeat(0, N, <<space, ows,
                  alternatives(<<to_container(product_producer),
                                 to_container(convert(comment_p, "comment"))>>)>>)>>),
              "tail")>>)

\* A percent-encoded character is kept as the three characters it is.
pct_encoded_symbols_p ==
    produce(<<>>, <<to_container(symbol_p("%")), to_container(hexdigit_p),
                    to_container(hexdigit_p)>>)

mime_charsetc_symbol_p ==
    Symbols(IsAlphanum \cup CharSet("!#$%&+-^_{}~") \cup {"grave"})
language_symbol_p == Symbols(IsAlphanum \cup {"-"})
attr_char_symbol_p == Symbols(IsAlphanum \cup CharSet("!#$&+-.^_|~") \cup {"grave"})

ext_parameter_value_p ==
    produce(<<>>,
        <<repeat(1, N, <<to_container(mime_charsetc_symbol_p)>>),
          to_container(symbol_p("'")),
          repeat(0, N, <<to_container(language_symbol_p)>>),
          to_container(symbol_p("'")),
          repeat(0, N, <<alternatives(<<to_container(attr_char_symbol_p),
                                        to_string(pct_encoded_symbols_p)>>)>>)>>)

content_disposition_value ==
    produce([value |-> <<>>, parameters |-> <<>>],
        <<field_setter(to_lower(token_p), "value"),
          field_setter(produce(<<>>,
              <<repeat(0, N,
                  <<to_container(produce(Parameter,
                      <<ows, symbol(";"), ows,
                        alternatives(
                          <<sequence(
                              <<field_setter(to_lower([is |-> "regular_token"]), "first"),
                                symbol("="), ParameterValue>>),
                            sequence(
                              <<field_setter(to_lower([is |-> "ext_token"]), "first"),
                                symbol("="),
                                field_setter(ext_parameter_value_p, "second")>>)>>)>>))>>)>>),
              "parameters")>>)

-----------------------------------------------------------------------------
(* Range.  T is the type of a position.                                    *)

number_p(T) == non_negative_decimal_number_p(T, from_one_to_max)

make_byte_range_spec_parser(T) ==
    produce([kind |-> "double_ended", first |-> 0, last |-> 0],
        <<alternatives(
            <<as_result(produce([kind |-> "double_ended", first |-> 0, last |-> 0],
                  <<field_setter(number_p(T), "first"), symbol("-"),
                    field_setter(number_p(T), "last")>>)),
              as_result(produce([kind |-> "open_ended", first |-> 0],
                  <<field_setter(number_p(T), "first"), symbol("-")>>)),
              as_result(produce([kind |-> "suffix_length", length |-> 0],
                  <<symbol("-"), field_setter(number_p(T), "length")>>))>>)>>)

make_bytes_prefix_parser == sequence(<<exact("bytes"), symbol("=")>>)

make_byte_ranges_specifier_parser(T) ==
    produce([kind |-> "bytes", ranges |-> <<>>],
        <<make_bytes_prefix_parser,
          force_only_this_alternative(
              <<field_setter(non_empty_comma_separated_list_p(
                                 make_byte_range_spec_parser(T)), "ranges")>>)>>)

make_other_ranges_specifier_parser ==
    produce([kind |-> "other", range_unit |-> <<>>, range_set |-> <<>>],
        <<field_setter(token_p, "range_unit"), symbol("="),
          force_only_this_alternative(
              <<field_setter(produce(<<>>,
                    <<repeat(1, N, <<to_container(vchar_symbol_p)>>)>>), "range_set")>>)>>)

range_value(T) ==
    produce([value |-> [kind |-> "bytes", ranges |-> <<>>]],
        <<alternatives(<<field_setter(make_byte_ranges_specifier_parser(T), "value"),
                         field_setter(make_other_ranges_specifier_parser, "value")>>)>>)

-----------------------------------------------------------------------------
(* Host                                                                    *)

unreserved_symbol_p == Symbols(IsAlphanum \cup CharSet("-._~"))
sub_delims_symbol_p == Symbols(CharSet("!$&'()*+,;="))

Stores(producers) == [i \in DOMAIN producers |-> to_container(producers[i])]

dec_octet ==
    produce(<<>>,
        <<alternatives(
            <<sequence(Stores(<<symbol_p("2"), symbol_p("5"), Symbols(CharSet("012345"))>>)),
              sequence(Stores(<<symbol_p("2"), Symbols(CharSet("01234")), digit_p>>)),
              sequence(Stores(<<symbol_p("1"), digit_p, digit_p>>)),
              sequence(Stores(<<Symbols(CharSet("123456789")), digit_p>>)),
              to_container(digit_p)>>)>>)

ipv4_address_p ==
    LET dot == to_container(symbol_p("."))
        octet == to_string(dec_octet)
    IN  produce(<<>>, <<octet, dot, octet, dot, octet, dot, octet>>)

h16 == produce(<<>>, <<repeat(1, 4, <<to_container(hexdigit_p)>>)>>)

\* One group and its colon, unless that colon begins a double one.
h16_with_colon ==
    sequence(<<to_string(h16), to_container(symbol_p(":")), not_clause(<<symbol(":")>>)>>)

ls32 ==
    produce(<<>>,
        <<alternatives(
            <<sequence(<<to_string(h16), to_container(symbol_p(":")), to_string(h16)>>),
              as_result(ipv4_address_p)>>)>>)

double_colon == to_string(just(exact_p("::"), <<":", ":">>))

UpToGroups(n) == maybe(<<repeat(0, n, <<h16_with_colon>>), to_string(h16)>>)
Groups(n) == repeat(n, n, <<h16_with_colon>>)

ipv6_address_p ==
    LET tail == to_string(ls32)
    IN  produce(<<>>,
            <<alternatives(
                <<sequence(<<Groups(6), tail>>),
                  sequence(<<double_colon, Groups(5), tail>>),
                  sequence(<<maybe(<<to_string(h16)>>), double_colon, Groups(4), tail>>),
                  sequence(<<UpToGroups(1), double_colon, Groups(3), tail>>),
                  sequence(<<UpToGroups(2), double_colon, Groups(2), tail>>),
                  sequence(<<UpToGroups(3), double_colon, h16_with_colon, tail>>),
                  sequence(<<UpToGroups(4), double_colon, tail>>),
                  sequence(<<UpToGroups(5), double_colon, to_string(h16)>>),
                  sequence(<<UpToGroups(6), double_colon>>)>>)>>)

reg_name_p ==
    produce(<<>>,
        <<repeat(1, N,
            <<alternatives(<<to_container(unreserved_symbol_p),
                             to_string(pct_encoded_symbols_p),
                             to_container(sub_delims_symbol_p)>>)>>)>>)

HostInit == [kind |-> "reg_name", v |-> <<>>]

raw_host_value ==
    produce([host |-> HostInit, port |-> <<>>],
        <<field_setter(produce(HostInit,
              <<alternatives(
                  <<as_result(produce([kind |-> "ipv6", v |-> <<>>],
                        <<symbol("["), as_result(convert(to_lower(ipv6_address_p), "ipv6")),
                          symbol("]")>>)),
                    as_result(produce([kind |-> "ipv4", v |-> <<>>],
                        <<as_result(convert(ipv4_address_p, "ipv4"))>>)),
                    as_result(produce(HostInit,
                        <<as_result(convert(to_lower(reg_name_p), "reg_name"))>>))>>)>>),
              "host"),
          maybe(<<symbol(":"), opt_field_setter(number_p(UintType(16)), "port")>>)>>)

-----------------------------------------------------------------------------
(* Authorization                                                           *)

token68_symbol_p == Symbols(IsAlphanum \cup CharSet("-._~+/"))

token68_p ==
    produce([kind |-> "token68", v |-> <<>>],
        <<field_setter(produce(<<>>,
              <<repeat(1, N, <<to_container(token68_symbol_p)>>),
                repeat(0, N, <<to_container(symbol_p("="))>>)>>), "v")>>)

\* A token68 that is not the rest of the value is read again as parameters.
token68_seq == sequence(<<as_result(token68_p), not_clause(<<skip(any_symbol_p)>>)>>)

params_seq ==
    as_result(convert(maybe_empty_comma_separated_list_p(
        produce([name |-> <<>>, value |-> [kind |-> "token", v |-> <<>>]],
            <<field_setter(to_lower(token_p), "name"), ows, symbol("="), ows,
              field_setter(produce([kind |-> "token", v |-> <<>>],
                  <<alternatives(
                      <<as_result(convert(token_p, "token")),
                        as_result(convert(quoted_string_p, "quoted_string"))>>)>>),
                  "value")>>)), "params"))

authorization_value ==
    LET no_param == [kind |-> "token68", v |-> <<>>]
    IN  produce([auth_scheme |-> <<>>, auth_param |-> no_param],
            <<field_setter(to_lower(token_p), "auth_scheme"),
              maybe(<<repeat(1, N, <<space>>),
                      field_setter(produce(no_param,
                          <<alternatives(<<token68_seq, params_seq>>)>>),
                          "auth_param")>>)>>)

\* The field of a request, <<>> when it has none.
BasicParams(http_field) ==
    LET decoded == try_decode(http_field.auth_param.v)
        colons == {i \in DOMAIN decoded.value : decoded.value[i] = 58}
        first_colon == Min(colons)
    IN  IF http_field.auth_param.kind # "token68" THEN Failed("invalid_basic_auth_param", 0)
        ELSE IF ~decoded.ok THEN Failed("token68_decode_error", 0)
        ELSE IF colons = {} THEN Failed("invalid_username_password_pair", 0)
        ELSE IF first_colon = 1 THEN Failed("empty_username", 0)
        ELSE Parsed([username |-> SubSeq(decoded.value, 1, first_colon - 1),
                     password |-> SubSeq(decoded.value, first_colon + 1,
                                         Len(decoded.value))], 0)

BearerParams(http_field) ==
    IF http_field.auth_param.kind # "token68" THEN Failed("invalid_bearer_auth_param", 0)
    ELSE Parsed([token |-> http_field.auth_param.v], 0)

BasicAuthOf(parsed) ==
    IF ~parsed.ok THEN Failed("illegal_http_field_value", 0)
    ELSE IF parsed.value.auth_scheme # Chars("basic") THEN Failed("not_basic_auth_scheme", 0)
    ELSE BasicParams(parsed.value)

BearerAuthOf(parsed) ==
    IF ~parsed.ok THEN Failed("illegal_http_field_value", 0)
    ELSE IF parsed.value.auth_scheme # Chars("bearer") THEN Failed("not_bearer_auth_scheme", 0)
    ELSE BearerParams(parsed.value)

basic_auth(opt_field) ==
    IF opt_field = <<>> THEN Failed("no_auth_http_field", 0)
    ELSE BasicAuthOf(ParseAll(authorization_value, opt_field[1]))

bearer_auth(opt_field) ==
    IF opt_field = <<>> THEN Failed("no_auth_http_field", 0)
    ELSE BearerAuthOf(ParseAll(authorization_value, opt_field[1]))

\* try_parse_field: the default stands in for a field the request has not.
try_extract_field_value_from(parser, opt_value, default_value) ==
    IF opt_value = <<>> /\ default_value = <<>> THEN Failed("field_not_found", 0)
    ELSE ParseAll(parser, IF opt_value # <<>> THEN opt_value[1] ELSE default_value)

=============================================================================
