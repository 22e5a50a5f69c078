------------------------------- MODULE Router -------------------------------
(***************************************************************************)
(* The two routers of restinio.  Both normalize the path of the request,   *)
(* try their entries in the order of registration and call the handler of  *)
(* the first one whose method matcher and route match.  The express router *)
(* compiles a route to a regular expression (path2regex); the easy_parser  *)
(* router parses the path with the producer of the route.                  *)
(*                                                                         *)
(* A path is a sequence of characters.  A compiled expression is the       *)
(* sequence of its tokens with its ending; the backtracking of the regular *)
(* expression engine over it is the order of the sequence of all its       *)
(* matches, of which the engine takes the first.                           *)
(***************************************************************************)
EXTENDS Codecs

-----------------------------------------------------------------------------
(* Method matchers and the target path                                     *)

simple_matcher(m) == [is |-> "any_of", methods |-> {m}]
any_of_methods(S) == [is |-> "any_of", methods |-> S]
none_of_methods(S) == [is |-> "none_of", methods |-> S]

match(matcher, method) == (method \in matcher.methods) <=> (matcher.is = "any_of")

\* target_path_holder_t: normalized, or copied when the size would not change.
\* A path with a bad escape throws out of the router.
target_path_holder(path) ==
    LET size == estimate_required_capacity(path)
    IN  IF ~size.ok THEN size
        ELSE IF size.value # Len(path) THEN normalize_to(path) ELSE Parsed(path, 0)

-----------------------------------------------------------------------------
(* path2regex: from the text of a route to its tokens                      *)

options == [sensitive |-> FALSE, strict |-> FALSE, ending |-> TRUE,
            delimiter |-> "/", delimiters |-> {".", "/"}, ends_with |-> <<>>]

WordChars == IsAlphanum \cup {"_"}
Modifiers == CharSet("+*?")

\* The end of a group \(((?:\\.|[^\\()])+)\) that starts at pos, or pos
GroupEnd(route, pos) ==
    LET closing == {i \in (pos + 2)..(Len(route) - 1) :
                      /\ route[i + 1] = ")" /\ route[i] # "\\"
                      /\ \A k \in (pos + 1)..(i - 1) :
                            route[k + 1] \in {"(", ")"} => k > pos + 1 /\ route[k] = "\\"}
    IN  IF ~eof(route, pos) /\ route[pos + 1] = "(" /\ closing # {}
        THEN Min(closing) + 1 ELSE pos

\* path_regex_str at one position: an escaped character, a named parameter with
\* an optional group, or a group; the last two with an optional modifier.
TokenAt(route, pos) ==
    LET c == route[pos + 1]
        name == IF c = ":" THEN SkipWhile(WordChars, route, pos + 1) ELSE pos
        from == IF name > pos + 1 THEN name ELSE pos
        last == GroupEnd(route, from)
        modified == ~eof(route, last) /\ route[last + 1] \in Modifiers
    IN  CASE c = "\\" /\ ~eof(route, pos + 1) ->
               [is |-> "escaped", char |-> route[pos + 2], end |-> pos + 2]
          [] c # "\\" /\ last > pos ->
               [is |-> "param",
                name |-> IF name > pos THEN SubSeq(route, pos + 2, name) ELSE <<>>,
                group |-> IF last > from THEN SubSeq(route, from + 2, last - 1) ELSE <<>>,
                modifier |-> IF modified THEN route[last + 1] ELSE "",
                end |-> IF modified THEN last + 1 ELSE last]
          [] OTHER -> [is |-> "plain", end |-> pos + 1]

plain_string_token(path) == [is |-> "plain", text |-> path]

PrefixNotTaken(opts, m, route, path, path_escaped) ==
    [is |-> "param", name |-> m.name, prefix |-> <<>>,
     optional |-> m.modifier \in {"?", "*"}, repeat |-> m.modifier \in {"+", "*"},
     partial |-> FALSE, delimiter |-> opts.delimiter, group |-> m.group]

\* handle_param_token: the delimiter before a parameter is part of it.
parameter_token(opts, m, route, path, path_escaped) ==
    LET delimited == ~path_escaped /\ path # <<>> /\ Last(path) \in opts.delimiters
        prefix == IF delimited THEN <<Last(path)>> ELSE <<>>
        next == IF eof(route, m.end) THEN <<>> ELSE <<route[m.end + 1]>>
    IN  [is |-> "param", name |-> m.name, prefix |-> prefix,
         optional |-> m.modifier \in {"?", "*"}, repeat |-> m.modifier \in {"+", "*"},
         partial |-> prefix # <<>> /\ next # <<>> /\ prefix # next,
         delimiter |-> IF delimited THEN prefix[1] ELSE opts.delimiter,
         group |-> m.group]

\* parse.  path is the plain text since the last parameter; it is escaped when
\* an escaped character is in it.  An unescaped bracket throws.
RECURSIVE ParseRoute(_, _, _, _, _, _)
ParseRoute(opts, route, pos, path, path_escaped, tokens) ==
    LET m == TokenAt(route, pos)
        param == parameter_token(opts, m, route, path, path_escaped)
        before == SubSeq(path, 1, Len(path) - Len(param.prefix))
        plain == IF before = <<>> THEN <<>> ELSE <<plain_string_token(before)>>
    IN  IF eof(route, pos)
        THEN Parsed(IF path = <<>> THEN tokens
                    ELSE Append(tokens, plain_string_token(path)), pos)
        ELSE IF m.is = "escaped"
        THEN ParseRoute(opts, route, m.end, Append(path, m.char), TRUE, tokens)
        ELSE IF m.is = "param"
        THEN ParseRoute(opts, route, m.end, <<>>, path_escaped /\ plain = <<>>,
                        tokens \o plain \o <<param>>)
        ELSE IF route[pos + 1] \in {"(", ")"} THEN Failed("non_escaped_bracket", pos)
        ELSE ParseRoute(opts, route, pos + 1, Append(path, route[pos + 1]),
                        path_escaped, tokens)

\* path2regex: the tokens, and the ending that tokens2regexp appends.
path2regex(route, opts) ==
    LET r == ParseRoute(opts, route, 0, <<>>, FALSE, <<>>)
    IN  IF ~r.ok THEN r ELSE Parsed([tokens |-> r.value, opts |-> opts], 0)

-----------------------------------------------------------------------------
(* The compiled expression, and the regular expression engine              *)

Same(opts, a, b) ==
    IF opts.sensitive THEN a = b ELSE to_lower_case(a) = to_lower_case(b)
TextAt(opts, text, path, pos) ==
    /\ pos + Len(text) <= Len(path)
    /\ \A i \in DOMAIN text : Same(opts, text[i], path[pos + i])

Ascending(a, b) == [i \in 1..(b - a + 1) |-> a + i - 1]
Thread(F(_), s) == FlattenSeq([i \in DOMAIN s |-> F(s[i])])

\* The groups of the routes: \d+ and .* take as much as they can, the pattern
\* [^delimiter]+? of a parameter without a group as little.
PatternEnds(token, path, pos) ==
    LET run(S) == SkipWhile(S, path, pos)
        greedy == Chars("\\d+") = token.group \/ Chars(".*") = token.group
        last == run(IF token.group = Chars("\\d+") THEN IsDigit
                    ELSE IF token.group = Chars(".*") THEN ToSet(path)
                    ELSE ToSet(path) \ {token.delimiter})
        least == IF token.group = Chars(".*") THEN pos ELSE pos + 1
    IN  IF greedy THEN Reverse(Ascending(least, last)) ELSE Ascending(least, last)

\* (?:P) or (?:P)(?:prefix(?:P))*, the repetition greedy
RECURSIVE CaptureEnds(_, _, _, _)
CaptureEnds(opts, token, path, pos) ==
    LET more(e) ==
            IF token.repeat /\ e > pos /\ TextAt(opts, token.prefix, path, e)
            THEN Append(CaptureEnds(opts, token, path, e + Len(token.prefix)), e)
            ELSE <<e>>
    IN  Thread(more, PatternEnds(token, path, pos))

\* append_self_to: the ways a token matches at pos, each with its capture
\* (the pair of positions of a group that did not take part is the end).
TokenMatches(opts, token, path, pos) ==
    LET from == pos + Len(token.prefix)
        ends == CaptureEnds(opts, token, path, from)
        taken == [i \in DOMAIN ends |->
                    [end |-> ends[i], capture |-> SubSeq(path, from + 1, ends[i])]]
        captured == IF TextAt(opts, token.prefix, path, pos) THEN taken ELSE <<>>
    IN  CASE token.optional /\ ~token.partial ->
               Append(captured, [end |-> pos, capture |-> <<>>])
          [] token.optional /\ token.partial ->
               IF TextAt(opts, token.prefix, path, pos)
               THEN Append(captured, [end |-> from, capture |-> <<>>]) ELSE <<>>
          [] ~token.optional -> captured

ends_with(opts, path, pos) ==
    \/ eof(path, pos)
    \/ \E e \in ToSet(opts.ends_with) : e # <<>> /\ TextAt(opts, e, path, pos)

EndingAsks(opts, tokens, path, pos) == IF pos = Len(path) THEN <<pos>> ELSE <<>>

\* The ends of a match after the last token
EndingEnds(opts, tokens, path, pos) ==
    LET slash == TextAt(opts, <<opts.delimiter>>, path, pos)
        delimited == tokens = <<>> \/ (Last(tokens).is = "plain"
                                       /\ Last(Last(tokens).text) \in opts.delimiters)
        ends == IF opts.ending
                THEN (IF ~opts.strict /\ slash THEN <<pos + 1>> ELSE <<>>) \o <<pos>>
                ELSE (IF ~opts.strict /\ slash /\ ends_with(opts, path, pos + 1)
                      THEN <<pos + 1>> ELSE <<>>) \o <<pos>>
        accepted(e) == IF opts.ending THEN ends_with(opts, path, e)
                       ELSE delimited \/ ends_with(opts, path, e)
                            \/ TextAt(opts, <<opts.delimiter>>, path, e)
    IN  SelectSeq(ends, accepted)

\* The matches of the tokens from the k-th on, in the order of backtracking
RECURSIVE RouteMatches(_, _, _, _)
RouteMatches(regex, k, path, pos) ==
    LET token == regex.tokens[k]
        rest(m) == LET found == RouteMatches(regex, k + 1, path, m.end)
                   IN  [i \in DOMAIN found |->
                           [found[i] EXCEPT !.captures = <<m.capture>> \o @]]
        ends == EndingEnds(regex.opts, regex.tokens, path, pos)
    IN  IF k > Len(regex.tokens)
        THEN [i \in DOMAIN ends |-> [end |-> ends[i], captures |-> <<>>]]
        ELSE IF token.is = "plain"
        THEN IF TextAt(regex.opts, token.text, path, pos)
             THEN RouteMatches(regex, k + 1, path, pos + Len(token.text)) ELSE <<>>
        ELSE Thread(rest, TokenMatches(regex.opts, token, path, pos))

-----------------------------------------------------------------------------
(* The express router                                                      *)

\* match_route: the parameters by name and by index
route_params(regex, m) ==
    LET params == SelectSeq(regex.tokens, LAMBDA t : t.is = "param")
        pairs == [i \in DOMAIN params |-> <<params[i].name, m.captures[i]>>]
    IN  [named |-> SelectSeq(pairs, LAMBDA p : p[1] # <<>>),
         indexed |-> SelectSeq(pairs, LAMBDA p : p[1] = <<>>)]

match_route(regex, path) ==
    LET found == RouteMatches(regex, 1, path, 0)
    IN  IF found = <<>> THEN Failed("no_match", 0)
        ELSE Parsed(route_params(regex, found[1]), found[1].end)

Unmatched(router) ==
    IF router.non_matched_request_handler THEN "non_matched" ELSE "not_handled"

FirstMatching(router, tried) ==
    LET matches == {i \in DOMAIN tried : tried[i].ok}
    IN  IF matches = {} THEN [handler |-> Unmatched(router)]
        ELSE [handler |-> Min(matches), params |-> tried[Min(matches)].value]

\* generic_express_router_t::operator()
express_router(router, method, path) ==
    LET target == target_path_holder(path)
        tried(entry) == IF match(entry.method, method) THEN match_route(entry.route, target.value)
                        ELSE Failed("no_match", 0)
    IN  IF ~target.ok THEN [handler |-> "throws"]
        ELSE FirstMatching(router, [i \in DOMAIN router.entries |-> tried(router.entries[i])])

-----------------------------------------------------------------------------
(* The easy_parser router.  An item of a route is a fixed text, skipped,   *)
(* or a producer, whose value is the next of the tuple; a value may be     *)
(* unescaped, which throws when it cannot be.                              *)

path_fragment_p(separator) ==
    produce(<<>>, <<repeat(1, N, <<to_container(any_symbol_if_not_p(separator))>>)>>)

FixedItem(str) == [is |-> "fixed", text |-> str]
ProducerItem(p) == [is |-> "value", producer |-> p, unescape |-> FALSE]
unescape(p) == [is |-> "value", producer |-> p, unescape |-> TRUE]

\* path_to_params and path_to_tuple: the items as the clauses of one producer
ItemValue(item, value) ==
    IF item.unescape THEN unescape_percent_encoding("restinio_default", value)
    ELSE Parsed(value, 0)

NextValue(values, pos, v) ==
    IF v.ok THEN Parsed(Append(values, v.value), pos) ELSE Failed("throws", pos)

AfterItem(values, item, r) ==
    IF ~r.ok THEN r
    ELSE IF item.is = "fixed" THEN Parsed(values, r.pos)
    ELSE NextValue(values, r.pos, ItemValue(item, r.value))

path_to_params(items, path) ==
    FoldLeft(LAMBDA done, item :
                 IF ~done.ok THEN done
                 ELSE AfterItem(done.value, item,
                          try_parse(IF item.is = "fixed" THEN exact_p(item.text)
                                    ELSE item.producer, path, done.pos)),
             Parsed(<<>>, 0), items)

\* actual_router_entry_t::try_handle, with the top level of easy_parser::try_parse
try_handle(entry, method, target) ==
    LET s == remove_trailing_spaces(target)
    IN  IF match(entry.method, method) THEN AllConsumed(s, path_to_params(entry.route, s))
        ELSE Failed("no_match", 0)

KeepsTrailingSlash(path) == path

\* Take care of an optional trailing slash.
path_to_inspect(path) ==
    IF Len(path) > 1 /\ Last(path) = "/" THEN Front(path) ELSE path

\* generic_easy_parser_router_t::operator(): an entry that throws ends the search.
FirstEnding(router, tried) ==
    LET ends == {i \in DOMAIN tried : tried[i].ok \/ tried[i].reason = "throws"}
    IN  IF ends = {} THEN [handler |-> Unmatched(router)]
        ELSE IF ~tried[Min(ends)].ok THEN [handler |-> "throws"]
        ELSE [handler |-> Min(ends), params |-> tried[Min(ends)].value]

easy_parser_router(router, method, path) ==
    LET target == target_path_holder(path_to_inspect(path))
    IN  IF ~target.ok THEN [handler |-> "throws"]
        ELSE FirstEnding(router, [i \in DOMAIN router.entries |->
                                    try_handle(router.entries[i], method, target.value)])

=============================================================================
