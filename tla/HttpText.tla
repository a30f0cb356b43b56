------------------------------ MODULE HttpText ------------------------------
(***************************************************************************)
(* The text of HTTP as operators: Url (url.cc), a request as Client writes *)
(* it (request.cc), RequestParser with UrlDecode and parse_uri, FormData,  *)
(* and the routing of ServeMux.                                            *)
(***************************************************************************)
EXTENDS Text

Question == 63
Colon == 58
Percent == 37
Amp == 38
Equal == 61
Plus == 43

-----------------------------------------------------------------------------
(* Url::Url.  A text without a colon makes it read behind its end; what it *)
(* finds there is not modelled: it takes up nothing but the scheme.        *)

Part(t, from, to) == SubSeq(t, from, IF to = 0 THEN Len(t) ELSE to - 1)

(* A bug: the "?" is taken into the query.                                 *)
QueryWithMark(t, query) == IF query = 0 THEN <<>> ELSE Part(t, query, 0)

Query(t, query) == IF query = 0 THEN <<>> ELSE Part(t, query + 1, 0)

Url(t) ==
    LET colon == FindFirst(t, 1, {Colon})
        none == [scheme |-> Part(t, 1, colon), host |-> <<>>, raw_path |-> <<>>, raw_query |-> <<>>]
        slashes == Len(t) >= colon + 2 /\ t[colon + 1] = Slash /\ t[colon + 2] = Slash
        third == Len(t) > colon + 2 /\ t[colon + 3] = Slash
        path == FindFirst(t, colon + 3, {Slash})
        query == IF path = 0 THEN 0 ELSE FindFirst(t, path, {Question})
        host == Part(t, colon + 3, path) IN
    IF colon <= 1 \/ ~slashes \/ third \/ host = <<>> THEN none
    ELSE [scheme |-> Part(t, 1, colon), host |-> host,
          raw_path |-> IF path = 0 THEN <<>> ELSE Part(t, path, query),
          raw_query |-> Query(t, query)]

HTTP == <<72, 84, 84, 80, 47>>
CRLF == <<CR, LF>>

(* Header names, one letter for each name Request::to_buffers writes.      *)
HeaderLine(name, value) == <<name, Colon, SP>> \o value \o CRLF

(* Request::to_buffers: the request line, Host, Accept, Content-Length if  *)
(* there is content, TcpConnection, the content.  The headers set with     *)
(* set_header are not written.                                             *)
to_buffers(method, url, content) ==
    LET uri == url.raw_path \o (IF url.raw_query = <<>> THEN <<>>
                                ELSE <<Question>> \o url.raw_query) IN
    method \o <<SP>> \o uri \o <<SP>> \o HTTP \o <<49, 46, 48>> \o CRLF
    \o HeaderLine(72, url.host) \o HeaderLine(65, <<42, 47, 42>>)
    \o (IF content = <<>> THEN <<>> ELSE HeaderLine(76, <<49>>))
    \o HeaderLine(84, <<99>>) \o CRLF \o content

-----------------------------------------------------------------------------
(* RequestParser.                                                          *)

is_char(c) == c \in 0 .. 127
is_ctl(c) == c \in 0 .. 31 \cup {127}
is_tspecial(c) ==
    c \in {40, 41, 60, 62, 64, 44, 59, 58, 92, 34, 47, 91, 93, 63, 61, 123, 125, 32, 9}
is_digit(c) == c \in 48 .. 57
Token(c) == is_char(c) /\ ~is_ctl(c) /\ ~is_tspecial(c)

(* A state of the parser and what it has put into the Request; a header is *)
(* known by the value it has so far.  The version numbers, which nothing   *)
(* reads, are left out.                                                    *)
NewParser == [state |-> "method_start", method |-> <<>>, uri |-> <<>>, headers |-> <<>>]

(* The states that wait for one character, and where they go with it.      *)
Literal ==
    [http_version_h |-> <<72, "http_version_t_1">>, http_version_t_1 |-> <<84, "http_version_t_2">>,
     http_version_t_2 |-> <<84, "http_version_p">>, http_version_p |-> <<80, "http_version_slash">>,
     http_version_slash |-> <<Slash, "http_version_major_start">>,
     space_before_header_value |-> <<SP, "header_value">>,
     expecting_newline_1 |-> <<LF, "header_line_start">>,
     expecting_newline_2 |-> <<LF, "header_line_start">>, expecting_newline_3 |-> <<LF, "good">>]

(* A bug: the first header line may be a continuation, too.                *)
ContinuesAny(p, c) == c \in {SP, TAB}

(* A line that continues the header before it.                             *)
Continues(p, c) == p.headers # <<>> /\ c \in {SP, TAB}

(* RequestParser::consume; state "good" or "bad" is the result.            *)
Consume(p, c) ==
    LET To(s) == [p EXCEPT !.state = s]
        Method == [p EXCEPT !.state = "method", !.method = Append(@, c)]
        Uri == [p EXCEPT !.uri = Append(@, c)]
        Name == [p EXCEPT !.state = "header_name", !.headers = Append(@, <<>>)]
        Value == [p EXCEPT !.state = "header_value", !.headers[Len(p.headers)] = Append(@, c)]
        Digit(s) == IF is_digit(c) THEN To(s) ELSE To("bad")
        lws == c \in {SP, TAB} IN
    CASE p.state \in DOMAIN Literal ->
            IF c = Literal[p.state][1] THEN To(Literal[p.state][2]) ELSE To("bad")
      [] p.state = "method_start" -> IF Token(c) THEN Method ELSE To("bad")
      [] p.state = "method" ->
            IF c = SP THEN To("uri") ELSE IF Token(c) THEN Method ELSE To("bad")
      [] p.state = "uri" ->
            IF c = SP THEN To("http_version_h") ELSE IF is_ctl(c) THEN To("bad") ELSE Uri
      [] p.state = "http_version_major_start" -> Digit("http_version_major")
      [] p.state = "http_version_major" ->
            IF c = 46 THEN To("http_version_minor_start") ELSE Digit("http_version_major")
      [] p.state = "http_version_minor_start" -> Digit("http_version_minor")
      [] p.state = "http_version_minor" ->
            IF c = CR THEN To("expecting_newline_1") ELSE Digit("http_version_minor")
      [] p.state = "header_line_start" ->
            IF c = CR THEN To("expecting_newline_3")
            ELSE IF Continues(p, c) THEN To("header_lws")
            ELSE IF Token(c) THEN Name ELSE To("bad")
      [] p.state = "header_lws" ->
            IF c = CR THEN To("expecting_newline_2") ELSE IF lws THEN p
            ELSE IF is_ctl(c) THEN To("bad") ELSE Value
      [] p.state = "header_name" ->
            IF c = Colon THEN To("space_before_header_value")
            ELSE IF Token(c) THEN p ELSE To("bad")
      [] p.state = "header_value" ->
            IF c = CR THEN To("expecting_newline_2") ELSE IF is_ctl(c) THEN To("bad") ELSE Value

Decided(p) == p.state \in {"good", "bad"}

(* The loop of parse: the parser when a text has been consumed up to the   *)
(* character that decides, and how many characters that took.              *)
Parse(text) ==
    FoldLeft(LAMBDA s, c : IF Decided(s.p) THEN s ELSE [p |-> Consume(s.p, c), n |-> s.n + 1],
             [p |-> NewParser, n |-> 0], text)

(* What >> std::hex reads.                                                 *)
HexDigits == 48 .. 57 \cup 65 .. 70 \cup 97 .. 102
HexValue(c) == IF c <= 57 THEN c - 48 ELSE tolower(c) - 87

(* A bug: one character of the escape is read again.                       *)
AfterEscapeEarly(i) == i + 2

(* Where UrlDecode goes on after an escape at i.                           *)
AfterEscape(i) == i + 3

(* UrlDecode: >> std::hex reads as many hex digits as there are; one is    *)
(* enough, and both characters are consumed (a sign, which it would take,  *)
(* too, is not followed).  A failure ends it early, and its caller does    *)
(* not look.                                                               *)
UrlDecode(in) ==
    LET Step(s, i) ==
            IF i < s.next THEN s
            ELSE IF in[i] = Plus THEN [s EXCEPT !.out = Append(@, SP), !.next = i + 1]
            ELSE IF in[i] # Percent THEN [s EXCEPT !.out = Append(@, in[i]), !.next = i + 1]
            ELSE IF i + 2 > Len(in) \/ in[i + 1] \notin HexDigits THEN [s EXCEPT !.next = Len(in) + 1]
            ELSE [s EXCEPT !.next = AfterEscape(i),
                           !.out = Append(@, IF in[i + 2] \in HexDigits
                                             THEN HexValue(in[i + 1]) * 16 + HexValue(in[i + 2])
                                             ELSE HexValue(in[i + 1]))] IN
    FoldLeftDomain(Step, [out |-> <<>>, next |-> 1], in).out

-----------------------------------------------------------------------------
(* FormData.                                                               *)

(* One parameter: values_[key] = value, the value empty without a "=".     *)
SetParam(values, param) ==
    LET sep == FindFirst(param, 1, {Equal}) IN
    (Part(param, 1, sep) :> IF sep = 0 THEN <<>> ELSE Part(param, sep + 1, 0)) @@ values

(* FormData::Parse: up to the first empty parameter.                       *)
FormParse(query) ==
    LET params == StrSplit(query, Amp)
        stop == SelectInSeq(params, LAMBDA p : p = <<>>) IN
    FoldLeft(SetParam, <<>>, IF stop = 0 THEN params ELSE SubSeq(params, 1, stop - 1))

(* FormData::Encode: in the order of the keys, nothing escaped.            *)
LessSeq(s, t) ==
    \/ IsStrictPrefix(s, t)
    \/ \E i \in DOMAIN s \cap DOMAIN t :
        s[i] < t[i] /\ SubSeq(s, 1, i - 1) = SubSeq(t, 1, i - 1)

(* A bug: nothing between the pairs.                                       *)
EncodeUnseparated(values) ==
    FoldLeft(LAMBDA r, k : r \o k \o <<Equal>> \o values[k], <<>>, SetToSortSeq(DOMAIN values, LessSeq))

Encode(values) ==
    FoldLeft(LAMBDA r, k : r \o (IF r = <<>> THEN <<>> ELSE <<Amp>>) \o k \o <<Equal>> \o values[k],
             <<>>, SetToSortSeq(DOMAIN values, LessSeq))

(* A bug: the last "?" instead of the first.                               *)
parse_uri_last(uri) ==
    LET sep == FindLast(uri, {Question}) IN
    [path |-> Part(uri, 1, sep),
     params |-> IF sep = 0 THEN <<>> ELSE FormParse(Part(uri, sep + 1, 0))]

(* parse_uri on the decoded uri.                                           *)
parse_uri(uri) ==
    LET sep == FindFirst(uri, 1, {Question}) IN
    [path |-> Part(uri, 1, sep),
     params |-> IF sep = 0 THEN <<>> ELSE FormParse(Part(uri, sep + 1, 0))]

-----------------------------------------------------------------------------
(* ServeMux: funcs_ the set of patterns, prefix_funcs_ a sequence.         *)

(* A bug: in front of the others, longer or not.                           *)
InsertPrefixFront(prefixes, pattern) == <<pattern>> \o prefixes

(* In front of the first shorter pattern.                                  *)
InsertPrefix(prefixes, pattern) ==
    LET at == SelectInSeq(prefixes, LAMBDA p : Len(pattern) > Len(p)) IN
    IF at = 0 THEN Append(prefixes, pattern) ELSE InsertAt(prefixes, at, pattern)

(* ServeMux::set_handler: an empty or a known pattern is ignored.          *)
set_handler(mux, pattern) ==
    IF pattern = <<>> \/ pattern \in mux.funcs THEN mux
    ELSE [funcs |-> mux.funcs \cup {pattern},
          prefixes |-> IF Last(pattern) = Slash THEN InsertPrefix(mux.prefixes, pattern)
                       ELSE mux.prefixes]

(* ServeMux::ServeHttp: the pattern whose function is called (<<>>: "Not   *)
(* found"), and the subpath.                                               *)
ServeHttp(mux, path) ==
    LET i == SelectInSeq(mux.prefixes, LAMBDA p : StartsWithIgnoreCase(path, p)) IN
    IF path \in mux.funcs THEN [pattern |-> path, subpath |-> <<>>]
    ELSE IF i = 0 THEN [pattern |-> <<>>, subpath |-> <<>>]
    ELSE [pattern |-> mux.prefixes[i], subpath |-> SubSeq(path, Len(mux.prefixes[i]), Len(path))]
=============================================================================
