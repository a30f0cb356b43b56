----------------------------- MODULE TextChecks -----------------------------
(***************************************************************************)
(* The operators of Text and HttpText against reference definitions, over  *)
(* inputs that grow one character (or one argument, or one pattern) at a   *)
(* time: Subject says what the input is for.                               *)
(***************************************************************************)
EXTENDS HttpText, StatusRep, FiniteSets

CONSTANTS
    Flags,          \* the flags a program has registered with Args
    Seeds,          \* Seeds[subject]: the inputs to start from
    Alphabet,       \* Alphabet[subject]: what may be added
    MaxGrowth       \* MaxGrowth[subject]: bound, how much may be added

VARIABLES subject, input, grown
vars == <<subject, input, grown>>

Init ==
    /\ subject \in DOMAIN Seeds
    /\ input \in Seeds[subject]
    /\ grown = 0

(* A request grows until the parser has decided.                           *)
Grow ==
    /\ grown < MaxGrowth[subject]
    /\ subject = "request" => ~Decided(Parse(input).p)
    /\ \E x \in Alphabet[subject] : input' = Append(input, x)
    /\ grown' = grown + 1
    /\ UNCHANGED subject

Spec == Init /\ [][Grow]_vars

Of(s) == subject = s

-----------------------------------------------------------------------------
(* The grammar RequestParser accepts, told by lines and not by states.     *)

TokenText(t) == t # <<>> /\ \A i \in DOMAIN t : Token(t[i])
ValueText(t) == \A i \in DOMAIN t : ~is_ctl(t[i])
Digits(t) == t # <<>> /\ \A i \in DOMAIN t : is_digit(t[i])

RequestLine(l) ==
    LET parts == StrSplit(l, SP)
        dot == IF Len(parts) = 3 THEN FindFirst(parts[3], 1, {46}) ELSE 0 IN
    /\ Len(parts) = 3 /\ dot # 0
    /\ TokenText(parts[1]) /\ ValueText(parts[2])
    /\ IsPrefix(HTTP, parts[3])
    /\ Digits(SubSeq(parts[3], 6, dot - 1)) /\ Digits(SubSeq(parts[3], dot + 1, Len(parts[3])))

HeaderField(l) ==
    LET colon == FindFirst(l, 1, {Colon}) IN
    /\ colon # 0 /\ TokenText(SubSeq(l, 1, colon - 1))
    /\ Len(l) > colon /\ l[colon + 1] = SP /\ ValueText(SubSeq(l, colon + 2, Len(l)))

Continuation(l) ==
    /\ l # <<>> /\ l[1] \in {SP, TAB}
    /\ LET v == FindFirst(l, 1, NotIn(l, {SP, TAB})) IN v # 0 => ValueText(SubSeq(l, v, Len(l)))

IsRequest(t) ==
    LET pieces == StrSplit(t, LF)
        k == Len(pieces)
        line(i) == Front(pieces[i]) IN
    /\ k >= 3 /\ pieces[k] = <<>> /\ pieces[k - 1] = <<CR>>
    /\ \A i \in 1 .. k - 2 : pieces[i] # <<>> /\ Last(pieces[i]) = CR /\ ~Contains(line(i), CR)
    /\ RequestLine(line(1))
    /\ \A i \in 2 .. k - 2 : HeaderField(line(i)) \/ (i > 2 /\ Continuation(line(i)))

(* Any text that can be completed to a request can be with the rest of     *)
(* this one (or of its first line and last).                               *)
Completions ==
    LET line == <<97, SP, 97, SP>> \o HTTP \o <<49, 46, 49>> \o CRLF
    IN  Suffixes(line \o CRLF) \cup Suffixes(<<97, Colon, SP>> \o CRLF \o CRLF) \cup {<<>>}

(* RequestParser accepts the requests of the grammar and no others, at     *)
(* their last character, and is bad as soon as nothing can make a request  *)
(* of what it has seen (consume).                                          *)
ParserDecidesGrammar ==
    Of("request") =>
        LET p == Parse(input).p IN
        /\ p.state = "good" <=> IsRequest(input)
        /\ p.state = "bad" <=> \A s \in Completions : ~IsRequest(input \o s)

(* A Url that has a host is made of the parts that were found, each        *)
(* character in one of them and in order (Url::Url).                       *)
UrlKeepsText ==
    Of("url") =>
        LET u == Url(input)
            front == u.scheme \o <<Colon, Slash, Slash>> \o u.host \o u.raw_path IN
        u.host # <<>> =>
            input \in {front, front \o <<Question>> \o u.raw_query}

(* What http::Client writes for a URL without blanks and escapes arrives:  *)
(* RequestParser takes it, at the end of its header, and the handler finds *)
(* the method, the path and the parameters of the URL (to_buffers,         *)
(* consume, UrlDecode, parse_uri, FormData::Parse).                        *)
ClientIsUnderstood ==
    (Of("url") /\ Url(input).host # <<>>) =>
        LET u == Url(input)
            text == to_buffers(<<71>>, u, <<120>>)
            s == Parse(text)
            r == parse_uri(UrlDecode(s.p.uri)) IN
        (ToSet(input) \cap (0 .. SP \cup {Percent, Plus}) = {}) =>
            /\ s.p.state = "good" /\ SubSeq(text, s.n + 1, Len(text)) = <<120>>
            /\ s.p.method = <<71>> /\ Len(s.p.headers) = 4
            /\ r.path = u.raw_path /\ r.params = FormParse(u.raw_query)

(* A form that was parsed comes out of Encode and Parse as it was: no key  *)
(* or value that Parse makes needs an escape (FormData).                   *)
FormSurvivesEncode ==
    Of("form") => FormParse(Encode(FormParse(input))) = FormParse(input)

(* Escaped characters, in either case of the hex digits, come out of       *)
(* UrlDecode as they were, the ones an escape or a blank is made of too,   *)
(* next to characters that are not escaped.                                *)
EscapesAreUndone ==
    Of("escape") =>
        LET Digit(d, a) == IF d < 10 THEN 48 + d ELSE a + d - 10
            Escape(c, a) == <<Percent, Digit(c \div 16, a), Digit(c % 16, a)>>
            Written(S, a) == FlattenSeq([i \in DOMAIN input |->
                IF i \in S \/ input[i] \in {Percent, Plus} THEN Escape(input[i], a)
                ELSE IF input[i] = SP THEN <<Plus>> ELSE <<input[i]>>]) IN
        \A S \in SUBSET (DOMAIN input), a \in {65, 97} : UrlDecode(Written(S, a)) = input

MuxOf(patterns) == FoldLeft(set_handler, [funcs |-> {}, prefixes |-> <<>>], patterns)

(* A request goes to the handler of exactly its path, or else to the one   *)
(* with the longest prefix of it, the first registered among those of the  *)
(* same length, in whatever order they were registered (set_handler,       *)
(* ServeHttp).                                                             *)
LongestPrefixServes ==
    Of("mux") =>
        LET Prefix(i, path) ==
                input[i] # <<>> /\ Last(input[i]) = Slash /\ StartsWithIgnoreCase(path, input[i])
            Best(i, path) ==
                /\ Prefix(i, path)
                /\ \A j \in DOMAIN input : Prefix(j, path) =>
                    Len(input[j]) < Len(input[i]) \/ (Len(input[j]) = Len(input[i]) /\ i <= j) IN
        \A path \in {p \o s : p \in Alphabet["mux"], s \in {<<>>, <<97>>, <<97, Slash>>}} :
            LET pattern == ServeHttp(MuxOf(input), path).pattern IN
            IF path # <<>> /\ Contains(input, path) THEN pattern = path
            ELSE IF \E i \in DOMAIN input : Prefix(i, path)
            THEN \E i \in DOMAIN input : Best(i, path) /\ pattern = input[i]
            ELSE pattern = <<>>

(* A URL given to the client ends at the handler registered for its path,  *)
(* with its parameters (Url, to_buffers, consume, UrlDecode, parse_uri,    *)
(* FormData, ServeMux).                                                    *)
RequestsReachTheirHandler ==
    /\ UrlKeepsText /\ ClientIsUnderstood /\ EscapesAreUndone
    /\ FormSurvivesEncode /\ LongestPrefixServes

-----------------------------------------------------------------------------
(* Trimming a text with something else than blanks in it removes the      *)
(* longest runs of the cutset at the ends and no more (StrTrim).           *)
TrimmedAtBothEnds ==
    (Of("text") /\ ~(ToSet(input) \subseteq kSpaceChars)) =>
        LET t == StrTrim(input, kSpaceChars) IN
        /\ t # <<>> /\ t[1] \notin kSpaceChars /\ Last(t) \notin kSpaceChars
        /\ \E i, j \in 0 .. Len(input) :
            /\ i + Len(t) + j = Len(input) /\ SubSeq(input, i + 1, i + Len(t)) = t
            /\ ToSet(SubSeq(input, 1, i)) \cup ToSet(SubSeq(input, Len(input) - j + 1, Len(input)))
                \subseteq kSpaceChars

(* StrFields gives the words of a text: what stands between blanks, in     *)
(* order, and nothing else.                                                *)
FieldsAreWords ==
    Of("text") =>
        LET blank(c) == IF c \in kSpaceChars THEN SP ELSE c IN
        StrFields(input) =
            SelectSeq(StrSplit([i \in DOMAIN input |-> blank(input[i])], SP), LAMBDA f : f # <<>>)

(* Joining paths joins their segments: nothing gets lost or empty, however *)
(* the slashes stand, and an absolute path stays absolute.  Only an empty  *)
(* first part turns a relative path into an absolute one (PathJoin,        *)
(* PathSplit).                                                             *)
JoinedPathsSplit ==
    Of("path") =>
        \A k \in 1 .. Len(input) :
            LET a == SubSeq(input, 1, k)
                b == SubSeq(input, k + 1, Len(input))
                segs == SelectSeq(PathSplit(b), LAMBDA p : p # <<Slash>>) IN
            PathSplit(PathJoin(<<a, b>>)) = PathSplit(a) \o segs

(* A path with a slash in it is its Dir, the slash and its Basename, as    *)
(* long as it has no backslash (Dir takes either for a separator, Basename *)
(* a backslash only where there is no slash).                              *)
DirAndBasename ==
    (Of("path") /\ Contains(input, Slash) /\ ~Contains(input, Backslash)) =>
        Dir(input) \o <<Slash>> \o Basename(input) = input

(* Arguments written into a line, quoted, are read back as they were, also *)
(* with blanks in them (Tokenizer, ParseArgLine); input is a list of       *)
(* arguments, none of them empty or with a quote in it.                    *)
QuotedArgsReadBack ==
    Of("args") =>
        LET line == FlattenSeq([i \in DOMAIN input |-> <<34>> \o input[i] \o <<34, SP>>])
            r == ParseArgLine(line) IN
        r.ok /\ r.args = input

(* Args::Parse takes a line in which every flag that wants a value has one *)
(* behind it and every value stands behind such a flag, and no other; then *)
(* a flag has the value it was given last, and else its default.  From     *)
(* argv, with blanks about, it takes the same.                             *)
LastValueCounts ==
    Of("flags") =>
        LET L == Operands(input)
            word(i) == L[i][1] # Dash
            wants(i) == L[i] \in DOMAIN Flags /\ Flags[L[i]].type # "kBool"
            fits == \A i \in DOMAIN L :
                        IF word(i) THEN i > 1 /\ wants(i - 1)
                        ELSE L[i] \in DOMAIN Flags /\ (wants(i) => i < Len(L) /\ word(i + 1))
            blanked == [i \in DOMAIN input |-> <<TAB>> \o input[i] \o <<SP>>]
            r == ParseLine(Flags, <<>>, FlattenSeq(blanked)) IN
        /\ r.ok <=> fits
        /\ r = ParseArgv(Flags, blanked)
        /\ \A f \in {Flags[n] : n \in DOMAIN Flags} :
            LET uses == {i \in DOMAIN L : L[i] \in DOMAIN Flags /\ Flags[L[i]] = f}
                last == CHOOSE i \in uses : \A j \in uses : j <= i IN
            GetValue(Flags, r.values, f.long_name) =
                IF ~fits \/ uses = {} THEN f.default_value
                ELSE IF f.type = "kBool" THEN <<116>> ELSE L[last + 1]

(* After several calls of Args::Parse the values are those of one line,    *)
(* the last one whose quotes are closed, and never a mixture; a line with  *)
(* an open quote changes nothing.                                          *)
ValuesOfOneLine ==
    Of("lines") =>
        LET Parsed(lines) == FoldLeft(LAMBDA v, l : ParseLine(Flags, v, l).values, <<>>, lines)
            closed == SelectSeq(input, LAMBDA l : Len(StrSplit(l, 34)) \in {0, 1, 3}) IN
        Parsed(input) = IF closed = <<>> THEN <<>> ELSE Parsed(<<Last(closed)>>)

(* What is taken apart is what was put together, at every boundary: blanks *)
(* (str_util), slashes (fs), quotes and flags (args).                      *)
TextReadsBack ==
    /\ TrimmedAtBothEnds /\ FieldsAreWords
    /\ JoinedPathsSplit /\ DirAndBasename
    /\ QuotedArgsReadBack /\ LastValueCounts /\ ValuesOfOneLine

-----------------------------------------------------------------------------
(* input is a sequence of operations on two Status objects.                *)
Worlds(ops) == FoldLeft(StatusOp, [st |-> <<0, 0>>, heap |-> <<>>], ops)

(* What the operations should do: values, not pointers.                    *)
OkValue == [code |-> 0, len |-> 0]
StatusValue(w, x) ==
    IF w.st[x] = 0 THEN OkValue ELSE [code |-> w.heap[w.st[x]].code, len |-> w.heap[w.st[x]].len]

ValueOp(v, o) ==
    LET x == o.x
        y == o.y
        swapped == [v EXCEPT ![x] = v[y], ![y] = v[x]] IN
    CASE o.op \in {"assign error", "assign formatted"} ->
            [v EXCEPT ![x] = [code |-> o.code, len |-> o.len]]
      [] o.op \in {"copy assign", "copy"} -> [v EXCEPT ![x] = v[y]]
      [] o.op = "move assign" -> swapped
      [] o.op = "move" -> [v EXCEPT ![x] = v[y], ![y] = OkValue]
      [] o.op = "update" -> IF v[x] = OkValue THEN [v EXCEPT ![x] = v[y]] ELSE v
      [] o.op = "update by move" -> IF v[x] = OkValue THEN swapped ELSE v
      [] o.op = "destroy" -> [v EXCEPT ![x] = OkValue]

(* A Status is a value, whatever is assigned, moved, updated or destroyed, *)
(* to itself, too: every array is owned by exactly one object and not      *)
(* deleted, or deleted once and owned by none (Status, status.h).          *)
StatusIsValue ==
    Of("status") =>
        LET w == Worlds(input)
            v == FoldLeft(ValueOp, <<OkValue, OkValue>>, input) IN
        /\ \A x \in 1 .. 2 : StatusValue(w, x) = v[x]
        /\ \A p \in DOMAIN w.heap :
            Cardinality({x \in 1 .. 2 : w.st[x] = p}) + w.heap[p].deleted = 1
=============================================================================
