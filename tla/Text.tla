-------------------------------- MODULE Text --------------------------------
(***************************************************************************)
(* Text functions of the program as operators: string_view searches,       *)
(* str_util.cc, the path functions of fs.cc, and the command line of       *)
(* args.cc.  A character is its code, a string a sequence of codes; an     *)
(* index counts from 1 and 0 stands for npos.                              *)
(***************************************************************************)
EXTENDS Integers, SequencesExt

TAB == 9
LF == 10
CR == 13
SP == 32
Quotes == {34, 39}
Slash == 47
Backslash == 92

kSpaceChars == {SP, TAB, CR, LF}

(* find_first_of(S, pos), with S the complement for find_first_not_of;     *)
(* find_last_of and find_last_not_of likewise.                             *)
FindFirst(s, pos, S) == SelectInSubSeq(s, pos, Len(s), LAMBDA c : c \in S)
FindLast(s, S) == SelectLastInSeq(s, LAMBDA c : c \in S)
NotIn(s, S) == ToSet(s) \ S

(* A bug: the search starts one too late.                                  *)
StrTrimLeftLate(s, cutset) ==
    LET pos == FindFirst(s, 1, NotIn(s, cutset)) IN
    IF pos = 0 THEN s ELSE SubSeq(s, pos + 1, Len(s))

(* StrTrimLeft, StrTrimRight, StrTrim: a string of nothing but the cutset  *)
(* is left as it is.                                                       *)
StrTrimLeft(s, cutset) ==
    LET pos == FindFirst(s, 1, NotIn(s, cutset)) IN
    IF pos = 0 THEN s ELSE SubSeq(s, pos, Len(s))

StrTrimRight(s, cutset) ==
    LET pos == FindLast(s, NotIn(s, cutset)) IN
    IF pos = 0 THEN s ELSE SubSeq(s, 1, pos)

StrTrim(s, cutset) == StrTrimRight(StrTrimLeft(s, cutset), cutset)

(* StrSplit: the pieces between delimiters, empty ones too; none for the   *)
(* empty text.                                                             *)
StrSplit(text, delimiter) ==
    LET Step(r, c) ==
            IF c = delimiter THEN Append(r, <<>>) ELSE [r EXCEPT ![Len(r)] = Append(@, c)] IN
    IF text = <<>> THEN <<>> ELSE FoldLeft(Step, <<<<>>>>, text)

(* A bug: the last field is lost when nothing stands behind it.            *)
LastFieldNone(s, start) == <<>>

(* What StrFields adds when no blank follows any more: the rest, trimmed.  *)
LastField(s, start) ==
    LET cell == StrTrimRight(SubSeq(s, start, Len(s)), kSpaceChars) IN
    IF start = 0 \/ cell = <<>> THEN <<>> ELSE <<cell>>

(* StrFields: `start` is where the next field begins, 0 for npos; at most  *)
(* one round of the loop per character.                                    *)
StrFields(s) ==
    LET First(pos) == IF pos = 0 THEN 0 ELSE FindFirst(s, pos, NotIn(s, kSpaceChars))
        Step(r, i) ==
            LET end == IF r.start = 0 THEN 0 ELSE FindFirst(s, r.start, kSpaceChars) IN
            IF end = 0 THEN r
            ELSE [start |-> First(end), fields |-> Append(r.fields, SubSeq(s, r.start, end - 1))]
        r == FoldLeftDomain(Step, [start |-> First(1), fields |-> <<>>], s) IN
    r.fields \o LastField(s, r.start)

tolower(c) == IF c \in 65 .. 90 THEN c + 32 ELSE c

StartsWithIgnoreCase(text, prefix) ==
    /\ Len(text) >= Len(prefix)
    /\ \A i \in DOMAIN prefix : tolower(text[i]) = tolower(prefix[i])

-----------------------------------------------------------------------------
(* Paths (fs.cc).                                                          *)

(* PathJoin of two to five parts.                                          *)
PathJoin(parts) ==
    FoldLeft(LAMBDA r, p : r \o <<Slash>> \o StrTrim(p, {Slash}),
             StrTrimRight(Head(parts), {Slash}), Tail(parts))

(* A bug: empty segments are kept.                                         *)
PathSplitEmpties(path) ==
    IF path = <<>> THEN <<>>
    ELSE (IF path[1] = Slash THEN <<<<Slash>>>> ELSE <<>>) \o StrSplit(path, Slash)

PathSplit(path) ==
    IF path = <<>> THEN <<>>
    ELSE (IF path[1] = Slash THEN <<<<Slash>>>> ELSE <<>>)
         \o SelectSeq(StrSplit(path, Slash), LAMBDA p : p # <<>>)

Dir(path) == SubSeq(path, 1, FindLast(path, {Slash, Backslash}) - 1)

(* A bug: the first separator instead of the last.                         *)
BasenameFirst(path) ==
    SubSeq(path, FindFirst(path, 1, {Slash}) + 1, Len(path))

(* Basename: behind the last slash, or else behind the last backslash.     *)
Basename(path) ==
    LET slash == FindLast(path, {Slash})
        pos == IF slash # 0 THEN slash ELSE FindLast(path, {Backslash}) IN
    SubSeq(path, pos + 1, Len(path))

-----------------------------------------------------------------------------
(* Command lines (args.cc).                                                *)

(* char is signed: the codes from 128 on are below the blank.              *)
Visible(c) == c > SP /\ c < 128

(* One call of Tokenizer::MoveNext from the position `at`: the token and   *)
(* the position behind it, or an error.                                    *)
MoveNext(line, at) ==
    LET start == FindFirst(line, at, {c \in ToSet(line) : Visible(c)})
        q == IF start = 0 THEN 0 ELSE FindFirst(line, start + 1, {line[start]})
        stop == FindFirst(line, start, {c \in ToSet(line) : ~Visible(c) \/ c \in Quotes}) IN
    CASE start = 0 -> [ok |-> TRUE, value |-> <<>>, at |-> Len(line) + 1]
      [] start # 0 /\ line[start] \in Quotes ->
            [ok |-> q # 0, value |-> SubSeq(line, start + 1, q - 1), at |-> q + 1]
      [] OTHER ->
            [ok |-> stop = 0 \/ line[stop] \notin Quotes,
             value |-> SubSeq(line, start, IF stop = 0 THEN Len(line) ELSE stop - 1),
             at |-> IF stop = 0 THEN Len(line) + 1 ELSE stop]

(* A bug: a quoted token goes on behind its quote.                         *)
NextTokenKeepsQuote(line, s) ==
    LET t == MoveNext(line, s.at) IN
    IF ~t.ok THEN [s EXCEPT !.ok = FALSE, !.run = FALSE]
    ELSE IF t.value = <<>> THEN [s EXCEPT !.run = FALSE]
    ELSE [s EXCEPT !.args = Append(@, t.value), !.at = t.at - 1]

(* One round of the loop of ParseArgLine: an error or an empty token ends  *)
(* it.                                                                     *)
NextToken(line, s) ==
    LET t == MoveNext(line, s.at) IN
    IF ~t.ok THEN [s EXCEPT !.ok = FALSE, !.run = FALSE]
    ELSE IF t.value = <<>> THEN [s EXCEPT !.run = FALSE]
    ELSE [s EXCEPT !.args = Append(@, t.value), !.at = t.at]

ParseArgLine(line) ==
    LET Step(s, i) == IF s.run THEN NextToken(line, s) ELSE s IN
    FoldLeft(Step, [ok |-> TRUE, run |-> TRUE, args |-> <<>>, at |-> 1],
             [i \in 1 .. Len(line) + 1 |-> i])

(* Args::Impl::Parse.  flags maps a name as it is written, "-p" or         *)
(* "--port", to what AddBool, AddString or AddLong gave it (GetFlag).      *)
Dash == 45

(* A bug: a flag in place of a value drops the flag before it.             *)
ParseStepForgives(flags, s, arg) ==
    IF ~s.ok THEN s
    ELSE IF arg[1] = Dash THEN
        IF arg \notin DOMAIN flags THEN [s EXCEPT !.ok = FALSE]
        ELSE IF flags[arg].type = "kBool"
             THEN [s EXCEPT !.result = (flags[arg].long_name :> <<116>>) @@ @]
             ELSE [s EXCEPT !.flag = flags[arg].long_name]
    ELSE IF s.flag = "none" THEN [s EXCEPT !.ok = FALSE]
    ELSE [s EXCEPT !.result = (s.flag :> arg) @@ @, !.flag = "none"]

(* One argument: a flag that must be known and not stand where a value     *)
(* should, or the value of the flag before it.                             *)
ParseStep(flags, s, arg) ==
    IF ~s.ok THEN s
    ELSE IF arg[1] = Dash THEN
        IF s.flag # "none" \/ arg \notin DOMAIN flags THEN [s EXCEPT !.ok = FALSE]
        ELSE IF flags[arg].type = "kBool"
             THEN [s EXCEPT !.result = (flags[arg].long_name :> <<116>>) @@ @]
             ELSE [s EXCEPT !.flag = flags[arg].long_name]
    ELSE IF s.flag = "none" THEN [s EXCEPT !.ok = FALSE]
    ELSE [s EXCEPT !.result = (s.flag :> arg) @@ @, !.flag = "none"]

(* A first argument that is no flag is the program's name.                 *)
Operands(args) == IF args # <<>> /\ args[1][1] # Dash THEN Tail(args) ELSE args

(* Args::Impl::Parse: the new values_, none after an error.                *)
ArgsParse(flags, args) ==
    LET s == FoldLeft(LAMBDA r, arg : ParseStep(flags, r, arg),
                      [ok |-> TRUE, flag |-> "none", result |-> <<>>], Operands(args))
        ok == s.ok /\ s.flag = "none" IN
    [ok |-> ok, values |-> IF ok THEN s.result ELSE <<>>]

(* A bug: values of earlier lines stay where the line gives none.          *)
ParseLineMerges(flags, values, line) ==
    LET t == ParseArgLine(line)
        r == ArgsParse(flags, t.args) IN
    IF t.ok THEN [r EXCEPT !.values = @ @@ values] ELSE [ok |-> FALSE, values |-> values]

(* Args::Parse of a line, with the values_ there were: a line the          *)
(* tokenizer refuses leaves them, before they are cleared.                 *)
ParseLine(flags, values, line) ==
    LET t == ParseArgLine(line) IN
    IF t.ok THEN ArgsParse(flags, t.args) ELSE [ok |-> FALSE, values |-> values]

(* Args::Parse of argc and argv: trimmed, without the empty ones.          *)
ParseArgv(flags, argv) ==
    LET trimmed == [i \in DOMAIN argv |-> StrTrim(argv[i], kSpaceChars)] IN
    ArgsParse(flags, SelectSeq(trimmed, LAMBDA a : a # <<>>))

(* Args::Impl::GetValue of a name some flag has.                           *)
GetValue(flags, values, name) ==
    IF name \in DOMAIN values THEN values[name]
    ELSE (CHOOSE f \in {flags[n] : n \in DOMAIN flags} : f.long_name = name).default_value
=============================================================================
