------------------------------- MODULE MCText -------------------------------
EXTENDS TextChecks

StartLine == <<97, SP, 97, SP>> \o HTTP \o <<49, 46, 49>>
Header == StartLine \o CRLF \o <<97, Colon, SP, 97>>

MCFlags ==
    LET d == [type |-> "kBool", long_name |-> "debug", default_value |-> <<>>]
        p == [type |-> "kLong", long_name |-> "port", default_value |-> <<56>>] IN
    (<<Dash, 100>> :> d) @@ (<<Dash, 112>> :> p) @@ (<<Dash, Dash, 112, 112>> :> p)

StatusOps ==
    LET Ops(names, S) == {[op |-> n, x |-> p[1], y |-> p[2], code |-> c, len |-> c] :
                            n \in names, p \in S, c \in {0}}
        any == (1 .. 2) \X (1 .. 2) IN
    Ops({"copy assign", "move assign", "update", "update by move"}, any)
    \cup Ops({"copy", "move"}, {<<1, 2>>, <<2, 1>>}) \cup Ops({"destroy"}, {<<1, 1>>, <<2, 2>>})
    \cup [op : {"assign error", "assign formatted"}, x : 1 .. 2, y : {1}, code : {5}, len : {1, 2}]

MCSeeds ==
    [request |-> {<<>>, <<97, SP>>, <<97, SP, 97, SP>>, SubSeq(StartLine, 1, 9), StartLine,
                  StartLine \o CRLF, Header, Header \o CRLF,
                  Header \o CRLF \o <<SP>>},
     url |-> {<<>>, <<97, Colon, Slash>>, <<97, Colon, Slash, Slash, 97>>},
     form |-> {<<>>}, mux |-> {<<>>}, text |-> {<<>>}, path |-> {<<>>}, args |-> {<<>>},
     flags |-> {<<>>}, lines |-> {<<>>}, escape |-> {<<>>}, status |-> {<<>>}]

MCAlphabet ==
    [request |-> {97, 72, 84, 49, 46, SP, TAB, Colon, Slash, CR, LF, 200},
     url |-> {97, Colon, Slash, Question, Amp, Equal},
     form |-> {97, 98, Amp, Equal},
     mux |-> {<<>>, <<Slash>>, <<Slash, 97>>, <<Slash, 65, Slash>>, <<Slash, 97, Slash>>,
              <<Slash, 97, Slash, 97, Slash>>},
     text |-> {97, 98, SP, TAB}, path |-> {97, Slash, Backslash},
     args |-> {<<97>>, <<97, SP, 98>>, <<Dash, 97>>, <<SP>>},
     flags |-> DOMAIN MCFlags \cup {<<97>>, <<98>>, <<Dash, 120>>}, status |-> StatusOps,
     lines |-> {<<>>, <<Dash, 100>>, <<Dash, 112, SP, 97>>, <<Dash, 112, SP, 34, 97, 34, SP, Dash, 100>>,
                <<Dash, 112>>, <<Dash, 112, SP, 34, 97>>, <<Dash, 100, 34>>, <<97, SP, 98>>},
     escape |-> {97, 70, 48, SP, LF, Percent, Plus, 127, 200}]

MCMaxGrowth ==
    [request |-> 3, url |-> 5, form |-> 6, mux |-> 4, text |-> 6, path |-> 7, args |-> 4, flags |-> 5,
     lines |-> 4, escape |-> 3, status |-> 3]
=============================================================================
