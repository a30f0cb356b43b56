---------------------------- MODULE MCHttpServer ----------------------------
(* A POST by http::Client, and a peer that sends something malformed.      *)
EXTENDS HttpServer

CONSTANTS c1, c2

MCConns == {c1, c2}

MCRequest ==
    [c \in MCConns |-> IF c = c1 THEN [own |-> TRUE, good |-> TRUE, head |-> 2, body |-> 1]
                       ELSE [own |-> FALSE, good |-> FALSE, head |-> 1, body |-> 0]]
=============================================================================
