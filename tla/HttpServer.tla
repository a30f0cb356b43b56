----------------------------- MODULE HttpServer -----------------------------
(***************************************************************************)
(* http::Server, its ConnectionManager and connections (net/http/server.cc *)
(* and server/*.cc) with http::Client (client.cc) and other peers at the   *)
(* far end.  One thread runs the io_context and its handlers one at a      *)
(* time; Shutdown is called on another.                                    *)
(*                                                                         *)
(* A request is `head` units up to the one at which RequestParser decides  *)
(* (good or bad) and `body` units behind it; a reply is a status line, a   *)
(* header block and len units of content.  The parser itself is modelled   *)
(* character by character in HttpText.                                     *)
(*                                                                         *)
(* asio and TCP (when an operation completes, with how much, what the peer *)
(* sees of a close) are external.                                          *)
(***************************************************************************)
EXTENDS Integers

CONSTANTS
    Conns,          \* the connections peers make, one each
    Request,        \* what the peer of a connection sends
    MaxContent,     \* bound: units of content in a reply
    MaxFailures     \* bound: failed accepts and broken connections

ASSUME HttpServerAssumption ==
    /\ Conns \cap {"none", "pending", "error"} = {}
    /\ Request \in [Conns -> [own : BOOLEAN, good : BOOLEAN, head : Nat \ {0}, body : Nat]]
    /\ MaxContent \in Nat /\ MaxFailures \in Nat

VARIABLES
    peer,       \* per connection: units sent, whether it sends no more, the end it
                \* sees of the connection, and what Client::Do returned
    conn,       \* per connection, the server's TcpConnection; see NewConn
    managed,    \* connections_
    acceptor, backlog,  \* connections made and not yet accepted
    accept,     \* async_accept: "none", "pending", "error" or the connection it got
    busy,       \* what the accept handler that is running was given
    shutdown,   \* where Shutdown is
    io,         \* the io_context runs
    raced,      \* history: connections_ was changed during StopAll
    late,       \* history: the acceptor was closed while its handler was running
    failures

acceptVars == <<acceptor, backlog, accept, busy>>
ctlVars == <<shutdown, io, late, failures>>
vars == <<peer, conn, managed, acceptVars, ctlVars, raced>>

NoReply == [status |-> "none", len |-> 0]
Reply == [status : {"ok", "other"}, len : 0 .. MaxContent]

(* Response::stock_reply(bad_request)                                      *)
BadRequest == [status |-> "other", len |-> MaxContent]

(* The units of a reply in Response::to_buffers.                           *)
Total(r) == 2 + r.len

(* sock: the socket; read, write: the operation on it, "none", "wait" or   *)
(* how it ended; got: units read, whole: in one read; content: units of    *)
(* the body given to the handler; reply: reply_; out: units of it written. *)
NewConn ==
    [sock |-> "none", read |-> "none", write |-> "none", got |-> 0, whole |-> FALSE,
     content |-> 0, reply |-> NoReply, out |-> 0]

(* After Server::Listen: the acceptor listens and DoAccept has been called. *)
Init ==
    /\ peer = [c \in Conns |-> [sent |-> 0, quit |-> FALSE, end |-> "open", result |-> "none"]]
    /\ conn = [c \in Conns |-> NewConn] /\ managed = {}
    /\ acceptor = "open" /\ backlog = {} /\ accept = "pending" /\ busy = "none"
    /\ shutdown = "no" /\ io = "running" /\ raced = FALSE /\ late = FALSE /\ failures = 0

-----------------------------------------------------------------------------
(* Peers.  http::Client sends its whole request (Client::Do, Request::     *)
(* to_buffers); another peer may send a part of one and close.             *)

Size(c) == Request[c].head + Request[c].body

Connect(c) ==
    /\ acceptor = "open" /\ conn[c].sock = "none" /\ c \notin backlog
    /\ backlog' = backlog \cup {c}
    /\ UNCHANGED <<peer, conn, managed, acceptor, accept, busy, ctlVars, raced>>

(* Client::Do after asio::connect: asio::write.  Either throws out of Do   *)
(* if the server has shut down before.                                     *)
Do(c) ==
    /\ peer[c].sent = 0 /\ peer[c].result = "none"
    /\ \/ /\ peer[c].end = "open" /\ (c \in backlog \/ conn[c].sock # "none")
          /\ \E k \in IF Request[c].own THEN {Size(c)} ELSE 1 .. Size(c) :
                peer' = [peer EXCEPT ![c].sent = k]
       \/ /\ peer[c].end # "open" \/ (acceptor = "closed" /\ conn[c].sock = "none")
          /\ peer' = [peer EXCEPT ![c].result = "threw"]
    /\ UNCHANGED <<conn, managed, acceptVars, ctlVars, raced>>

PeerCloses(c) ==
    /\ ~Request[c].own /\ peer[c].sent > 0 /\ ~peer[c].quit
    /\ peer' = [peer EXCEPT ![c].quit = TRUE]
    /\ UNCHANGED <<conn, managed, acceptVars, ctlVars, raced>>

(* Client::ReadResponse: a status line other than 200; the end of a        *)
(* response whose header it has; an end or an error before that.           *)
ReadResponse(c) ==
    /\ Request[c].own /\ peer[c].sent > 0 /\ peer[c].result = "none"
    /\ \E r \in {"InvalidArgument", "Ok", "Cancelled"} :
        /\ CASE r = "InvalidArgument" -> conn[c].out >= 1 /\ conn[c].reply.status # "ok"
             [] r = "Ok" -> /\ conn[c].out >= 2 /\ conn[c].reply.status = "ok"
                            /\ peer[c].end = "fin"
             [] r = "Cancelled" -> peer[c].end = "reset" \/ (peer[c].end = "fin" /\ conn[c].out < 2)
        /\ peer' = [peer EXCEPT ![c].result = r, ![c].quit = TRUE]
    /\ UNCHANGED <<conn, managed, acceptVars, ctlVars, raced>>

-----------------------------------------------------------------------------
(* The server's sockets (external).                                        *)

(* What the peer sees when the server closes: a reset if bytes it sent     *)
(* were never read.                                                        *)
EndOfClose(c) ==
    IF peer[c].end # "open" THEN {peer[c].end}
    ELSE IF peer[c].sent > conn[c].got THEN {"fin", "reset"} ELSE {"fin"}

SocketStep == UNCHANGED <<peer, managed, acceptVars, ctlVars, raced>>

ReadSome(c) ==
    /\ conn[c].read = "wait" /\ peer[c].end = "open"
    /\ \E k \in 1 .. peer[c].sent - conn[c].got :
        conn' = [conn EXCEPT ![c].got = @ + k, ![c].whole = (k = Size(c)), ![c].read = "ok"]
    /\ SocketStep

(* A bug: one write, whatever it took (async_write_some).                  *)
WriteSomeOnce(c) ==
    /\ conn[c].write = "wait" /\ peer[c].end = "open" /\ io = "running"
    /\ \E k \in 1 .. Total(conn[c].reply) - conn[c].out :
        conn' = [conn EXCEPT ![c].out = @ + k, ![c].write = "ok"]
    /\ SocketStep

(* async_write goes on until everything is written.                        *)
WriteSome(c) ==
    /\ conn[c].write = "wait" /\ peer[c].end = "open" /\ io = "running"
    /\ \E k \in 1 .. Total(conn[c].reply) - conn[c].out :
        conn' = [conn EXCEPT ![c].out = @ + k,
                             ![c].write = IF conn[c].out + k = Total(conn[c].reply) THEN "ok" ELSE @]
    /\ SocketStep

(* End of file, a reset, or a peer that is gone.                           *)
OpFails(c) ==
    /\ \/ /\ conn[c].read = "wait"
          /\ peer[c].end = "reset" \/ (peer[c].quit /\ conn[c].got = peer[c].sent)
          /\ conn' = [conn EXCEPT ![c].read = "error"]
       \/ /\ conn[c].write = "wait" /\ (peer[c].end = "reset" \/ peer[c].quit)
          /\ conn' = [conn EXCEPT ![c].write = "error"]
    /\ SocketStep

(* The connection breaks.                                                  *)
Breaks(c) ==
    /\ conn[c].sock = "open" /\ peer[c].end = "open" /\ failures < MaxFailures
    /\ peer' = [peer EXCEPT ![c].end = "reset"] /\ failures' = failures + 1
    /\ UNCHANGED <<conn, managed, acceptVars, shutdown, io, late, raced>>

(* async_accept completes.                                                 *)
AcceptReady(c) ==
    /\ accept = "pending" /\ c \in backlog
    /\ accept' = c /\ backlog' = backlog \ {c}
    /\ conn' = [conn EXCEPT ![c].sock = "open"]
    /\ UNCHANGED <<peer, managed, acceptor, busy, ctlVars, raced>>

AcceptFails ==
    /\ accept = "pending" /\ failures < MaxFailures
    /\ accept' = "error" /\ failures' = failures + 1
    /\ UNCHANGED <<peer, conn, managed, acceptor, backlog, busy, shutdown, io, late, raced>>

-----------------------------------------------------------------------------
(* Handlers on the io thread.                                              *)

Runs == io = "running" /\ busy = "none"

(* An operation started on the socket of c.                                *)
Started(c) == IF conn[c].sock = "closed" THEN "error" ELSE "wait"

(* TcpConnection::Stop: close() aborts the operations that wait.           *)
Aborted(o) == IF o = "wait" THEN "aborted" ELSE o
Closed(cn) == [cn EXCEPT !.sock = "closed", !.read = Aborted(@), !.write = Aborted(@)]

CloseConn(c, cn) ==
    /\ conn' = [conn EXCEPT ![c] = Closed(cn)]
    /\ \E e \in EndOfClose(c) : peer' = [peer EXCEPT ![c].end = e]

(* ConnectionManager::Stop of c, its handler having left it as cn.         *)
ManagerStop(c, cn) ==
    /\ managed' = managed \ {c}
    /\ raced' = (raced \/ shutdown = "stopping")
    /\ CloseConn(c, cn)

(* A bug: the accept handler does not look whether the server was stopped. *)
RunAcceptUnchecked ==
    /\ Runs /\ accept \in Conns \cup {"error"}
    /\ busy' = accept /\ accept' = "none"
    /\ UNCHANGED <<peer, conn, managed, acceptor, backlog, ctlVars, raced>>

(* The accept handler returns if the acceptor is closed; the socket it was *)
(* given closes with it.                                                   *)
RunAccept ==
    /\ Runs /\ accept \in Conns \cup {"error"}
    /\ accept' = "none"
    /\ \/ acceptor = "open" /\ busy' = accept /\ UNCHANGED <<conn, peer>>
       \/ /\ acceptor = "closed" /\ UNCHANGED busy
          /\ IF accept \in Conns THEN CloseConn(accept, conn[accept]) ELSE UNCHANGED <<conn, peer>>
    /\ UNCHANGED <<managed, acceptor, backlog, ctlVars, raced>>

(* DoAccept: async_accept, which fails at once on a closed acceptor.       *)
DoAccept == accept' = IF acceptor = "open" THEN "pending" ELSE "error"

(* The rest of the handler: ConnectionManager::Start, then DoAccept.       *)
StartAccepted ==
    /\ busy # "none"
    /\ DoAccept
    /\ IF busy \in Conns
       THEN /\ managed' = managed \cup {busy}
            /\ raced' = (raced \/ shutdown = "stopping")
            /\ conn' = [conn EXCEPT ![busy].read = Started(busy)]
       ELSE UNCHANGED <<managed, raced, conn>>
    /\ busy' = "none"
    /\ UNCHANGED <<peer, acceptor, backlog, ctlVars>>

(* Bugs: the buffer with the header in it; one unit of it swallowed.       *)
ContentWithHeader(c) == conn[c].got
ContentSwallows(c) ==
    IF conn[c].got > Request[c].head THEN conn[c].got - Request[c].head - 1 ELSE 0

(* parse: what this read brought behind the header is the content.         *)
Content(c) == conn[c].got - Request[c].head

(* The read handler.  parse decides at the unit `head`: the handler of the *)
(* path writes reply_, or it is the stock reply for a bad request, and     *)
(* then DoWrite; before that unit, another DoRead.                         *)
RunRead(c) ==
    /\ Runs /\ conn[c].read = "ok"
    /\ \/ /\ conn[c].got >= Request[c].head /\ Request[c].good
          /\ \E r \in Reply :
                conn' = [conn EXCEPT ![c].read = "none", ![c].write = Started(c),
                                     ![c].content = Content(c), ![c].reply = r]
       \/ /\ conn[c].got >= Request[c].head /\ ~Request[c].good
          /\ conn' = [conn EXCEPT ![c].read = "none", ![c].write = Started(c),
                                  ![c].reply = BadRequest]
       \/ /\ conn[c].got < Request[c].head
          /\ conn' = [conn EXCEPT ![c].read = Started(c)]
    /\ SocketStep

(* The connection when the handler of an operation that ended with ec has  *)
(* been taken from the queue.                                              *)
Ended(c, ec) ==
    {cn \in {[conn[c] EXCEPT !.read = "none"]} : conn[c].read = ec} \cup
    {cn \in {[conn[c] EXCEPT !.write = "none"]} : conn[c].write = ec}

(* operation_aborted: nothing more is done.                                *)
RunAborted(c) ==
    /\ Runs
    /\ \E cn \in Ended(c, "aborted") : conn' = [conn EXCEPT ![c] = cn]
    /\ SocketStep

(* A bug: any error is treated like that.                                  *)
RunErrorQuietly(c) ==
    /\ Runs
    /\ \E cn \in Ended(c, "error") : conn' = [conn EXCEPT ![c] = cn]
    /\ SocketStep

(* Either handler with another error.                                      *)
RunError(c) ==
    /\ Runs
    /\ \E cn \in Ended(c, "error") : ManagerStop(c, cn)
    /\ UNCHANGED <<acceptVars, ctlVars>>

(* A bug: a connection with nothing left to read waits for another request. *)
RunWrittenKeepsAlive(c) ==
    /\ Runs /\ conn[c].write = "ok"
    /\ IF conn[c].got < peer[c].sent THEN ManagerStop(c, [conn[c] EXCEPT !.write = "none"])
       ELSE /\ conn' = [conn EXCEPT ![c].write = "none", ![c].read = Started(c)]
            /\ UNCHANGED <<peer, managed, raced>>
    /\ UNCHANGED <<acceptVars, ctlVars>>

(* The write handler: shutdown_both, then ConnectionManager::Stop.         *)
RunWritten(c) ==
    /\ Runs /\ conn[c].write = "ok"
    /\ ManagerStop(c, [conn[c] EXCEPT !.write = "none"])
    /\ UNCHANGED <<acceptVars, ctlVars>>

-----------------------------------------------------------------------------
(* Server::Shutdown on another thread.                                     *)

(* acceptor_.close(): a waiting accept is aborted; connections nobody has  *)
(* accepted are reset.                                                     *)
ShutdownAcceptor ==
    /\ shutdown = "no"
    /\ shutdown' = "stopping" /\ acceptor' = "closed"
    /\ accept' = IF accept = "pending" THEN "error" ELSE accept
    /\ late' = (busy # "none")
    /\ peer' = [c \in Conns |-> [peer[c] EXCEPT !.end = IF c \in backlog THEN "reset" ELSE @]]
    /\ backlog' = {}
    /\ UNCHANGED <<conn, managed, busy, io, raced, failures>>

(* ConnectionManager::StopAll: the handlers that run meanwhile and change  *)
(* connections_ race with its loop (raced).                                *)
StopAll ==
    /\ shutdown = "stopping"
    /\ shutdown' = "cleared" /\ managed' = {}
    /\ conn' = [c \in Conns |-> IF c \in managed THEN Closed(conn[c]) ELSE conn[c]]
    /\ \E e \in [managed -> {"open", "fin", "reset"}] :
        /\ \A c \in managed : e[c] \in EndOfClose(c)
        /\ peer' = [c \in Conns |-> [peer[c] EXCEPT !.end = IF c \in managed THEN e[c] ELSE @]]
    /\ UNCHANGED <<acceptVars, io, raced, late, failures>>

StopIo ==
    /\ shutdown = "cleared"
    /\ shutdown' = "returned" /\ io' = "stopped"
    /\ UNCHANGED <<peer, conn, managed, acceptVars, raced, late, failures>>

-----------------------------------------------------------------------------
Client(c) == Do(c) \/ ReadResponse(c)
Socket(c) == ReadSome(c) \/ WriteSome(c) \/ OpFails(c) \/ AcceptReady(c)
Handler(c) == RunRead(c) \/ RunError(c) \/ RunAborted(c) \/ RunWritten(c)

Next ==
    \/ \E c \in Conns :
        Connect(c) \/ Client(c) \/ PeerCloses(c) \/ Breaks(c) \/ Socket(c) \/ Handler(c)
    \/ AcceptFails \/ RunAccept \/ StartAccepted
    \/ ShutdownAcceptor \/ StopAll \/ StopIo

Spec == Init /\ [][Next]_vars

(* Data and ends of connections arrive, the io thread runs its handlers,   *)
(* and a Client that has connected goes on.                                *)
FairSpec ==
    /\ Spec
    /\ \A c \in Conns : WF_vars(Client(c)) /\ WF_vars(Socket(c)) /\ WF_vars(Handler(c))
    /\ WF_vars(RunAccept) /\ WF_vars(StartAccepted)

-----------------------------------------------------------------------------
OpStates == {"none", "wait", "ok", "error", "aborted"}

PeerType(c) ==
    [sent : 0 .. Size(c), quit : BOOLEAN, end : {"open", "fin", "reset"},
     result : {"none", "Ok", "InvalidArgument", "Cancelled", "threw"}]

ConnType(c) ==
    [sock : {"none", "open", "closed"}, read : OpStates, write : OpStates, got : 0 .. Size(c),
     whole : BOOLEAN, content : 0 .. Request[c].body, reply : Reply \cup {NoReply},
     out : 0 .. MaxContent + 2]

(* Operations, counts and replies have their types; nobody reads more than *)
(* was sent or writes more than the reply.                                 *)
TypeOK ==
    /\ \A c \in Conns : peer[c] \in PeerType(c) /\ conn[c] \in ConnType(c)
    /\ \A c \in Conns : conn[c].got <= peer[c].sent /\ conn[c].out <= Total(conn[c].reply)
    /\ acceptor \in {"open", "closed"} /\ backlog \subseteq Conns /\ managed \subseteq Conns
    /\ accept \in Conns \cup {"none", "pending", "error"} /\ busy \in Conns \cup {"none", "error"}
    /\ shutdown \in {"no", "stopping", "cleared", "returned"} /\ io \in {"running", "stopped"}
    /\ raced \in BOOLEAN /\ late \in BOOLEAN /\ failures \in 0 .. MaxFailures

(* While nothing changes connections_ behind StopAll's back, no connection *)
(* is lost or left over: an open socket is in the manager or on its way    *)
(* there, and a connection in the manager is open and has an operation     *)
(* under way whose handler will get rid of it (ConnectionManager, DoRead,  *)
(* DoWrite).                                                               *)
ManagedIffOpen ==
    ~raced => \A c \in Conns :
        /\ conn[c].sock = "open" => c \in managed \cup {accept, busy}
        /\ c \in managed => /\ conn[c].sock = "open"
                            /\ conn[c].read # "none" \/ conn[c].write # "none"

(* When Shutdown has returned no connection is served any more, unless it  *)
(* met the accept handler past its is_open test, or raced (Shutdown).      *)
ShutdownStopsAll == (shutdown = "returned" /\ ~late /\ ~raced) => managed = {}

(* The manager holds the connections that are served, and after Shutdown   *)
(* there are none (ConnectionManager, Shutdown).                           *)
ManagerHoldsTheServed == ManagedIffOpen /\ ShutdownStopsAll

(* A Client that returns Ok has the whole content of the reply, unless     *)
(* Shutdown cut it: ReadResponse takes any end of file for the end of the  *)
(* content (DoWrite, ReadResponse).                                        *)
OkIsComplete ==
    \A c \in Conns :
        (peer[c].result = "Ok" /\ shutdown = "no") => conn[c].out = Total(conn[c].reply)

(* A handler has been given the body of a request that came in one read    *)
(* (RequestParser::parse takes the rest of the buffer, nothing reads more). *)
BodyOfOneRead ==
    \A c \in Conns :
        (conn[c].reply # NoReply /\ Request[c].good /\ conn[c].whole) =>
            conn[c].content = Request[c].body

(* Messages arrive whole in both directions, but for the departures named  *)
(* (parse, DoWrite, ReadResponse).                                         *)
MessagesArriveWhole == OkIsComplete /\ BodyOfOneRead

(* A Client whose request was sent returns, as long as the server is not   *)
(* shut down (Client::Do; the accept loop, DoRead, DoWrite).               *)
EveryCallReturns ==
    \A c \in {d \in Conns : Request[d].own} :
        peer[c].sent > 0 ~> (peer[c].result # "none" \/ shutdown # "no")
=============================================================================
