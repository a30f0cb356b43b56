----------------------------- MODULE TcpServer -----------------------------
(***************************************************************************)
(* net::TcpServer and TcpConnManager (net/tcp): the accept loop and the    *)
(* connections it starts, on one io thread, with user threads that call    *)
(* Listen, Stop and Boardcast.  A TcpConn is reduced to its life: whether  *)
(* its socket is open, whether it is being read, what Send was given and   *)
(* whether a write of it is due; a write to an open socket takes all of    *)
(* it.  Partial and overlapping writes are in TcpConn.                     *)
(*                                                                         *)
(* The user's receive callback broadcasts what it gets, as the chat room   *)
(* of examples/ does.                                                      *)
(***************************************************************************)
EXTENDS Integers, Sequences, FiniteSets

CONSTANTS
    MaxConns,       \* bound: connections made
    MaxCasts,       \* bound: broadcasts of each caster
    MaxListens      \* bound: calls of Listen

ASSUME TcpServerAssumption == MaxConns \in Nat /\ MaxCasts \in Nat /\ MaxListens \in Nat

Conns == 1 .. MaxConns
Casters == {"user", "io"}       \* threads that walk connections_ in Boardcast

VARIABLES
    acceptor,       \* "none", "open" (Listen threw half way), "listening", "closed", "gone"
    accepting,      \* async_accept operations that wait
    accepted,       \* the accept handler past its check: its ec, or "none"
    ready,          \* handlers ready to run
    connections,    \* connections_ of the manager
    made,           \* connections made so far
    sock,           \* socket_: "open", "reset" (by the peer), "bad" (never opened), "closed"
    reading,        \* connections with a read that waits
    unwritten,      \* connections with bytes in output_buffer_
    receiver,       \* the connection whose receive callback runs, or 0
    todo,           \* connections a caster has still to visit
    io,             \* the io thread: "running", "threw", "stopped"
    listens, casts, \* calls of Listen, Boardcast
    got, joined,    \* history, until raced: the broadcasts Send was given; those made before that
    raced,          \* history: connections_ changed under a user's Boardcast
    overlapped,     \* history: Listen with an accept handler of the last one still to run
    late            \* history: connections started since Stop

accVars == <<acceptor, accepting, accepted, overlapped, late, listens>>
connVars == <<connections, made, sock, joined>>
castVars == <<todo, casts, got, unwritten>>
vars == <<accVars, connVars, castVars, ready, reading, receiver, raced, io>>

H(op, c, ec) == [op |-> op, c |-> c, ec |-> ec]

IsData(h) == h.op = "read" /\ h.ec = "ok"

(* Accept handlers, and reads with data, among those that are ready.       *)
AcceptsReady == Cardinality({i \in DOMAIN ready : ready[i].op = "accept"})
DataReady == Cardinality({i \in DOMAIN ready : IsData(ready[i])})
Budget == made + AcceptsReady + (IF accepted = "none" THEN 0 ELSE 1)

NoSockets == [c \in Conns |-> "bad"]
Nothing == [c \in Conns |-> [k \in Casters |-> <<>>]]
NoneBefore == [c \in Conns |-> [k \in Casters |-> 0]]

Init ==
    /\ connections = {} /\ made = 0 /\ sock = NoSockets /\ reading = {} /\ unwritten = {}
    /\ got = Nothing /\ joined = NoneBefore
    /\ acceptor = "none" /\ accepting = 0 /\ accepted = "none" /\ ready = <<>>
    /\ receiver = 0 /\ todo = [k \in Casters |-> {}] /\ io = "running"
    /\ listens = 0 /\ casts = [k \in Casters |-> 0]
    /\ raced = FALSE /\ overlapped = FALSE /\ late = 0

-----------------------------------------------------------------------------
(* asio and the peers (external): an operation completes inside            *)
(* io_context::run, and nobody else would notice a reset.                  *)

(* A peer connects, or accept fails.                                       *)
AcceptReady(ec) ==
    /\ io = "running" /\ acceptor = "listening" /\ accepting > 0 /\ Budget < MaxConns
    /\ accepting' = accepting - 1
    /\ ready' = Append(ready, H("accept", 0, ec))
    /\ UNCHANGED <<acceptor, accepted, overlapped, late, listens, connVars, castVars, reading,
                   receiver, raced, io>>

(* A read completes: with data, or because the peer has left or reset.     *)
ReadReady(c, ec) ==
    /\ io = "running" /\ c \in reading /\ sock[c] \in (IF ec = "ok" THEN {"open"} ELSE {"open", "reset"})
    /\ ec = "ok" => casts["io"] + DataReady < MaxCasts
    /\ reading' = reading \ {c}
    /\ ready' = Append(ready, H("read", c, ec))
    /\ UNCHANGED <<accVars, connVars, castVars, receiver, raced, io>>

PeerReset(c) ==
    /\ io = "running" /\ sock[c] = "open"
    /\ sock' = [sock EXCEPT ![c] = "reset"]
    /\ UNCHANGED <<accVars, connections, made, joined, castVars, ready, reading, receiver, raced, io>>

-----------------------------------------------------------------------------
(* Listen: open, bind, listen, and the first accept.  It throws if the     *)
(* address does not resolve, if the acceptor is open already, or, when it  *)
(* has opened it, in bind; only that leaves a trace.                       *)
Listen ==
    /\ acceptor \in {"none", "closed"} /\ listens < MaxListens /\ Budget < MaxConns
    /\ \/ acceptor' = "listening" /\ accepting' = accepting + 1
       \/ acceptor' = "open" /\ UNCHANGED accepting
    /\ listens' = listens + 1
    /\ overlapped' = (overlapped \/ AcceptsReady > 0 \/ accepted # "none")
    /\ late' = 0
    /\ UNCHANGED <<accepted, connVars, castVars, ready, reading, receiver, raced, io>>

(* Stop: acceptor_.close() completes what waits with operation_aborted.    *)
Stop ==
    /\ acceptor \in {"open", "listening"}
    /\ acceptor' = "closed" /\ accepting' = 0
    /\ ready' = ready \o [i \in 1 .. accepting |-> H("accept", 0, "aborted")]
    /\ UNCHANGED <<accepted, overlapped, late, listens, connVars, castVars, reading, receiver, raced, io>>

(* ~TcpServer, when io_context::run has returned or thrown and nobody is   *)
(* in a call: Stop, and the manager goes with its connections.             *)
Destroy ==
    /\ receiver = 0 /\ accepted = "none" /\ todo["user"] = {} /\ acceptor # "gone"
    /\ acceptor' = "gone" /\ accepting' = 0 /\ connections' = {} /\ made' = 0
    /\ sock' = NoSockets /\ reading' = {} /\ unwritten' = {} /\ got' = Nothing /\ joined' = NoneBefore
    /\ ready' = <<>> /\ io' = "stopped" /\ late' = 0
    /\ UNCHANGED <<accepted, overlapped, listens, todo, casts, receiver, raced>>

(* The io thread takes the handler at the head of the queue.               *)
Runs(op) ==
    io = "running" /\ receiver = 0 /\ accepted = "none" /\ ready # <<>> /\ Head(ready).op = op

(* A bug: no look at the acceptor.                                         *)
RunAcceptUnchecked ==
    /\ Runs("accept")
    /\ accepted' = Head(ready).ec
    /\ ready' = Tail(ready)
    /\ UNCHANGED <<acceptor, accepting, overlapped, late, listens, connVars, castVars, reading,
                   receiver, raced, io>>

(* The accept handler: nothing if the server was stopped.  A user's Stop   *)
(* may still come before it goes on.                                       *)
RunAccept ==
    /\ Runs("accept")
    /\ accepted' = IF acceptor \in {"open", "listening"} THEN Head(ready).ec ELSE "none"
    /\ ready' = Tail(ready)
    /\ UNCHANGED <<acceptor, accepting, overlapped, late, listens, connVars, castVars, reading,
                   receiver, raced, io>>

(* A bug: a failed accept ends the loop.                                   *)
DoAcceptOnce ==
    /\ accepting' = IF accepted = "ok" THEN accepting + 1 ELSE accepting
    /\ UNCHANGED acceptor

(* DoAccept; on an acceptor that is not listening it completes with an     *)
(* error (see StartConn).                                                  *)
DoAccept ==
    /\ accepting' = IF acceptor = "listening" THEN accepting + 1 ELSE accepting
    /\ UNCHANGED acceptor

(* A bug: the first connection of the set is skipped.                      *)
BoardcastSkips(k, all) ==
    /\ casts' = [casts EXCEPT ![k] = @ + 1]
    /\ \E c \in all : todo' = [todo EXCEPT ![k] = all \ {c}]

(* TcpConnManager::Boardcast begins.                                       *)
Boardcast(k, all) ==
    /\ casts' = [casts EXCEPT ![k] = @ + 1]
    /\ todo' = [todo EXCEPT ![k] = all]

(* The rest of the accept handler.  ec is not looked at: a socket that was *)
(* never opened becomes a connection, too, and its first read fails.       *)
(* TcpConnManager::Start enters it and starts it; then the next accept.    *)
(* An insert under a Boardcast is undefined: what that still visits is     *)
(* anyone's guess.                                                         *)
StartConn ==
    /\ io = "running" /\ accepted # "none" /\ made < MaxConns
    /\ LET c == made + 1
           good == accepted = "ok"
           again == acceptor # "listening" IN
       /\ made' = c
       /\ connections' = connections \cup {c}
       /\ sock' = [sock EXCEPT ![c] = IF good THEN "open" ELSE "bad"]
       /\ joined' = [joined EXCEPT ![c] = casts]
       /\ reading' = IF good THEN reading \cup {c} ELSE reading
       /\ ready' = ready \o (IF good THEN <<>> ELSE <<H("read", c, "error")>>)
                         \o (IF again THEN <<H("accept", 0, "error")>> ELSE <<>>)
       /\ DoAccept
       /\ IF todo["user"] = {} THEN UNCHANGED <<todo, raced, got>>
          ELSE /\ raced' = TRUE /\ got' = Nothing
               /\ \E left \in SUBSET connections' : todo' = [todo EXCEPT !["user"] = left]
    /\ accepted' = "none"
    /\ late' = IF acceptor = "closed" THEN late + 1 ELSE late
    /\ UNCHANGED <<overlapped, listens, casts, unwritten, receiver, io>>

(* A user thread calls Boardcast.                                          *)
UserCast ==
    /\ todo["user"] = {} /\ casts["user"] < MaxCasts /\ connections # {}
    /\ Boardcast("user", connections)
    /\ UNCHANGED <<accVars, connVars, got, unwritten, ready, reading, receiver, raced, io>>

(* The next Send of a Boardcast: into output_buffer_, and a WriteToSocket  *)
(* is posted.                                                              *)
SendNext(k) ==
    /\ k = "io" => io = "running"
    /\ \E c \in todo[k] :
        /\ todo' = [todo EXCEPT ![k] = @ \ {c}]
        /\ got' = IF raced THEN got ELSE [got EXCEPT ![c][k] = Append(@, casts[k])]
        /\ unwritten' = unwritten \cup {c}
        /\ ready' = Append(ready, H("write", c, "ok"))
    /\ UNCHANGED <<accVars, connVars, casts, reading, receiver, raced, io>>

(* A bug: the socket is shut down and not closed.                          *)
ConnStopShuts(c) ==
    IF sock[c] = "open"
    THEN sock' = [sock EXCEPT ![c] = "shut"] /\ UNCHANGED io
    ELSE io' = "threw" /\ UNCHANGED sock

(* TcpConn::Stop on the io thread: socket_.shutdown throws on a socket     *)
(* that is not connected any more.                                         *)
ConnStop(c) ==
    IF sock[c] = "open"
    THEN sock' = [sock EXCEPT ![c] = "closed"] /\ UNCHANGED io
    ELSE io' = "threw" /\ UNCHANGED sock

(* The read handler: data goes to the receive callback, which broadcasts.  *)
RunRead ==
    /\ Runs("read") /\ Head(ready).ec = "ok"
    /\ receiver' = Head(ready).c
    /\ Boardcast("io", connections)
    /\ ready' = Tail(ready)
    /\ UNCHANGED <<accVars, connVars, got, unwritten, reading, raced, io>>

(* A bug: the connection is not read again.                                *)
EndReadOnce ==
    /\ io = "running" /\ receiver # 0 /\ todo["io"] = {}
    /\ receiver' = 0
    /\ UNCHANGED <<accVars, connVars, castVars, ready, reading, raced, io>>

(* The callback has returned: the next read.                               *)
EndRead ==
    /\ io = "running" /\ receiver # 0 /\ todo["io"] = {}
    /\ receiver' = 0
    /\ reading' = reading \cup {receiver}
    /\ UNCHANGED <<accVars, connVars, castVars, ready, raced, io>>

(* A bug: the manager forgets a connection that ends.                      *)
RunFailedErases ==
    /\ Runs("read") \/ Runs("wrote")
    /\ Head(ready).ec = "error"
    /\ ConnStop(Head(ready).c)
    /\ ready' = Tail(ready)
    /\ connections' = connections \ {Head(ready).c}
    /\ UNCHANGED <<accVars, made, joined, castVars, reading, receiver, raced>>

(* A bug: the connection is read again after its end.                      *)
RunFailedReads ==
    /\ Runs("read") \/ Runs("wrote")
    /\ Head(ready).ec = "error"
    /\ ConnStop(Head(ready).c)
    /\ ready' = Append(Tail(ready), H("read", Head(ready).c, "error"))
    /\ UNCHANGED <<accVars, connections, made, joined, castVars, reading, receiver, raced>>

(* The handler of a read or a write that failed.                           *)
RunFailed ==
    /\ Runs("read") \/ Runs("wrote")
    /\ Head(ready).ec = "error"
    /\ ConnStop(Head(ready).c)
    /\ ready' = Tail(ready)
    /\ UNCHANGED <<accVars, connections, made, joined, castVars, reading, receiver, raced>>

(* WriteToSocket.                                                          *)
RunWrite ==
    /\ Runs("write")
    /\ LET c == Head(ready).c IN
       IF c \notin unwritten \/ sock[c] = "open"
       THEN ready' = Tail(ready) /\ unwritten' = unwritten \ {c}
       ELSE ready' = Append(Tail(ready), H("wrote", c, "error")) /\ UNCHANGED unwritten
    /\ UNCHANGED <<accVars, connVars, todo, casts, got, reading, receiver, raced, io>>

-----------------------------------------------------------------------------
Handler == RunAccept \/ StartConn \/ RunRead \/ SendNext("io") \/ EndRead \/ RunFailed \/ RunWrite

Next ==
    \/ Listen \/ Stop \/ Destroy \/ UserCast \/ SendNext("user") \/ Handler
    \/ \E ec \in {"ok", "error"} : AcceptReady(ec) \/ \E c \in Conns : ReadReady(c, ec)
    \/ \E c \in Conns : PeerReset(c)

Spec == Init /\ [][Next]_vars

-----------------------------------------------------------------------------
(* Handlers, sockets and sets have their types.                            *)
TypeOK ==
    /\ acceptor \in {"none", "open", "listening", "closed", "gone"} /\ accepting \in 0 .. MaxListens
    /\ accepted \in {"none", "ok", "error", "aborted"}
    /\ ready \in Seq([op : {"accept", "read", "write", "wrote"}, c : 0 .. MaxConns,
                      ec : {"ok", "error", "aborted"}])
    /\ made \in 0 .. MaxConns /\ connections \subseteq 1 .. made
    /\ sock \in [Conns -> {"open", "reset", "bad", "closed"}]
    /\ reading \subseteq Conns /\ unwritten \subseteq Conns /\ receiver \in 0 .. MaxConns
    /\ todo \in [Casters -> SUBSET Conns]
    /\ io \in {"running", "threw", "stopped"}
    /\ listens \in 0 .. MaxListens /\ casts \in [Casters -> 0 .. MaxCasts]
    /\ got \in [Conns -> [Casters -> Seq(1 .. MaxCasts)]]
    /\ joined \in [Conns -> [Casters -> 0 .. MaxCasts]]
    /\ raced \in BOOLEAN /\ overlapped \in BOOLEAN /\ late \in Nat

AcceptsUnderWay == accepting + AcceptsReady + (IF accepted = "none" THEN 0 ELSE 1)

(* A server that listens has exactly one accept under way, through failed  *)
(* accepts, Stop and Listen again, as long as the handler of the last one  *)
(* had run before Listen was called again (DoAccept and its handler).      *)
OneAcceptUnderWay ==
    (acceptor = "listening" /\ io = "running" /\ ~overlapped) => AcceptsUnderWay = 1

(* After Stop at most one connection more is started, that of a handler    *)
(* already past its check (server.cc: "Check whether the server was        *)
(* stopped ... before this completion handler had a chance to run").       *)
AtMostOneStartsLate == late <= 1

(* The accept loop neither stops, nor doubles, nor outlives Stop by more   *)
(* than the handler that was running (DoAccept, Stop, Listen).             *)
AcceptLoopIsSingle == OneAcceptUnderWay /\ AtMostOneStartsLate

ReadsOf(c) == {i \in DOMAIN ready : ready[i].op = "read" /\ ready[i].c = c}

(* The objects TcpConn that exist: the manager owns them, and the read     *)
(* operation and its handler do.                                           *)
Exists(c) == c \in connections \/ c \in reading \/ c = receiver \/ ReadsOf(c) # {}

(* The handlers of writes hold a bare `this`.  Their connection exists     *)
(* when they run: it is in connections_, from which nothing is removed     *)
(* (TcpConn::Send, WriteToSocket, TcpConnManager).                         *)
WritersFindTheirConn ==
    \A i \in DOMAIN ready : ready[i].op \in {"write", "wrote"} => Exists(ready[i].c)

(* An open connection is entered in connections_ and has exactly one read  *)
(* under way (Start, ReadFromSocket).                                      *)
OpenConnIsRead ==
    io = "running" => \A c \in Conns :
        (sock[c] \in {"open", "reset"} /\ receiver # c) =>
            /\ c \in connections
            /\ Cardinality(ReadsOf(c)) = IF c \in reading THEN 0 ELSE 1

(* As long as no connection is accepted during a user's Boardcast, each    *)
(* connection is given every broadcast made since it was started, once,    *)
(* and those of one thread in order; one being made it has been given      *)
(* unless it is still to be visited (Boardcast, Send).                     *)
BroadcastReachesEach ==
    ~raced => \A c \in connections, k \in Casters :
        got[c][k] = [i \in 1 .. casts[k] - joined[c][k] - (IF c \in todo[k] THEN 1 ELSE 0) |->
                        joined[c][k] + i]

(* What can end the io thread: a peer that reset its connection, an accept *)
(* that failed, or bytes for a connection that has ended.  A peer that     *)
(* leaves in good order does not by itself (TcpConn::Stop).                *)
OnlyTheseAreFatal ==
    io = "threw" =>
        \E c \in 1 .. made : sock[c] \in {"reset", "bad"} \/ (sock[c] = "closed" /\ c \in unwritten)

(* Connections keep what they need to be served: their object, their read, *)
(* and the io thread, but for the departures named.                        *)
ConnsAreServed == WritersFindTheirConn /\ OpenConnIsRead /\ OnlyTheseAreFatal
=============================================================================
