------------------------------ MODULE TcpConn ------------------------------
(***************************************************************************)
(* net::TcpConn (net/tcp/connection.cc): one connection on asio.  User     *)
(* threads call Send and Stop; the handlers run one at a time on the       *)
(* thread that runs the io_context, in the order they became ready.        *)
(*                                                                         *)
(* A byte is known by its place in what Send was given: output_buffer_     *)
(* holds the bytes head + 1 .. sent (Buffer shows that it is a queue).     *)
(* A Send by another thread in the middle of a handler's Retrive is not    *)
(* followed: no property speaks of the bytes once serial is FALSE.         *)
(*                                                                         *)
(* asio's part (when a socket is ready, how much it takes, which handler   *)
(* becomes ready) is external; see asio::basic_stream_socket.              *)
(***************************************************************************)
EXTENDS Integers, Sequences

CONSTANTS
    MaxBytes,       \* bound: bytes given to Send
    MaxReady        \* bound: handlers ready at a time

ASSUME TcpConnAssumption == MaxBytes \in Nat /\ MaxReady \in Nat

Junk == 0       \* a byte nobody sent

VARIABLES
    sent, head,     \* output_buffer_ holds the bytes head + 1 .. sent
    serial,         \* history: every Send came after the bytes before it were written
    wire,           \* the bytes the socket took
    writes,         \* async_write_some operations waiting for the socket
    reading,        \* an async_read_some operation waits for the socket
    ready,          \* handlers ready to run
    socket,         \* "open", "shut" (down), "reset" (by the peer), "closed"
    eof,            \* the peer has shut down its end
    state,          \* state_
    reports,        \* calls of conn_callback_ with kDisconnected
    io,             \* the io thread runs, or an exception left a handler
    user            \* where a user thread is in Stop

bufVars == <<sent, head, serial>>
sockVars == <<wire, writes, reading>>
vars == <<bufVars, sockVars, ready, socket, eof, state, reports, io, user>>

(* Handlers: a posted WriteToSocket, the completion of a write of n bytes, *)
(* the completion of a read.                                               *)
Posted == [op |-> "post", ec |-> "ok", n |-> 0]
Written(ec, n) == [op |-> "written", ec |-> ec, n |-> n]
HasRead(ec) == [op |-> "read", ec |-> ec, n |-> 0]

(* TcpConn::Start: connected, the callback, the first read.                *)
Init ==
    /\ sent = 0 /\ head = 0 /\ serial = TRUE /\ wire = <<>> /\ writes = <<>> /\ reading = TRUE
    /\ ready = <<>> /\ socket = "open" /\ eof = FALSE
    /\ state = "kConnected" /\ reports = 0 /\ io = "running" /\ user = "idle"

-----------------------------------------------------------------------------
(* What the socket can do with an operation (external).                    *)

(* The bytes a write operation finds behind its pointer: those it was      *)
(* given, or anything if output_buffer_ has moved them since.              *)
Taken(w, k) ==
    IF w.valid THEN [i \in 1 .. k |-> w.from + i] ELSE [i \in 1 .. k |-> Junk]

(* async_write_some of the bytes from + 1 .. from + n, to be followed in   *)
(* the ready queue by what `q` holds: done at once, or kept for later, or  *)
(* failed.                                                                 *)
AsyncWrite(from, n, q) ==
    LET w == [from |-> from, n |-> n, valid |-> TRUE] IN
    \/ /\ socket = "open" /\ writes = <<>>
       /\ \E k \in 1 .. n :
            /\ wire' = wire \o Taken(w, k)
            /\ ready' = Append(q, Written("ok", k))
       /\ UNCHANGED writes
    \/ /\ socket = "open"
       /\ writes' = Append(writes, w)
       /\ ready' = q
       /\ UNCHANGED wire
    \/ /\ socket # "open"
       /\ ready' = Append(q, Written("error", 0))
       /\ UNCHANGED <<wire, writes>>

(* The socket takes some bytes of the first waiting write.                 *)
WriteReady ==
    /\ writes # <<>> /\ socket = "open" /\ Len(ready) < MaxReady
    /\ \E k \in 1 .. Head(writes).n :
        /\ wire' = wire \o Taken(Head(writes), k)
        /\ ready' = Append(ready, Written("ok", k))
    /\ writes' = Tail(writes)
    /\ UNCHANGED <<bufVars, reading, socket, eof, state, reports, io, user>>

(* A waiting write fails.                                                  *)
WriteFails ==
    /\ writes # <<>> /\ socket \in {"shut", "reset"} /\ Len(ready) < MaxReady
    /\ ready' = Append(ready, Written("error", 0))
    /\ writes' = Tail(writes)
    /\ UNCHANGED <<bufVars, wire, reading, socket, eof, state, reports, io, user>>

(* The waiting read completes: with data, or with an error (end of file    *)
(* included).                                                              *)
ReadReady(ec) ==
    /\ reading /\ Len(ready) < MaxReady
    /\ IF ec = "ok" THEN socket = "open" /\ ~eof
       ELSE eof \/ socket \in {"shut", "reset"}
    /\ reading' = FALSE
    /\ ready' = Append(ready, HasRead(ec))
    /\ UNCHANGED <<bufVars, wire, writes, socket, eof, state, reports, io, user>>

PeerShutdown ==
    /\ socket = "open" /\ ~eof
    /\ eof' = TRUE
    /\ UNCHANGED <<bufVars, sockVars, ready, socket, state, reports, io, user>>

PeerReset ==
    /\ socket = "open"
    /\ socket' = "reset"
    /\ UNCHANGED <<bufVars, sockVars, ready, eof, state, reports, io, user>>

(* socket_.close(): waiting operations complete with operation_aborted,    *)
(* behind what is ready (q) and before what its caller adds (after).       *)
Close(q, after) ==
    /\ socket' = "closed"
    /\ writes' = <<>> /\ reading' = FALSE
    /\ ready' = q \o [i \in 1 .. Len(writes) |-> Written("aborted", 0)]
                  \o (IF reading THEN <<HasRead("aborted")>> ELSE <<>>) \o after

-----------------------------------------------------------------------------
(* Operations of TcpConn.                                                  *)

(* No write is posted, waiting or completed but not yet handled.           *)
NoWriteUnderWay ==
    /\ writes = <<>>
    /\ \A i \in DOMAIN ready : ready[i].op = "read"

WriteIdle == head = sent /\ NoWriteUnderWay

(* Send of k bytes, under mutex_: append to output_buffer_ (which may move *)
(* the bytes it holds) and post WriteToSocket.                             *)
Send(k) ==
    /\ sent + k <= MaxBytes /\ Len(ready) < MaxReady
    /\ sent' = sent + k
    /\ serial' = (serial /\ WriteIdle)
    /\ \E moved \in BOOLEAN :
        writes' = [i \in DOMAIN writes |->
                    [writes[i] EXCEPT !.valid = @ /\ ~moved]]
    /\ ready' = Append(ready, Posted)
    /\ UNCHANGED <<head, wire, reading, socket, eof, state, reports, io, user>>

(* A bug: shutdown's error is ignored, and Stop goes on.                   *)
StopQuietly(q, after) ==
    /\ Close(q, after)
    /\ state' = "kDisconnected" /\ reports' = reports + 1
    /\ UNCHANGED io

(* Stop on the io thread.  socket_.shutdown throws on a socket that is     *)
(* closed or reset; nobody catches it and io_context::run ends.            *)
Stop(q, after) ==
    \/ /\ socket \in {"open", "shut"}
       /\ Close(q, after)
       /\ state' = "kDisconnected" /\ reports' = reports + 1
       /\ UNCHANGED io
    \/ /\ socket \in {"closed", "reset"}
       /\ io' = "threw" /\ ready' = q
       /\ UNCHANGED <<socket, writes, reading, state, reports>>

(* A bug: no test for an empty buffer.                                     *)
WriteToSocketUntested(head_, q) == AsyncWrite(head_, sent - head_, q)

(* WriteToSocket, q being what is left in the ready queue.                 *)
WriteToSocket(head_, q) ==
    IF sent # head_ THEN AsyncWrite(head_, sent - head_, q)
    ELSE ready' = q /\ UNCHANGED <<wire, writes>>

(* The handler at the head of the ready queue is about to run.             *)
Runs(op) == io = "running" /\ ready # <<>> /\ Head(ready).op = op

RunPosted ==
    /\ Runs("post")
    /\ WriteToSocket(head, Tail(ready))
    /\ UNCHANGED <<bufVars, reading, socket, eof, state, reports, io, user>>

(* A bug: the bytes are taken out one short.                               *)
RetriveShort(n) == IF n < sent - head THEN head + n - 1 ELSE sent

(* output_buffer_.Retrive(n): taking more than there is takes everything.  *)
Retrive(n) == IF n < sent - head THEN head + n ELSE sent

(* A bug: a partial write is not continued.                                *)
RunWrittenOnce ==
    /\ Runs("written") /\ Head(ready).ec = "ok"
    /\ head' = Retrive(Head(ready).n)
    /\ ready' = Tail(ready)
    /\ UNCHANGED <<sent, serial, sockVars, socket, eof, state, reports, io, user>>

(* The completion handler of a write that succeeded.                       *)
RunWritten ==
    /\ Runs("written") /\ Head(ready).ec = "ok"
    /\ head' = Retrive(Head(ready).n)
    /\ WriteToSocket(Retrive(Head(ready).n), Tail(ready))
    /\ UNCHANGED <<sent, serial, reading, socket, eof, state, reports, io, user>>

(* A handler that got an error: Stop, unless the operation was aborted.    *)
RunFailed ==
    /\ Runs("written") \/ Runs("read")
    /\ \/ Head(ready).ec = "error" /\ Stop(Tail(ready), <<>>)
       \/ /\ Head(ready).ec = "aborted"
          /\ ready' = Tail(ready)
          /\ UNCHANGED <<socket, writes, reading, state, reports, io>>
    /\ UNCHANGED <<bufVars, wire, eof, user>>

(* The handler of a read that got data: the receive callback, then the     *)
(* next read.                                                              *)
RunRead ==
    /\ Runs("read") /\ Head(ready).ec = "ok"
    /\ IF socket = "closed"
       THEN ready' = Append(Tail(ready), HasRead("error")) /\ UNCHANGED reading
       ELSE ready' = Tail(ready) /\ reading' = TRUE
    /\ UNCHANGED <<bufVars, wire, writes, socket, eof, state, reports, io, user>>

(* The same, with a receive callback that calls Stop, as the one of        *)
(* BusClient does on a bad message: the next read finds a closed socket.   *)
RunReadAndStop ==
    /\ Runs("read") /\ Head(ready).ec = "ok"
    /\ Stop(Tail(ready), <<HasRead("error")>>)
    /\ UNCHANGED <<bufVars, wire, eof, user>>

(* Stop on a user thread: the io thread runs between its three parts.      *)
UserShutdown ==
    /\ user = "idle"
    /\ \/ /\ socket \in {"open", "shut"}
          /\ socket' = "shut" /\ user' = "shutdown"
       \/ /\ socket \in {"closed", "reset"}
          /\ user' = "threw" /\ UNCHANGED socket
    /\ UNCHANGED <<bufVars, sockVars, ready, eof, state, reports, io>>

UserReport ==
    /\ user = "shutdown"
    /\ state' = "kDisconnected" /\ reports' = reports + 1
    /\ user' = "reported"
    /\ UNCHANGED <<bufVars, sockVars, ready, socket, eof, io>>

UserClose ==
    /\ user = "reported"
    /\ IF socket = "closed" THEN UNCHANGED <<socket, writes, reading, ready>> ELSE Close(ready, <<>>)
    /\ user' = "stopped"
    /\ UNCHANGED <<bufVars, wire, eof, state, reports, io>>

-----------------------------------------------------------------------------
Handler == RunPosted \/ RunWritten \/ RunFailed \/ RunRead
Socket == WriteReady \/ WriteFails \/ ReadReady("error")

Next ==
    \/ \E k \in 1 .. MaxBytes : Send(k)
    \/ Handler \/ RunReadAndStop
    \/ Socket \/ ReadReady("ok")
    \/ PeerShutdown \/ PeerReset
    \/ UserShutdown \/ UserReport \/ UserClose

Spec == Init /\ [][Next]_vars

(* The io thread runs what is ready and the peer keeps reading.            *)
FairSpec == Spec /\ WF_vars(Handler) /\ WF_vars(Socket)

-----------------------------------------------------------------------------
(* Buffer ends, handlers and operations have their types.                  *)
TypeOK ==
    /\ sent \in 0 .. MaxBytes /\ head \in 0 .. sent
    /\ wire \in Seq(0 .. MaxBytes)
    /\ writes \in Seq([from : 0 .. MaxBytes, n : 1 .. MaxBytes, valid : BOOLEAN])
    /\ ready \in Seq([op : {"post", "written", "read"}, ec : {"ok", "error", "aborted"},
                      n : 0 .. MaxBytes])
    /\ serial \in BOOLEAN /\ reading \in BOOLEAN /\ eof \in BOOLEAN
    /\ socket \in {"open", "shut", "reset", "closed"}
    /\ state \in {"kConnected", "kDisconnected"} /\ reports \in 0 .. 2
    /\ io \in {"running", "threw"}
    /\ user \in {"idle", "shutdown", "reported", "stopped", "threw"}

(* What the peer gets is what was sent: the same bytes, in order, none     *)
(* twice and none left out.                                                *)
WireIsPrefixOfSent == wire = [i \in 1 .. Len(wire) |-> i] /\ Len(wire) <= sent

(* That is so across partial writes, errors and stops as long as a Send is *)
(* made only after the bytes before it were written (Send, WriteToSocket). *)
SerialSendsArrive == serial => WireIsPrefixOfSent

(* Under the same condition no byte is dropped from output_buffer_ before  *)
(* the socket took it, and while nothing is under way none is left behind  *)
(* in it (Retrive in the completion handler).                              *)
BufferedUntilWritten ==
    serial =>
        /\ head <= Len(wire)
        /\ (NoWriteUnderWay /\ socket = "open") => (head = sent /\ Len(wire) = sent)

(* Every byte is in output_buffer_ or on the wire, in its place, until the *)
(* connection ends, when Sends are serial (Send, WriteToSocket).           *)
NoByteIsLost == SerialSendsArrive /\ BufferedUntilWritten

(* The connection callback hears of a disconnect at most once, and then    *)
(* the socket is closed, as long as only the io thread gets to stop it     *)
(* (Stop).                                                                 *)
DisconnectReportedOnce ==
    user \in {"idle", "threw"} =>
        /\ reports <= 1
        /\ reports = 1 <=> (state = "kDisconnected" /\ socket = "closed")

(* Bytes given to Send reach the socket as long as it is open (the write   *)
(* loop of WriteToSocket), when Sends are serial.                          *)
SentBytesAreWritten ==
    \A k \in 1 .. MaxBytes :
        (sent >= k) ~> (Len(wire) >= k \/ socket # "open" \/ io = "threw" \/ ~serial)
=============================================================================
