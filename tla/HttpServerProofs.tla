-------------------------- MODULE HttpServerProofs --------------------------
(***************************************************************************)
(* Proofs about HttpServer for every set of connections, every request on  *)
(* each of them and every length of a reply: type correctness, that the    *)
(* manager holds the connections that are served, and that messages arrive *)
(* whole.                                                                  *)
(***************************************************************************)
EXTENDS HttpServer, TLAPS

(***************************************************************************)
(* The invariant, in the parts the properties need.  p and n stand for     *)
(* peer[c] and conn[c].                                                    *)
(***************************************************************************)

(* A connection nothing has been done with.                                *)
Fresh(n) == n.read = "none" /\ n.write = "none" /\ n.got = 0 /\ n.reply = NoReply /\ n.out = 0

Typed(c, p, n) ==
    /\ p \in PeerType(c) /\ n \in ConnType(c)
    /\ n.got <= p.sent /\ n.out <= Total(n.reply)

(* A connection reads until it has a reply and writes afterwards: never    *)
(* both.  An aborted operation means a closed socket.                      *)
OneOperation(n) ==
    /\ n.sock = "none" => Fresh(n)
    /\ n.read # "none" => n.write = "none" /\ n.reply = NoReply /\ n.out = 0
    /\ n.read = "aborted" \/ n.write = "aborted" => n.sock = "closed"
    /\ n.write = "ok" => n.out = Total(n.reply)

(* What the handler was given is what had arrived behind the header.       *)
Received(c, n) ==
    /\ n.whole => n.got = Size(c)
    /\ (n.reply # NoReply /\ Request[c].good) => n.content = n.got - Request[c].head

(* Before Shutdown: a socket is closed by the handler of its one           *)
(* operation; a Client sees the end of the connection after the whole      *)
(* reply, or before any of it, or when it has its result already.          *)
ClosedInOrder(c, p, n) ==
    /\ n.sock = "closed" => n.read = "none" /\ n.write = "none"
    /\ Request[c].own =>
        /\ p.quit => p.result # "none"
        /\ n.write = "error" => p.end = "reset" \/ p.result # "none"
        /\ p.end = "fin" => n.out = Total(n.reply) \/ n.out = 0 \/ p.result # "none"
    /\ p.result = "Ok" => n.out = Total(n.reply)

(* sd: where Shutdown is.                                                  *)
ConnOK(c, p, n, sd) ==
    /\ Typed(c, p, n) /\ OneOperation(n) /\ Received(c, n)
    /\ sd = "no" => ClosedInOrder(c, p, n)

EachConn == \A c \in Conns : ConnOK(c, peer[c], conn[c], shutdown)

(* peer and conn are tables of the connections.                            *)
Tables == peer = [c \in Conns |-> peer[c]] /\ conn = [c \in Conns |-> conn[c]]

(* On its way into the manager a connection is open and untouched.         *)
OnItsWay ==
    /\ \A c \in backlog : conn[c].sock = "none"
    /\ \A c \in Conns : c \in {accept, busy} => conn[c].sock = "open" /\ Fresh(conn[c]) /\ c \notin managed
    /\ \A c \in managed : conn[c].sock # "none"
    /\ busy # "none" => accept = "none"

Globals ==
    /\ acceptor \in {"open", "closed"} /\ backlog \subseteq Conns /\ managed \subseteq Conns
    /\ accept \in Conns \cup {"none", "pending", "error"} /\ busy \in Conns \cup {"none", "error"}
    /\ shutdown \in {"no", "stopping", "cleared", "returned"} /\ io \in {"running", "stopped"}
    /\ raced \in BOOLEAN /\ late \in BOOLEAN /\ failures \in 0 .. MaxFailures

(* After the acceptor is closed the handler that was past its test is the  *)
(* last to bring a connection.                                             *)
Closing ==
    /\ acceptor = "closed" <=> shutdown # "no"
    /\ (shutdown # "no" /\ ~late) => busy = "none"
    /\ (shutdown \in {"cleared", "returned"} /\ ~late) => managed = {}

HttpInv == Globals /\ Tables /\ EachConn /\ OnItsWay /\ Closing /\ ManagedIffOpen

(***************************************************************************)
(* What the operations do to one connection.                               *)
(***************************************************************************)

(* The numbers of a request, and of a reply.                               *)
LEMMA RequestTypes ==
    ASSUME NEW c \in Conns
    PROVE  /\ Request[c].head \in Nat \ {0} /\ Request[c].body \in Nat /\ Size(c) = Request[c].head + Request[c].body
           /\ Size(c) \in Nat \ {0} /\ Request[c].own \in BOOLEAN /\ Request[c].good \in BOOLEAN
BY HttpServerAssumption DEF Size

LEMMA ReplyTypes ==
    /\ NoReply.len = 0 /\ NoReply.status = "none" /\ BadRequest \in Reply /\ NoReply \notin Reply
    /\ \A r \in Reply \cup {NoReply} : Total(r) \in 2 .. MaxContent + 2
BY HttpServerAssumption DEF NoReply, Reply, BadRequest, Total

(* The fields of a connection.                                             *)
LEMMA Fields ==
    ASSUME NEW c \in Conns, NEW p, NEW n, Typed(c, p, n)
    PROVE  /\ n.sock \in {"none", "open", "closed"} /\ n.read \in OpStates /\ n.write \in OpStates
           /\ n.got \in Nat /\ n.got <= Size(c) /\ n.whole \in BOOLEAN
           /\ n.content \in 0 .. Request[c].body /\ n.reply \in Reply \cup {NoReply}
           /\ n.out \in 0 .. MaxContent + 2 /\ n.out \in Nat /\ n.out <= Total(n.reply) /\ n.got <= p.sent
           /\ p.sent \in Nat /\ p.sent <= Size(c) /\ p.quit \in BOOLEAN /\ p.end \in {"open", "fin", "reset"}
           /\ p.result \in {"none", "Ok", "InvalidArgument", "Cancelled", "threw"}
BY RequestTypes, HttpServerAssumption DEF Typed, PeerType, ConnType

(* A read brings k units that the peer has sent.                           *)
LEMMA ReadSomeKeeps ==
    ASSUME NEW c \in Conns, NEW p, NEW n, NEW sd, ConnOK(c, p, n, sd), n.read = "wait", NEW k \in 1 .. p.sent - n.got
    PROVE  ConnOK(c, p, [n EXCEPT !.got = @ + k, !.whole = (k = Size(c)), !.read = "ok"], sd)
<1> DEFINE m == [n EXCEPT !.got = @ + k, !.whole = (k = Size(c)), !.read = "ok"]
<1>0. Typed(c, p, n) /\ n \in ConnType(c)
  BY DEF ConnOK, Typed
<1>1. n.got \in Nat /\ p.sent \in Nat /\ p.sent <= Size(c) /\ Size(c) \in Nat /\ n.got <= p.sent
  BY <1>0, Fields, RequestTypes
<1>2. n.got + k \in 0 .. Size(c) /\ n.got + k <= p.sent /\ (k = Size(c) => n.got + k = Size(c))
  BY <1>1
<1>3. /\ m \in ConnType(c) /\ m.got = n.got + k /\ m.whole = (k = Size(c)) /\ m.read = "ok" /\ m.write = n.write
      /\ m.sock = n.sock /\ m.reply = n.reply /\ m.out = n.out /\ m.content = n.content
  BY <1>0, <1>2 DEF ConnType, OpStates
<1> HIDE DEF m
<1>4. Typed(c, p, m)
  BY <1>0, <1>2, <1>3 DEF Typed
<1>5. OneOperation(m)
  BY <1>3 DEF ConnOK, OneOperation, Fresh
<1>6. Received(c, m)
  BY <1>2, <1>3 DEF ConnOK, Received, OneOperation
<1>7. sd = "no" => ClosedInOrder(c, p, m)
  BY <1>3 DEF ConnOK, ClosedInOrder
<1> QED BY <1>4, <1>5, <1>6, <1>7 DEF ConnOK, m

(* A write takes k more units of the reply, and is done with the last.     *)
LEMMA WriteSomeKeeps ==
    ASSUME NEW c \in Conns, NEW p, NEW n, NEW sd, ConnOK(c, p, n, sd), n.write = "wait", p.end = "open",
           NEW k \in 1 .. Total(n.reply) - n.out
    PROVE  ConnOK(c, p, [n EXCEPT !.out = @ + k, !.write = IF n.out + k = Total(n.reply) THEN "ok" ELSE @], sd)
<1> DEFINE m == [n EXCEPT !.out = @ + k, !.write = IF n.out + k = Total(n.reply) THEN "ok" ELSE @]
<1>0. Typed(c, p, n) /\ n \in ConnType(c)
  BY DEF ConnOK, Typed
<1>1. n.out \in Nat /\ n.reply \in Reply \cup {NoReply} /\ Total(n.reply) \in 2 .. MaxContent + 2
  BY <1>0, Fields, ReplyTypes
<1>2. n.out + k \in 0 .. MaxContent + 2 /\ n.out + k <= Total(n.reply) /\ n.out # Total(n.reply)
  BY <1>1, HttpServerAssumption
<1>3. /\ m \in ConnType(c) /\ m.out = n.out + k /\ m.write \in {"ok", "wait"}
      /\ m.write = "ok" => m.out = Total(n.reply)
      /\ m.read = n.read /\ m.got = n.got /\ m.whole = n.whole
      /\ m.sock = n.sock /\ m.reply = n.reply /\ m.content = n.content
  BY <1>0, <1>2 DEF ConnType, OpStates
<1> HIDE DEF m
<1>4. Typed(c, p, m)
  BY <1>0, <1>2, <1>3 DEF Typed
<1>5. OneOperation(m)
  BY <1>3 DEF ConnOK, OneOperation, Fresh
<1>6. Received(c, m)
  BY <1>3 DEF ConnOK, Received
<1>7. sd = "no" => ClosedInOrder(c, p, m)
  BY <1>2, <1>3 DEF ConnOK, ClosedInOrder
<1> QED BY <1>4, <1>5, <1>6, <1>7 DEF ConnOK, m

(* A read fails; so does a write, on a connection that is broken or whose  *)
(* Client has its result.                                                  *)
LEMMA OpFailsKeeps ==
    ASSUME NEW c \in Conns, NEW p, NEW n, NEW sd, ConnOK(c, p, n, sd)
    PROVE  /\ n.read = "wait" => ConnOK(c, p, [n EXCEPT !.read = "error"], sd)
           /\ (n.write = "wait" /\ (p.end = "reset" \/ p.quit)) => ConnOK(c, p, [n EXCEPT !.write = "error"], sd)
<1>0. Typed(c, p, n) /\ n \in ConnType(c)
  BY DEF ConnOK, Typed
<1>1. ASSUME n.read = "wait" PROVE ConnOK(c, p, [n EXCEPT !.read = "error"], sd)
  <2> DEFINE m == [n EXCEPT !.read = "error"]
  <2>1. /\ m \in ConnType(c) /\ m.read = "error" /\ m.write = n.write /\ m.out = n.out /\ m.got = n.got
        /\ m.whole = n.whole /\ m.sock = n.sock /\ m.reply = n.reply /\ m.content = n.content
    BY <1>0 DEF ConnType, OpStates
  <2> HIDE DEF m
  <2>2. ConnOK(c, p, m, sd)
    BY <1>1, <2>1 DEF ConnOK, Typed, OneOperation, Fresh, Received, ClosedInOrder
  <2> QED BY <2>2 DEF m
<1>2. ASSUME n.write = "wait", p.end = "reset" \/ p.quit PROVE ConnOK(c, p, [n EXCEPT !.write = "error"], sd)
  <2> DEFINE m == [n EXCEPT !.write = "error"]
  <2>1. /\ m \in ConnType(c) /\ m.write = "error" /\ m.read = n.read /\ m.out = n.out /\ m.got = n.got
        /\ m.whole = n.whole /\ m.sock = n.sock /\ m.reply = n.reply /\ m.content = n.content
    BY <1>0 DEF ConnType, OpStates
  <2> HIDE DEF m
  <2>2. ConnOK(c, p, m, sd)
    BY <1>2, <2>1 DEF ConnOK, Typed, OneOperation, Fresh, Received, ClosedInOrder
  <2> QED BY <2>2 DEF m
<1> QED BY <1>1, <1>2

(* The read handler, with a reply r or with the need for more.             *)
LEMMA RunReadKeeps ==
    ASSUME NEW c \in Conns, NEW p, NEW n, NEW sd, ConnOK(c, p, n, sd), n.read = "ok",
           NEW op \in {"wait", "error"}, op = "error" <=> n.sock = "closed", NEW r \in Reply
    PROVE  /\ n.got >= Request[c].head =>
                ConnOK(c, p, [n EXCEPT !.read = "none", !.write = op, !.content = n.got - Request[c].head, !.reply = r], sd)
           /\ ~Request[c].good => ConnOK(c, p, [n EXCEPT !.read = "none", !.write = op, !.reply = r], sd)
           /\ ConnOK(c, p, [n EXCEPT !.read = op], sd)
<1>0. Typed(c, p, n) /\ n \in ConnType(c)
  BY DEF ConnOK, Typed
<1>f. /\ n.got \in Nat /\ n.got <= Size(c) /\ n.out = 0 /\ n.write = "none" /\ n.reply = NoReply
      /\ sd = "no" => op = "wait"
  BY <1>0, Fields DEF ConnOK, OneOperation, ClosedInOrder
<1>r. 0 <= Total(r) /\ r # NoReply /\ Total(r) # 0
  BY ReplyTypes, HttpServerAssumption
<1>1. ASSUME n.got >= Request[c].head
      PROVE  ConnOK(c, p, [n EXCEPT !.read = "none", !.write = op, !.content = n.got - Request[c].head, !.reply = r], sd)
  <2> DEFINE m == [n EXCEPT !.read = "none", !.write = op, !.content = n.got - Request[c].head, !.reply = r]
  <2>0. n.got - Request[c].head \in 0 .. Request[c].body
    BY <1>f, <1>1, RequestTypes
  <2>1. /\ m \in ConnType(c) /\ m.read = "none" /\ m.write = op /\ m.out = 0 /\ m.got = n.got
        /\ m.whole = n.whole /\ m.sock = n.sock /\ m.reply = r /\ m.content = n.got - Request[c].head
    BY <1>0, <1>f, <2>0 DEF ConnType, OpStates
  <2> HIDE DEF m
  <2>2. Typed(c, p, m)
    BY <1>0, <1>r, <2>1 DEF Typed
  <2>3. OneOperation(m)
    BY <2>1 DEF ConnOK, OneOperation, Fresh
  <2>4. Received(c, m)
    BY <2>1 DEF ConnOK, Received
  <2>5. sd = "no" => ClosedInOrder(c, p, m)
    BY <1>f, <1>r, <2>1, ReplyTypes DEF ConnOK, ClosedInOrder
  <2> QED BY <2>2, <2>3, <2>4, <2>5 DEF ConnOK, m
<1>2. ASSUME ~Request[c].good PROVE ConnOK(c, p, [n EXCEPT !.read = "none", !.write = op, !.reply = r], sd)
  <2> DEFINE m == [n EXCEPT !.read = "none", !.write = op, !.reply = r]
  <2>1. /\ m \in ConnType(c) /\ m.read = "none" /\ m.write = op /\ m.out = 0 /\ m.got = n.got
        /\ m.whole = n.whole /\ m.sock = n.sock /\ m.reply = r /\ m.content = n.content
    BY <1>0, <1>f DEF ConnType, OpStates
  <2> HIDE DEF m
  <2>2. Typed(c, p, m)
    BY <1>0, <1>r, <2>1 DEF Typed
  <2>3. OneOperation(m)
    BY <2>1 DEF ConnOK, OneOperation, Fresh
  <2>4. Received(c, m)
    BY <1>2, <2>1 DEF ConnOK, Received
  <2>5. sd = "no" => ClosedInOrder(c, p, m)
    BY <1>f, <1>r, <2>1, ReplyTypes DEF ConnOK, ClosedInOrder
  <2> QED BY <2>2, <2>3, <2>4, <2>5 DEF ConnOK, m
<1>3. ConnOK(c, p, [n EXCEPT !.read = op], sd)
  <2> DEFINE m == [n EXCEPT !.read = op]
  <2>1. /\ m \in ConnType(c) /\ m.read = op /\ m.write = n.write /\ m.out = n.out /\ m.got = n.got
        /\ m.whole = n.whole /\ m.sock = n.sock /\ m.reply = n.reply /\ m.content = n.content
    BY <1>0 DEF ConnType, OpStates
  <2> HIDE DEF m
  <2>2. ConnOK(c, p, m, sd)
    BY <1>f, <2>1 DEF ConnOK, Typed, OneOperation, Fresh, Received, ClosedInOrder
  <2> QED BY <2>2 DEF m
<1> QED BY <1>1, <1>2, <1>3

(* The handler of an operation that ended has been taken from the queue.   *)
LEMMA EndedKeeps ==
    ASSUME NEW c \in Conns, NEW p, NEW n, NEW sd, ConnOK(c, p, n, sd)
    PROVE  /\ ConnOK(c, p, [n EXCEPT !.read = "none"], sd)
           /\ ConnOK(c, p, [n EXCEPT !.write = "none"], sd)
<1>0. Typed(c, p, n) /\ n \in ConnType(c)
  BY DEF ConnOK, Typed
<1>1. ConnOK(c, p, [n EXCEPT !.read = "none"], sd)
  <2> DEFINE m == [n EXCEPT !.read = "none"]
  <2>1. /\ m \in ConnType(c) /\ m.read = "none" /\ m.write = n.write /\ m.out = n.out /\ m.got = n.got
        /\ m.whole = n.whole /\ m.sock = n.sock /\ m.reply = n.reply /\ m.content = n.content
    BY <1>0 DEF ConnType, OpStates
  <2> HIDE DEF m
  <2>2. ConnOK(c, p, m, sd)
    BY <2>1 DEF ConnOK, Typed, OneOperation, Fresh, Received, ClosedInOrder
  <2> QED BY <2>2 DEF m
<1>2. ConnOK(c, p, [n EXCEPT !.write = "none"], sd)
  <2> DEFINE m == [n EXCEPT !.write = "none"]
  <2>1. /\ m \in ConnType(c) /\ m.write = "none" /\ m.read = n.read /\ m.out = n.out /\ m.got = n.got
        /\ m.whole = n.whole /\ m.sock = n.sock /\ m.reply = n.reply /\ m.content = n.content
    BY <1>0 DEF ConnType, OpStates
  <2> HIDE DEF m
  <2>2. ConnOK(c, p, m, sd)
    BY <2>1 DEF ConnOK, Typed, OneOperation, Fresh, Received, ClosedInOrder
  <2> QED BY <2>2 DEF m
<1> QED BY <1>1, <1>2

(* The server closes the socket.  Before Shutdown it does so in order: no  *)
(* operation is under way, and a Client that sees the end has the reply.   *)
LEMMA CloseKeeps ==
    ASSUME NEW c \in Conns, NEW p, NEW n, NEW sd, ConnOK(c, p, n, sd), NEW e \in {"open", "fin", "reset"},
           sd = "no" => /\ n.read = "none" /\ n.write = "none"
                        /\ e = "fin" => \/ n.out = Total(n.reply) \/ n.out = 0
                                        \/ (Request[c].own => p.result # "none")
    PROVE  ConnOK(c, [p EXCEPT !.end = e], Closed(n), sd)
<1> DEFINE m == Closed(n)
           q == [p EXCEPT !.end = e]
<1>0. Typed(c, p, n) /\ n \in ConnType(c) /\ p \in PeerType(c)
  BY DEF ConnOK, Typed
<1>1. /\ m \in ConnType(c) /\ m.write = Aborted(n.write) /\ m.read = Aborted(n.read) /\ m.out = n.out /\ m.got = n.got
      /\ m.whole = n.whole /\ m.sock = "closed" /\ m.reply = n.reply /\ m.content = n.content
  BY <1>0 DEF ConnType, OpStates, Closed, Aborted
<1>2. q \in PeerType(c) /\ q.end = e /\ q.sent = p.sent /\ q.quit = p.quit /\ q.result = p.result
  BY <1>0 DEF PeerType
<1> HIDE DEF m, q
<1>3. Typed(c, q, m)
  BY <1>0, <1>1, <1>2 DEF Typed
<1>4. OneOperation(m)
  BY <1>1 DEF ConnOK, OneOperation, Aborted
<1>5. Received(c, m)
  BY <1>1 DEF ConnOK, Received
<1>6. sd = "no" => ClosedInOrder(c, q, m)
  BY <1>1, <1>2 DEF ConnOK, ClosedInOrder, Aborted
<1> QED BY <1>3, <1>4, <1>5, <1>6 DEF ConnOK, m, q

(* A connection is accepted, and a connection that is accepted is read.    *)
LEMMA AcceptKeeps ==
    ASSUME NEW c \in Conns, NEW p, NEW n, NEW sd, ConnOK(c, p, n, sd), n.sock # "closed", Fresh(n)
    PROVE  /\ ConnOK(c, p, [n EXCEPT !.sock = "open"], sd)
           /\ n.sock = "open" => ConnOK(c, p, [n EXCEPT !.read = "wait"], sd)
<1>0. Typed(c, p, n) /\ n \in ConnType(c)
  BY DEF ConnOK, Typed
<1>1. ConnOK(c, p, [n EXCEPT !.sock = "open"], sd)
  <2> DEFINE m == [n EXCEPT !.sock = "open"]
  <2>1. /\ m \in ConnType(c) /\ m.read = n.read /\ m.write = n.write /\ m.out = n.out /\ m.got = n.got
        /\ m.whole = n.whole /\ m.sock = "open" /\ m.reply = n.reply /\ m.content = n.content
    BY <1>0 DEF ConnType
  <2> HIDE DEF m
  <2>2. ConnOK(c, p, m, sd)
    BY <2>1 DEF ConnOK, Typed, OneOperation, Fresh, Received, ClosedInOrder
  <2> QED BY <2>2 DEF m
<1>2. ASSUME n.sock = "open" PROVE ConnOK(c, p, [n EXCEPT !.read = "wait"], sd)
  <2> DEFINE m == [n EXCEPT !.read = "wait"]
  <2>1. /\ m \in ConnType(c) /\ m.read = "wait" /\ m.write = n.write /\ m.out = n.out /\ m.got = n.got
        /\ m.whole = n.whole /\ m.sock = n.sock /\ m.reply = n.reply /\ m.content = n.content
    BY <1>0 DEF ConnType, OpStates
  <2> HIDE DEF m
  <2>2. ConnOK(c, p, m, sd)
    BY <1>2, <2>1 DEF ConnOK, Typed, OneOperation, Fresh, Received, ClosedInOrder
  <2> QED BY <2>2 DEF m
<1> QED BY <1>1, <1>2

(* The peer sends, closes, or throws out of Do.                            *)
LEMMA PeerKeeps ==
    ASSUME NEW c \in Conns, NEW p, NEW n, NEW sd, ConnOK(c, p, n, sd)
    PROVE  /\ p.sent = 0 => \A k \in 1 .. Size(c) : ConnOK(c, [p EXCEPT !.sent = k], n, sd)
           /\ p.result = "none" => ConnOK(c, [p EXCEPT !.result = "threw"], n, sd)
           /\ ~Request[c].own => ConnOK(c, [p EXCEPT !.quit = TRUE], n, sd)
<1>0. Typed(c, p, n) /\ p \in PeerType(c)
  BY DEF ConnOK, Typed
<1>1. ASSUME p.sent = 0, NEW k \in 1 .. Size(c) PROVE ConnOK(c, [p EXCEPT !.sent = k], n, sd)
  <2> DEFINE q == [p EXCEPT !.sent = k]
  <2>1. q \in PeerType(c) /\ q.end = p.end /\ q.sent = k /\ q.quit = p.quit /\ q.result = p.result
    BY <1>0, RequestTypes DEF PeerType
  <2>2. n.got <= k
    BY <1>0, <1>1, Fields, RequestTypes
  <2> HIDE DEF q
  <2>3. ConnOK(c, q, n, sd)
    BY <2>1, <2>2 DEF ConnOK, Typed, ClosedInOrder
  <2> QED BY <2>3 DEF q
<1>2. ASSUME p.result = "none" PROVE ConnOK(c, [p EXCEPT !.result = "threw"], n, sd)
  <2> DEFINE q == [p EXCEPT !.result = "threw"]
  <2>1. q \in PeerType(c) /\ q.end = p.end /\ q.sent = p.sent /\ q.quit = p.quit /\ q.result = "threw"
    BY <1>0 DEF PeerType
  <2> HIDE DEF q
  <2>2. ConnOK(c, q, n, sd)
    BY <2>1 DEF ConnOK, Typed, ClosedInOrder
  <2> QED BY <2>2 DEF q
<1>3. ASSUME ~Request[c].own PROVE ConnOK(c, [p EXCEPT !.quit = TRUE], n, sd)
  <2> DEFINE q == [p EXCEPT !.quit = TRUE]
  <2>1. q \in PeerType(c) /\ q.end = p.end /\ q.sent = p.sent /\ q.quit = TRUE /\ q.result = p.result
    BY <1>0 DEF PeerType
  <2> HIDE DEF q
  <2>2. ConnOK(c, q, n, sd)
    BY <1>3, <2>1 DEF ConnOK, Typed, ClosedInOrder
  <2> QED BY <2>2 DEF q
<1> QED BY <1>1, <1>2, <1>3

(* ReadResponse returns: Ok only at the end of a reply that has begun,     *)
(* which before Shutdown is the end of the reply.                          *)
LEMMA ResponseKeeps ==
    ASSUME NEW c \in Conns, NEW p, NEW n, NEW sd, ConnOK(c, p, n, sd), Request[c].own, p.result = "none",
           NEW r \in {"InvalidArgument", "Ok", "Cancelled"},
           r = "Ok" => n.out >= 2 /\ p.end = "fin"
    PROVE  ConnOK(c, [p EXCEPT !.result = r, !.quit = TRUE], n, sd)
<1> DEFINE q == [p EXCEPT !.result = r, !.quit = TRUE]
<1>0. Typed(c, p, n) /\ p \in PeerType(c)
  BY DEF ConnOK, Typed
<1>1. q \in PeerType(c) /\ q.end = p.end /\ q.sent = p.sent /\ q.quit = TRUE /\ q.result = r
  BY <1>0 DEF PeerType
<1>2. r = "Ok" => n.out # 0
  BY <1>0, Fields
<1> HIDE DEF q
<1>3. sd = "no" => ClosedInOrder(c, q, n)
  BY <1>1, <1>2 DEF ConnOK, ClosedInOrder
<1> QED BY <1>1, <1>3 DEF ConnOK, Typed, q

(* The connection breaks; or, when the acceptor is closed, a connection    *)
(* that nobody accepted is reset.                                          *)
LEMMA ResetKeeps ==
    ASSUME NEW c \in Conns, NEW p, NEW n, NEW sd, ConnOK(c, p, n, sd)
    PROVE  ConnOK(c, [p EXCEPT !.end = "reset"], n, sd)
<1> DEFINE q == [p EXCEPT !.end = "reset"]
<1>0. p \in PeerType(c)
  BY DEF ConnOK, Typed
<1>1. q \in PeerType(c) /\ q.end = "reset" /\ q.sent = p.sent /\ q.quit = p.quit /\ q.result = p.result
  BY <1>0 DEF PeerType
<1> HIDE DEF q
<1>2. ConnOK(c, q, n, sd)
  BY <1>1 DEF ConnOK, Typed, ClosedInOrder
<1> QED BY <1>2 DEF q

(***************************************************************************)
(* Steps of one connection.                                                *)
(***************************************************************************)

(* A connection with an operation is in neither the backlog nor the accept *)
(* handler's hands.                                                        *)
LEMMA Occupied ==
    ASSUME HttpInv, NEW c \in Conns, conn[c].read # "none" \/ conn[c].write # "none"
    PROVE  c \notin backlog /\ c # accept /\ c # busy
BY DEF HttpInv, OnItsWay, EachConn, ConnOK, OneOperation, Fresh

(* A step that changes one connection, at either end of it.                *)
LEMMA OneConn ==
    ASSUME HttpInv, NEW c \in Conns, NEW m, NEW q, shutdown' = shutdown, ConnOK(c, q, m, shutdown),
           conn' = [conn EXCEPT ![c] = m], peer' = [peer EXCEPT ![c] = q]
    PROVE  /\ Tables' /\ EachConn' /\ conn'[c] = m /\ peer'[c] = q
           /\ \A d \in Conns \ {c} : conn'[d] = conn[d] /\ peer'[d] = peer[d]
<1>1. /\ conn' = [d \in Conns |-> IF d = c THEN m ELSE conn[d]]
      /\ peer' = [d \in Conns |-> IF d = c THEN q ELSE peer[d]]
  BY DEF HttpInv, Tables
<1>2. conn'[c] = m /\ peer'[c] = q /\ \A d \in Conns \ {c} : conn'[d] = conn[d] /\ peer'[d] = peer[d]
  BY <1>1
<1>3. conn' = [d \in Conns |-> conn'[d]] /\ peer' = [d \in Conns |-> peer'[d]]
  BY <1>1
<1>4. \A d \in Conns : ConnOK(d, peer'[d], conn'[d], shutdown')
  BY <1>2 DEF HttpInv, EachConn
<1> QED BY <1>2, <1>3, <1>4 DEF Tables, EachConn

(* An operation of c advances, ends, or is followed by the next: while the *)
(* socket is open it keeps one.                                            *)
LEMMA SocketStepKeeps ==
    ASSUME HttpInv, NEW c \in Conns, NEW m, conn' = [conn EXCEPT ![c] = m], SocketStep,
           ConnOK(c, peer[c], m, shutdown), m.sock = conn[c].sock,
           conn[c].read # "none" \/ conn[c].write # "none",
           m.read # "none" \/ m.write # "none" \/ m.sock = "closed"
    PROVE  HttpInv'
<1>1. c \notin backlog /\ c # accept /\ c # busy
  BY Occupied
<1>2. /\ peer' = peer /\ managed' = managed /\ acceptor' = acceptor /\ backlog' = backlog /\ accept' = accept
      /\ busy' = busy /\ shutdown' = shutdown /\ io' = io /\ late' = late /\ failures' = failures /\ raced' = raced
  BY DEF SocketStep, acceptVars, ctlVars
<1>3. peer' = [peer EXCEPT ![c] = peer[c]]
  BY <1>2 DEF HttpInv, Tables
<1>4. Tables' /\ EachConn' /\ conn'[c] = m /\ \A d \in Conns \ {c} : conn'[d] = conn[d]
  BY <1>2, <1>3, OneConn
<1>5. Globals' /\ Closing'
  BY <1>2 DEF HttpInv, Globals, Closing
<1>6. OnItsWay'
  BY <1>1, <1>2, <1>4 DEF HttpInv, OnItsWay, Globals
<1>7. ManagedIffOpen'
  BY <1>2, <1>4 DEF HttpInv, ManagedIffOpen
<1> QED BY <1>4, <1>5, <1>6, <1>7 DEF HttpInv

(* A step of the peer, or the connection breaks.                           *)
LEMMA PeerStepKeeps ==
    ASSUME HttpInv, NEW c \in Conns, NEW q, peer' = [peer EXCEPT ![c] = q], ConnOK(c, q, conn[c], shutdown),
           UNCHANGED <<conn, managed, acceptVars, shutdown, io, late, raced>>, failures' \in 0 .. MaxFailures
    PROVE  HttpInv'
<1>1. /\ conn' = conn /\ managed' = managed /\ acceptor' = acceptor /\ backlog' = backlog /\ accept' = accept
      /\ busy' = busy /\ shutdown' = shutdown /\ io' = io /\ late' = late /\ raced' = raced
  BY DEF acceptVars
<1>2. conn' = [conn EXCEPT ![c] = conn[c]]
  BY <1>1 DEF HttpInv, Tables
<1>3. Tables' /\ EachConn'
  BY <1>1, <1>2, OneConn
<1>4. Globals' /\ Closing' /\ OnItsWay' /\ ManagedIffOpen'
  BY <1>1 DEF HttpInv, Globals, Closing, OnItsWay, ManagedIffOpen
<1> QED BY <1>3, <1>4 DEF HttpInv

(* What a peer can see of a close.                                         *)
LEMMA EndTypes ==
    ASSUME HttpInv, NEW c \in Conns, NEW e \in EndOfClose(c)
    PROVE  e \in {"fin", "reset"} /\ (peer[c].end # "open" => e = peer[c].end)
BY Fields DEF HttpInv, EachConn, ConnOK, EndOfClose

(* The handler of the operation of c that ended gives c to                 *)
(* ConnectionManager::Stop: the read that failed before anything was       *)
(* written, the write that is done, or the write that failed.              *)
LEMMA ManagerStopKeeps ==
    ASSUME HttpInv, NEW c \in Conns, NEW cn, ManagerStop(c, cn), UNCHANGED <<acceptVars, ctlVars>>,
           \/ conn[c].read = "error" /\ cn = [conn[c] EXCEPT !.read = "none"]
           \/ conn[c].write \in {"ok", "error"} /\ cn = [conn[c] EXCEPT !.write = "none"]
    PROVE  HttpInv'
<1>1. c \notin backlog /\ c # accept /\ c # busy
  BY Occupied
<1>2. /\ acceptor' = acceptor /\ backlog' = backlog /\ accept' = accept /\ busy' = busy
      /\ shutdown' = shutdown /\ io' = io /\ late' = late /\ failures' = failures
  BY DEF acceptVars, ctlVars
<1>3. managed' = managed \ {c} /\ raced' = (raced \/ shutdown = "stopping") /\ conn' = [conn EXCEPT ![c] = Closed(cn)]
  BY DEF ManagerStop, CloseConn
<1>4. PICK e \in EndOfClose(c) : peer' = [peer EXCEPT ![c].end = e]
  BY DEF ManagerStop, CloseConn
<1> DEFINE q == [peer[c] EXCEPT !.end = e]
<1>5. peer' = [peer EXCEPT ![c] = q]
  BY <1>4
<1>6. ConnOK(c, peer[c], conn[c], shutdown) /\ conn[c] \in ConnType(c) /\ e \in {"fin", "reset"}
      /\ (peer[c].end # "open" => e = peer[c].end)
  BY <1>4, EndTypes DEF HttpInv, EachConn, ConnOK, Typed
<1>7. ConnOK(c, peer[c], cn, shutdown)
  <2>1. /\ ConnOK(c, peer[c], [conn[c] EXCEPT !.read = "none"], shutdown)
        /\ ConnOK(c, peer[c], [conn[c] EXCEPT !.write = "none"], shutdown)
    BY <1>6, EndedKeeps
  <2> QED BY <2>1, Zenon
<1>8. shutdown = "no" => /\ cn.read = "none" /\ cn.write = "none"
                         /\ e = "fin" => \/ cn.out = Total(cn.reply) \/ cn.out = 0
                                         \/ (Request[c].own => peer[c].result # "none")
  <2>1. CASE conn[c].read = "error" /\ cn = [conn[c] EXCEPT !.read = "none"]
    <3>1. cn.read = "none" /\ cn.write = conn[c].write /\ cn.out = conn[c].out
      BY <1>6, <2>1 DEF ConnType
    <3> QED BY <1>6, <2>1, <3>1 DEF ConnOK, OneOperation
  <2>2. CASE conn[c].write \in {"ok", "error"} /\ cn = [conn[c] EXCEPT !.write = "none"]
    <3>1. cn.write = "none" /\ cn.read = conn[c].read /\ cn.out = conn[c].out /\ cn.reply = conn[c].reply
      BY <1>6, <2>2 DEF ConnType
    <3>2. conn[c].read = "none"
      BY <1>6, <2>2 DEF ConnOK, OneOperation
    <3> QED BY <1>6, <2>2, <3>1, <3>2 DEF ConnOK, OneOperation, ClosedInOrder
  <2> QED BY <2>1, <2>2
<1>9. ConnOK(c, q, Closed(cn), shutdown)
  BY <1>6, <1>7, <1>8, CloseKeeps
<1> HIDE DEF q
<1>10. Tables' /\ EachConn' /\ conn'[c] = Closed(cn) /\ \A d \in Conns \ {c} : conn'[d] = conn[d]
  BY <1>2, <1>3, <1>5, <1>9, OneConn
<1>11. conn'[c].sock = "closed"
  BY <1>7, <1>10 DEF Closed, ConnOK, Typed, ConnType
<1>12. Globals' /\ Closing'
  BY <1>2, <1>3 DEF HttpInv, Globals, Closing
<1>13. OnItsWay'
  BY <1>1, <1>2, <1>3, <1>10 DEF HttpInv, OnItsWay, Globals
<1>14. ManagedIffOpen'
  BY <1>2, <1>3, <1>10, <1>11 DEF HttpInv, ManagedIffOpen
<1> QED BY <1>10, <1>12, <1>13, <1>14 DEF HttpInv

(***************************************************************************)
(* The actions.                                                            *)
(***************************************************************************)

(* The facts about a connection in a state of the invariant.               *)
LEMMA ConnFacts ==
    ASSUME HttpInv, NEW c \in Conns
    PROVE  ConnOK(c, peer[c], conn[c], shutdown) /\ conn[c] \in ConnType(c) /\ peer[c] \in PeerType(c)
BY DEF HttpInv, EachConn, ConnOK, Typed

(* Client::Do, a peer that closes, ReadResponse, and a break.              *)
LEMMA PeerSteps ==
    ASSUME HttpInv, NEW c \in Conns, Do(c) \/ PeerCloses(c) \/ ReadResponse(c) \/ Breaks(c)
    PROVE  HttpInv'
<1>0. ConnOK(c, peer[c], conn[c], shutdown) /\ failures \in 0 .. MaxFailures
  BY ConnFacts DEF HttpInv, Globals
<1>1. ASSUME Do(c) PROVE HttpInv'
  <2>0. UNCHANGED <<conn, managed, acceptVars, shutdown, io, late, raced>> /\ failures' \in 0 .. MaxFailures
    BY <1>0, <1>1 DEF Do, ctlVars
  <2>1. peer[c].sent = 0 /\ peer[c].result = "none"
    BY <1>1 DEF Do
  <2>2. ASSUME NEW k \in 1 .. Size(c), peer' = [peer EXCEPT ![c].sent = k] PROVE HttpInv'
    <3>1. ConnOK(c, [peer[c] EXCEPT !.sent = k], conn[c], shutdown)
      BY <1>0, <2>1, PeerKeeps
    <3>2. peer' = [peer EXCEPT ![c] = [peer[c] EXCEPT !.sent = k]]
      BY <2>2
    <3> QED BY <2>0, <3>1, <3>2, PeerStepKeeps
  <2>3. ASSUME peer' = [peer EXCEPT ![c].result = "threw"] PROVE HttpInv'
    <3>1. ConnOK(c, [peer[c] EXCEPT !.result = "threw"], conn[c], shutdown)
      BY <1>0, <2>1, PeerKeeps
    <3>2. peer' = [peer EXCEPT ![c] = [peer[c] EXCEPT !.result = "threw"]]
      BY <2>3
    <3> QED BY <2>0, <3>1, <3>2, PeerStepKeeps
  <2>4. Size(c) \in 1 .. Size(c)
    BY RequestTypes
  <2> QED BY <1>1, <2>2, <2>3, <2>4 DEF Do
<1>2. ASSUME PeerCloses(c) PROVE HttpInv'
  <2>0. UNCHANGED <<conn, managed, acceptVars, shutdown, io, late, raced>> /\ failures' \in 0 .. MaxFailures
    BY <1>0, <1>2 DEF PeerCloses, ctlVars
  <2>1. ConnOK(c, [peer[c] EXCEPT !.quit = TRUE], conn[c], shutdown)
    BY <1>0, <1>2, PeerKeeps DEF PeerCloses
  <2>2. peer' = [peer EXCEPT ![c] = [peer[c] EXCEPT !.quit = TRUE]]
    BY <1>2 DEF PeerCloses
  <2> QED BY <2>0, <2>1, <2>2, PeerStepKeeps
<1>3. ASSUME ReadResponse(c) PROVE HttpInv'
  <2>0. UNCHANGED <<conn, managed, acceptVars, shutdown, io, late, raced>> /\ failures' \in 0 .. MaxFailures
    BY <1>0, <1>3 DEF ReadResponse, ctlVars
  <2>1. PICK r \in {"InvalidArgument", "Ok", "Cancelled"} :
          /\ r = "Ok" => conn[c].out >= 2 /\ peer[c].end = "fin"
          /\ peer' = [peer EXCEPT ![c].result = r, ![c].quit = TRUE]
    BY <1>3 DEF ReadResponse
  <2>2. ConnOK(c, [peer[c] EXCEPT !.result = r, !.quit = TRUE], conn[c], shutdown)
    BY <1>0, <1>3, <2>1, ResponseKeeps DEF ReadResponse
  <2>3. peer' = [peer EXCEPT ![c] = [peer[c] EXCEPT !.result = r, !.quit = TRUE]]
    BY <2>1, ConnFacts DEF PeerType, HttpInv, Tables
  <2> QED BY <2>0, <2>2, <2>3, PeerStepKeeps
<1>4. ASSUME Breaks(c) PROVE HttpInv'
  <2>0. UNCHANGED <<conn, managed, acceptVars, shutdown, io, late, raced>> /\ failures' \in 0 .. MaxFailures
    BY <1>0, <1>4, HttpServerAssumption DEF Breaks
  <2>1. ConnOK(c, [peer[c] EXCEPT !.end = "reset"], conn[c], shutdown)
    BY <1>0, ResetKeeps
  <2>2. peer' = [peer EXCEPT ![c] = [peer[c] EXCEPT !.end = "reset"]]
    BY <1>4 DEF Breaks
  <2> QED BY <2>0, <2>1, <2>2, PeerStepKeeps
<1> QED BY <1>1, <1>2, <1>3, <1>4

(* Reads and writes advance or fail.                                       *)
LEMMA SocketSteps ==
    ASSUME HttpInv, NEW c \in Conns, ReadSome(c) \/ WriteSome(c) \/ OpFails(c)
    PROVE  HttpInv'
<1>0. ConnOK(c, peer[c], conn[c], shutdown) /\ conn[c] \in ConnType(c) /\ conn = [d \in Conns |-> conn[d]]
  BY ConnFacts DEF HttpInv, Tables
<1>1. ASSUME ReadSome(c) PROVE HttpInv'
  <2>1. PICK k \in 1 .. peer[c].sent - conn[c].got :
          conn' = [conn EXCEPT ![c].got = @ + k, ![c].whole = (k = Size(c)), ![c].read = "ok"]
    BY <1>1 DEF ReadSome
  <2> DEFINE m == [conn[c] EXCEPT !.got = @ + k, !.whole = (k = Size(c)), !.read = "ok"]
  <2>2. conn' = [conn EXCEPT ![c] = m]
    BY <1>0, <2>1 DEF ConnType
  <2>3. ConnOK(c, peer[c], m, shutdown)
    BY <1>0, <1>1, ReadSomeKeeps DEF ReadSome
  <2>4. m.sock = conn[c].sock /\ m.read = "ok"
    BY <1>0 DEF ConnType
  <2> HIDE DEF m
  <2> QED BY <1>1, <2>2, <2>3, <2>4, SocketStepKeeps DEF ReadSome
<1>2. ASSUME WriteSome(c) PROVE HttpInv'
  <2>1. PICK k \in 1 .. Total(conn[c].reply) - conn[c].out :
          conn' = [conn EXCEPT ![c].out = @ + k,
                               ![c].write = IF conn[c].out + k = Total(conn[c].reply) THEN "ok" ELSE @]
    BY <1>2 DEF WriteSome
  <2> DEFINE m == [conn[c] EXCEPT !.out = @ + k,
                                  !.write = IF conn[c].out + k = Total(conn[c].reply) THEN "ok" ELSE @]
  <2>2. conn' = [conn EXCEPT ![c] = m]
    BY <1>0, <2>1 DEF ConnType
  <2>3. ConnOK(c, peer[c], m, shutdown)
    BY <1>0, <1>2, WriteSomeKeeps DEF WriteSome
  <2>4. m.sock = conn[c].sock /\ m.write \in {"ok", "wait"}
    BY <1>0, <1>2 DEF ConnType, WriteSome
  <2> HIDE DEF m
  <2> QED BY <1>2, <2>2, <2>3, <2>4, SocketStepKeeps DEF WriteSome
<1>3. ASSUME OpFails(c) PROVE HttpInv'
  <2>0. SocketStep
    BY <1>3 DEF OpFails
  <2>1. ASSUME conn[c].read = "wait", conn' = [conn EXCEPT ![c].read = "error"] PROVE HttpInv'
    <3> DEFINE m == [conn[c] EXCEPT !.read = "error"]
    <3>1. conn' = [conn EXCEPT ![c] = m]
      BY <2>1
    <3>2. ConnOK(c, peer[c], m, shutdown)
      BY <1>0, <2>1, OpFailsKeeps
    <3>3. m.sock = conn[c].sock /\ m.read = "error"
      BY <1>0 DEF ConnType
    <3> HIDE DEF m
    <3> QED BY <2>0, <2>1, <3>1, <3>2, <3>3, SocketStepKeeps
  <2>2. ASSUME conn[c].write = "wait", peer[c].end = "reset" \/ peer[c].quit, conn' = [conn EXCEPT ![c].write = "error"]
        PROVE  HttpInv'
    <3> DEFINE m == [conn[c] EXCEPT !.write = "error"]
    <3>1. conn' = [conn EXCEPT ![c] = m]
      BY <2>2
    <3>2. ConnOK(c, peer[c], m, shutdown)
      BY <1>0, <2>2, OpFailsKeeps
    <3>3. m.sock = conn[c].sock /\ m.write = "error"
      BY <1>0 DEF ConnType
    <3> HIDE DEF m
    <3> QED BY <2>0, <2>2, <3>1, <3>2, <3>3, SocketStepKeeps
  <2> QED BY <1>3, <2>1, <2>2 DEF OpFails
<1> QED BY <1>1, <1>2, <1>3

(* The handlers of a connection's operations.                              *)
LEMMA HandlerSteps ==
    ASSUME HttpInv, NEW c \in Conns, Handler(c)
    PROVE  HttpInv'
<1>0. ConnOK(c, peer[c], conn[c], shutdown) /\ conn[c] \in ConnType(c) /\ conn = [d \in Conns |-> conn[d]]
  BY ConnFacts DEF HttpInv, Tables
<1>1. ASSUME RunRead(c) PROVE HttpInv'
  <2>0. conn[c].read = "ok" /\ SocketStep /\ BadRequest \in Reply
    BY <1>1, ReplyTypes DEF RunRead
  <2>1. Started(c) \in {"wait", "error"} /\ (Started(c) = "error" <=> conn[c].sock = "closed")
    BY DEF Started
  <2>2. ASSUME NEW m, conn' = [conn EXCEPT ![c] = m], ConnOK(c, peer[c], m, shutdown), m.sock = conn[c].sock,
               m.read # "none" \/ m.write # "none"
        PROVE  HttpInv'
    BY <2>0, <2>2, SocketStepKeeps
  <2>3. ASSUME conn[c].got >= Request[c].head, NEW r \in Reply,
               conn' = [conn EXCEPT ![c].read = "none", ![c].write = Started(c),
                                    ![c].content = Content(c), ![c].reply = r]
        PROVE  HttpInv'
    <3> DEFINE op == Started(c)
               k == conn[c].got - Request[c].head
               m == [conn[c] EXCEPT !.read = "none", !.write = op, !.content = k, !.reply = r]
    <3>1. conn' = [conn EXCEPT ![c] = m]
      <4> HIDE DEF op, k
      <4>1. conn' = [conn EXCEPT ![c].read = "none", ![c].write = op, ![c].content = k, ![c].reply = r]
        BY <2>3 DEF Content, op, k
      <4> QED BY <1>0, <4>1 DEF ConnType
    <3>2. ConnOK(c, peer[c], m, shutdown)
      BY <1>0, <2>0, <2>1, <2>3, RunReadKeeps
    <3>3. m.sock = conn[c].sock /\ m.write = op
      BY <1>0 DEF ConnType
    <3> HIDE DEF m
    <3> QED BY <2>1, <2>2, <3>1, <3>2, <3>3
  <2>4. ASSUME ~Request[c].good,
               conn' = [conn EXCEPT ![c].read = "none", ![c].write = Started(c), ![c].reply = BadRequest]
        PROVE  HttpInv'
    <3> DEFINE op == Started(c)
               m == [conn[c] EXCEPT !.read = "none", !.write = op, !.reply = BadRequest]
    <3>1. conn' = [conn EXCEPT ![c] = m]
      <4> HIDE DEF op
      <4>1. conn' = [conn EXCEPT ![c].read = "none", ![c].write = op, ![c].reply = BadRequest]
        BY <2>4 DEF op
      <4> QED BY <1>0, <4>1 DEF ConnType
    <3>2. ConnOK(c, peer[c], m, shutdown)
      BY <1>0, <2>0, <2>1, <2>4, RunReadKeeps
    <3>3. m.sock = conn[c].sock /\ m.write = op
      BY <1>0 DEF ConnType
    <3> HIDE DEF m
    <3> QED BY <2>1, <2>2, <3>1, <3>2, <3>3
  <2>5. ASSUME conn' = [conn EXCEPT ![c].read = Started(c)] PROVE HttpInv'
    <3> DEFINE op == Started(c)
               m == [conn[c] EXCEPT !.read = op]
    <3>1. conn' = [conn EXCEPT ![c] = m]
      BY <2>5
    <3>2. ConnOK(c, peer[c], m, shutdown)
      BY <1>0, <2>0, <2>1, RunReadKeeps
    <3>3. m.sock = conn[c].sock /\ m.read = op
      BY <1>0 DEF ConnType
    <3> HIDE DEF m
    <3> QED BY <2>1, <2>2, <3>1, <3>2, <3>3
  <2> QED BY <1>1, <2>3, <2>4, <2>5 DEF RunRead
<1>2. ASSUME RunError(c) PROVE HttpInv'
  <2>1. PICK cn \in Ended(c, "error") : ManagerStop(c, cn)
    BY <1>2 DEF RunError
  <2>2. \/ conn[c].read = "error" /\ cn = [conn[c] EXCEPT !.read = "none"]
        \/ conn[c].write \in {"ok", "error"} /\ cn = [conn[c] EXCEPT !.write = "none"]
    BY <2>1 DEF Ended
  <2> QED BY <1>2, <2>1, <2>2, ManagerStopKeeps DEF RunError
<1>3. ASSUME RunAborted(c) PROVE HttpInv'
  <2>1. PICK cn \in Ended(c, "aborted") : conn' = [conn EXCEPT ![c] = cn]
    BY <1>3 DEF RunAborted
  <2>2. /\ conn[c].read = "aborted" \/ conn[c].write = "aborted"
        /\ cn = [conn[c] EXCEPT !.read = "none"] \/ cn = [conn[c] EXCEPT !.write = "none"]
    BY <2>1 DEF Ended
  <2>3. /\ ConnOK(c, peer[c], [conn[c] EXCEPT !.read = "none"], shutdown)
        /\ ConnOK(c, peer[c], [conn[c] EXCEPT !.write = "none"], shutdown)
    BY <1>0, EndedKeeps
  <2>4. ConnOK(c, peer[c], cn, shutdown)
    BY <2>2, <2>3, Zenon
  <2>5. cn.sock = conn[c].sock /\ conn[c].sock = "closed"
    BY <1>0, <2>2 DEF ConnType, ConnOK, OneOperation
  <2> QED BY <1>3, <2>1, <2>2, <2>4, <2>5, SocketStepKeeps DEF RunAborted
<1>4. ASSUME RunWritten(c) PROVE HttpInv'
  <2>1. /\ conn[c].write = "ok" /\ ManagerStop(c, [conn[c] EXCEPT !.write = "none"])
        /\ UNCHANGED <<acceptVars, ctlVars>>
    BY <1>4 DEF RunWritten
  <2> DEFINE cn == [conn[c] EXCEPT !.write = "none"]
  <2>2. cn = [conn[c] EXCEPT !.write = "none"] /\ ManagerStop(c, cn)
    BY <2>1
  <2> HIDE DEF cn
  <2> QED BY <2>1, <2>2, ManagerStopKeeps
<1> QED BY <1>1, <1>2, <1>3, <1>4 DEF Handler

(* Connections come in: they are made, accepted, or not.                   *)
LEMMA AcceptorSteps ==
    ASSUME HttpInv, (\E c \in Conns : Connect(c) \/ AcceptReady(c)) \/ AcceptFails
    PROVE  HttpInv'
<1>0. "none" \notin Conns /\ "pending" \notin Conns /\ "error" \notin Conns
  BY HttpServerAssumption
<1>1. ASSUME NEW c \in Conns, Connect(c) PROVE HttpInv'
  <2>1. /\ conn[c].sock = "none" /\ backlog' = backlog \cup {c} /\ UNCHANGED <<peer, conn, managed, acceptor, accept, busy>>
        /\ UNCHANGED <<shutdown, io, late, failures, raced>>
    BY <1>1 DEF Connect, ctlVars
  <2> QED BY <2>1 DEF HttpInv, Globals, Tables, EachConn, OnItsWay, Closing, ManagedIffOpen
<1>2. ASSUME NEW c \in Conns, AcceptReady(c) PROVE HttpInv'
  <2>1. /\ accept = "pending" /\ c \in backlog /\ accept' = c /\ backlog' = backlog \ {c}
        /\ conn' = [conn EXCEPT ![c].sock = "open"]
        /\ UNCHANGED <<peer, managed, acceptor, busy, shutdown, io, late, failures, raced>>
    BY <1>2 DEF AcceptReady, ctlVars
  <2>2. conn[c].sock = "none" /\ ConnOK(c, peer[c], conn[c], shutdown) /\ Fresh(conn[c]) /\ busy = "none" /\ c \notin managed
        /\ conn[c] \in ConnType(c)
    BY <1>0, <2>1, ConnFacts DEF HttpInv, OnItsWay, ConnOK, OneOperation
  <2> DEFINE m == [conn[c] EXCEPT !.sock = "open"]
  <2>3. conn' = [conn EXCEPT ![c] = m] /\ peer' = [peer EXCEPT ![c] = peer[c]]
    BY <2>1 DEF HttpInv, Tables
  <2>4. ConnOK(c, peer[c], m, shutdown)
    BY <2>2, AcceptKeeps
  <2>5. m.sock = "open" /\ Fresh(m)
    BY <2>2 DEF ConnType, Fresh
  <2> HIDE DEF m
  <2>6. Tables' /\ EachConn' /\ conn'[c] = m /\ \A d \in Conns \ {c} : conn'[d] = conn[d]
    BY <2>1, <2>3, <2>4, OneConn
  <2>7. Globals' /\ Closing'
    BY <2>1 DEF HttpInv, Globals, Closing
  <2>8. OnItsWay'
    BY <1>0, <2>1, <2>2, <2>5, <2>6 DEF HttpInv, OnItsWay, Globals
  <2>9. ManagedIffOpen'
    BY <1>0, <2>1, <2>2, <2>6 DEF HttpInv, ManagedIffOpen
  <2> QED BY <2>6, <2>7, <2>8, <2>9 DEF HttpInv
<1>3. ASSUME AcceptFails PROVE HttpInv'
  <2>1. /\ accept = "pending" /\ accept' = "error" /\ failures' \in 0 .. MaxFailures
        /\ UNCHANGED <<peer, conn, managed, acceptor, backlog, busy, shutdown, io, late, raced>>
    BY <1>3, HttpServerAssumption DEF AcceptFails, HttpInv, Globals
  <2>2. Globals' /\ Tables' /\ EachConn' /\ Closing'
    BY <2>1 DEF HttpInv, Globals, Tables, EachConn, Closing
  <2>3. OnItsWay' /\ ManagedIffOpen'
    BY <1>0, <2>1 DEF HttpInv, OnItsWay, ManagedIffOpen
  <2> QED BY <2>2, <2>3 DEF HttpInv
<1> QED BY <1>1, <1>2, <1>3

(* The accept handler: its test of the acceptor, and the rest of it.       *)
LEMMA AcceptHandlerSteps ==
    ASSUME HttpInv, RunAccept \/ StartAccepted
    PROVE  HttpInv'
<1>0. "none" \notin Conns /\ "pending" \notin Conns /\ "error" \notin Conns
  BY HttpServerAssumption
<1>1. ASSUME RunAccept, acceptor = "open", busy' = accept, UNCHANGED <<conn, peer>> PROVE HttpInv'
  <2>1. /\ busy = "none" /\ accept \in Conns \cup {"error"} /\ accept' = "none"
        /\ UNCHANGED <<managed, acceptor, backlog, shutdown, io, late, failures, raced>>
    BY <1>1 DEF RunAccept, Runs, ctlVars
  <2>2. Globals' /\ Tables' /\ EachConn' /\ Closing'
    BY <1>1, <2>1 DEF HttpInv, Globals, Tables, EachConn, Closing
  <2>3. OnItsWay' /\ ManagedIffOpen'
    BY <1>0, <1>1, <2>1 DEF HttpInv, OnItsWay, ManagedIffOpen
  <2> QED BY <2>2, <2>3 DEF HttpInv
<1>2. ASSUME RunAccept, acceptor = "closed", UNCHANGED busy,
             IF accept \in Conns THEN CloseConn(accept, conn[accept]) ELSE UNCHANGED <<conn, peer>>
      PROVE  HttpInv'
  <2>1. /\ busy = "none" /\ accept \in Conns \cup {"error"} /\ accept' = "none" /\ busy' = "none"
        /\ UNCHANGED <<managed, acceptor, backlog, shutdown, io, late, failures, raced>>
    BY <1>2 DEF RunAccept, Runs, ctlVars
  <2>2. CASE accept \notin Conns
    <3>1. UNCHANGED <<conn, peer>>
      BY <1>2, <2>2
    <3>2. Globals' /\ Tables' /\ EachConn' /\ Closing'
      BY <2>1, <3>1 DEF HttpInv, Globals, Tables, EachConn, Closing
    <3>3. OnItsWay' /\ ManagedIffOpen'
      BY <1>0, <2>1, <2>2, <3>1 DEF HttpInv, OnItsWay, ManagedIffOpen
    <3> QED BY <3>2, <3>3 DEF HttpInv
  <2>3. CASE accept \in Conns
    <3> DEFINE c == accept
    <3>1. c \in Conns /\ conn' = [conn EXCEPT ![c] = Closed(conn[c])] /\ c \notin managed /\ conn[c].sock = "open"
      BY <1>2, <2>3 DEF CloseConn, HttpInv, OnItsWay
    <3>2. PICK e \in EndOfClose(c) : peer' = [peer EXCEPT ![c].end = e]
      BY <1>2, <2>3 DEF CloseConn
    <3> DEFINE q == [peer[c] EXCEPT !.end = e]
    <3>3. peer' = [peer EXCEPT ![c] = q]
      BY <3>2
    <3>4. shutdown # "no" /\ ConnOK(c, peer[c], conn[c], shutdown) /\ conn[c] \in ConnType(c) /\ e \in {"fin", "reset"}
      BY <1>2, <3>1, <3>2, ConnFacts, EndTypes DEF HttpInv, Closing
    <3>5. ConnOK(c, q, Closed(conn[c]), shutdown)
      BY <3>1, <3>4, CloseKeeps
    <3> DEFINE m == Closed(conn[c])
    <3>6. m.sock = "closed"
      BY <3>4 DEF Closed, ConnType
    <3>7. c \notin backlog /\ busy = "none" /\ c # "none"
      BY <1>0, <2>1, <3>1 DEF HttpInv, OnItsWay
    <3> HIDE DEF q, m
    <3>8. Tables' /\ EachConn' /\ conn'[c] = m /\ \A d \in Conns \ {c} : conn'[d] = conn[d]
      BY <2>1, <3>1, <3>3, <3>5, OneConn DEF m
    <3>9. Globals' /\ Closing'
      BY <2>1 DEF HttpInv, Globals, Closing
    <3>10. OnItsWay'
      BY <1>0, <2>1, <3>1, <3>7, <3>8 DEF HttpInv, OnItsWay, Globals
    <3>11. ManagedIffOpen'
      BY <1>0, <2>1, <3>1, <3>6, <3>7, <3>8 DEF HttpInv, ManagedIffOpen
    <3> QED BY <3>8, <3>9, <3>10, <3>11 DEF HttpInv
  <2> QED BY <2>2, <2>3
<1>3. ASSUME StartAccepted PROVE HttpInv'
  <2>1. /\ busy # "none" /\ busy' = "none" /\ accept = "none" /\ accept' \in {"pending", "error"}
        /\ UNCHANGED <<peer, acceptor, backlog, shutdown, io, late, failures>>
    BY <1>3 DEF StartAccepted, DoAccept, ctlVars, HttpInv, OnItsWay
  <2>2. CASE busy \notin Conns
    <3>1. UNCHANGED <<managed, raced, conn>>
      BY <1>3, <2>2 DEF StartAccepted
    <3>2. Globals' /\ Tables' /\ EachConn' /\ Closing'
      BY <2>1, <3>1 DEF HttpInv, Globals, Tables, EachConn, Closing
    <3>3. OnItsWay' /\ ManagedIffOpen'
      BY <1>0, <2>1, <2>2, <3>1 DEF HttpInv, OnItsWay, ManagedIffOpen
    <3> QED BY <3>2, <3>3 DEF HttpInv
  <2>3. CASE busy \in Conns
    <3> DEFINE c == busy
               m == [conn[c] EXCEPT !.read = "wait"]
    <3>1. c \in Conns /\ conn[c].sock = "open" /\ Fresh(conn[c]) /\ c \notin managed /\ c \notin backlog
      BY <2>3 DEF HttpInv, OnItsWay
    <3>2. /\ managed' = managed \cup {c} /\ raced' = (raced \/ shutdown = "stopping")
          /\ conn' = [conn EXCEPT ![c] = m]
      BY <1>3, <2>3, <3>1 DEF StartAccepted, Started
    <3>3. ConnOK(c, peer[c], conn[c], shutdown) /\ conn[c] \in ConnType(c) /\ peer' = [peer EXCEPT ![c] = peer[c]]
      BY <2>1, <3>1, ConnFacts DEF HttpInv, Tables
    <3>4. ConnOK(c, peer[c], m, shutdown)
      BY <3>1, <3>3, AcceptKeeps
    <3>5. m.sock = "open" /\ m.read = "wait"
      BY <3>1, <3>3 DEF ConnType
    <3> HIDE DEF m
    <3>6. Tables' /\ EachConn' /\ conn'[c] = m /\ \A d \in Conns \ {c} : conn'[d] = conn[d]
      BY <2>1, <3>1, <3>2, <3>3, <3>4, OneConn
    <3>7. Globals' /\ Closing'
      BY <2>1, <3>1, <3>2 DEF HttpInv, Globals, Closing
    <3>8. OnItsWay'
      BY <1>0, <2>1, <3>1, <3>2, <3>5, <3>6 DEF HttpInv, OnItsWay, Globals
    <3>9. ManagedIffOpen'
      BY <1>0, <2>1, <3>1, <3>2, <3>5, <3>6 DEF HttpInv, ManagedIffOpen
    <3> QED BY <3>6, <3>7, <3>8, <3>9 DEF HttpInv
  <2> QED BY <2>2, <2>3
<1> QED BY <1>1, <1>2, <1>3 DEF RunAccept

(* Shutdown: the acceptor, the connections, the io_context.                *)
LEMMA ShutdownSteps ==
    ASSUME HttpInv, ShutdownAcceptor \/ StopAll \/ StopIo
    PROVE  HttpInv'
<1>0. "none" \notin Conns /\ "pending" \notin Conns /\ "error" \notin Conns
  BY HttpServerAssumption
<1>1. ASSUME ShutdownAcceptor PROVE HttpInv'
  <2>1. /\ shutdown' = "stopping" /\ acceptor' = "closed" /\ backlog' = {}
        /\ accept' = IF accept = "pending" THEN "error" ELSE accept
        /\ late' = (busy # "none")
        /\ UNCHANGED <<conn, managed, busy, io, raced, failures>>
        /\ peer' = [c \in Conns |-> [peer[c] EXCEPT !.end = IF c \in backlog THEN "reset" ELSE @]]
    BY <1>1 DEF ShutdownAcceptor
  <2>2. ASSUME NEW c \in Conns PROVE ConnOK(c, peer'[c], conn'[c], shutdown')
    <3>1. ConnOK(c, peer[c], conn[c], shutdown') /\ peer[c] \in PeerType(c) /\ conn'[c] = conn[c]
      BY <2>1, ConnFacts DEF ConnOK
    <3>2. peer'[c] = [peer[c] EXCEPT !.end = "reset"] \/ peer'[c] = peer[c]
      BY <2>1, <3>1 DEF PeerType
    <3>3. ConnOK(c, [peer[c] EXCEPT !.end = "reset"], conn[c], shutdown')
      BY <3>1, ResetKeeps
    <3> QED BY <3>1, <3>2, <3>3, Zenon
  <2>3. EachConn' /\ Tables'
    BY <2>1, <2>2 DEF HttpInv, EachConn, Tables
  <2>4. Globals' /\ Closing'
    BY <2>1 DEF HttpInv, Globals, Closing
  <2>5. OnItsWay' /\ ManagedIffOpen'
    BY <1>0, <2>1 DEF HttpInv, OnItsWay, ManagedIffOpen
  <2> QED BY <2>3, <2>4, <2>5 DEF HttpInv
<1>2. ASSUME StopAll PROVE HttpInv'
  <2>1. /\ shutdown = "stopping" /\ shutdown' = "cleared" /\ managed' = {}
        /\ conn' = [c \in Conns |-> IF c \in managed THEN Closed(conn[c]) ELSE conn[c]]
        /\ UNCHANGED <<acceptor, backlog, accept, busy, io, raced, late, failures>>
    BY <1>2 DEF StopAll, acceptVars
  <2>2. PICK e \in [managed -> {"open", "fin", "reset"}] :
          peer' = [c \in Conns |-> [peer[c] EXCEPT !.end = IF c \in managed THEN e[c] ELSE @]]
    BY <1>2 DEF StopAll
  <2>3. ASSUME NEW c \in Conns PROVE ConnOK(c, peer'[c], conn'[c], shutdown')
    <3>1. ConnOK(c, peer[c], conn[c], shutdown') /\ peer[c] \in PeerType(c)
      BY <2>1, ConnFacts DEF ConnOK
    <3>2. CASE c \in managed
      <4>1. e[c] \in {"open", "fin", "reset"} /\ shutdown' # "no"
        BY <2>1, <2>2, <3>2
      <4>2. ConnOK(c, [peer[c] EXCEPT !.end = e[c]], Closed(conn[c]), shutdown')
        BY <3>1, <4>1, CloseKeeps
      <4> QED BY <2>1, <2>2, <3>2, <4>2
    <3>3. CASE c \notin managed
      <4>1. peer'[c] = peer[c] /\ conn'[c] = conn[c]
        BY <2>1, <2>2, <3>1, <3>3 DEF PeerType
      <4> QED BY <3>1, <4>1
    <3> QED BY <3>2, <3>3
  <2>4. EachConn' /\ Tables'
    BY <2>1, <2>2, <2>3 DEF EachConn, Tables
  <2>5. Globals' /\ Closing'
    BY <2>1 DEF HttpInv, Globals, Closing
  <2>6. \A c \in Conns : IF c \in managed THEN conn'[c].sock = "closed" ELSE conn'[c] = conn[c]
    BY <2>1, ConnFacts DEF Closed, ConnType
  <2>7. OnItsWay'
    BY <1>0, <2>1, <2>6 DEF HttpInv, OnItsWay, Globals
  <2>8. ManagedIffOpen'
    BY <2>1, <2>6 DEF HttpInv, ManagedIffOpen
  <2> QED BY <2>4, <2>5, <2>7, <2>8 DEF HttpInv
<1>3. ASSUME StopIo PROVE HttpInv'
  <2>1. /\ shutdown = "cleared" /\ shutdown' = "returned" /\ io' = "stopped"
        /\ UNCHANGED <<peer, conn, managed, acceptor, backlog, accept, busy, raced, late, failures>>
    BY <1>3 DEF StopIo, acceptVars
  <2>2. Tables' /\ Globals' /\ Closing' /\ OnItsWay' /\ ManagedIffOpen'
    BY <2>1 DEF HttpInv, Tables, Globals, Closing, OnItsWay, ManagedIffOpen
  <2>3. EachConn'
    BY <2>1 DEF HttpInv, EachConn, ConnOK
  <2> QED BY <2>2, <2>3 DEF HttpInv
<1> QED BY <1>1, <1>2, <1>3

(* Listen leaves the invariant true.                                       *)
LEMMA HttpInit == Init => HttpInv
<1> SUFFICES ASSUME Init PROVE HttpInv
  OBVIOUS
<1>0. "none" \notin Conns /\ "pending" \notin Conns /\ "error" \notin Conns
  BY HttpServerAssumption
<1>1. ASSUME NEW c \in Conns PROVE ConnOK(c, peer[c], conn[c], shutdown) /\ conn[c].sock = "none"
  <2> DEFINE p == [sent |-> 0, quit |-> FALSE, end |-> "open", result |-> "none"]
  <2>1. peer[c] = p /\ conn[c] = NewConn
    BY DEF Init
  <2>2. p \in PeerType(c) /\ NewConn \in ConnType(c)
    BY RequestTypes, HttpServerAssumption DEF PeerType, ConnType, NewConn, OpStates
  <2>3. /\ NewConn.read = "none" /\ NewConn.write = "none" /\ NewConn.got = 0 /\ NewConn.whole = FALSE
        /\ NewConn.reply = NoReply /\ NewConn.out = 0 /\ NewConn.sock = "none" /\ 0 <= Total(NewConn.reply)
    BY ReplyTypes DEF NewConn
  <2>4. Typed(c, p, NewConn)
    BY <2>2, <2>3 DEF Typed
  <2>5. OneOperation(NewConn) /\ Received(c, NewConn)
    BY <2>3 DEF OneOperation, Fresh, Received
  <2>6. ClosedInOrder(c, p, NewConn)
    BY <2>3 DEF ClosedInOrder
  <2> HIDE DEF p
  <2> QED BY <2>1, <2>3, <2>4, <2>5, <2>6 DEF ConnOK
<1>2. Globals /\ Closing
  <2>1. /\ managed = {} /\ acceptor = "open" /\ backlog = {} /\ accept = "pending" /\ busy = "none"
        /\ shutdown = "no" /\ io = "running" /\ failures = 0
    BY DEF Init
  <2>2. raced \in BOOLEAN /\ late \in BOOLEAN
    BY Zenon DEF Init
  <2>3. failures \in 0 .. MaxFailures
    BY <2>1, HttpServerAssumption
  <2> QED BY <2>1, <2>2, <2>3 DEF Globals, Closing
<1>t. Tables
  <2>1. peer = [c \in Conns |-> peer[c]]
    BY DEF Init
  <2>2. conn = [c \in Conns |-> conn[c]]
    BY DEF Init
  <2> QED BY <2>1, <2>2 DEF Tables
<1>3. OnItsWay /\ ManagedIffOpen
  BY <1>0, <1>1 DEF Init, OnItsWay, ManagedIffOpen
<1> QED BY <1>1, <1>2, <1>t, <1>3 DEF HttpInv, EachConn

(* Every step keeps the invariant.                                         *)
LEMMA HttpStep == HttpInv /\ [Next]_vars => HttpInv'
<1> SUFFICES ASSUME HttpInv, [Next]_vars PROVE HttpInv'
  OBVIOUS
<1>1. ASSUME NEW c \in Conns, Do(c) \/ PeerCloses(c) \/ ReadResponse(c) \/ Breaks(c) PROVE HttpInv'
  BY <1>1, PeerSteps
<1>2. ASSUME NEW c \in Conns, ReadSome(c) \/ WriteSome(c) \/ OpFails(c) PROVE HttpInv'
  BY <1>2, SocketSteps
<1>3. ASSUME NEW c \in Conns, Handler(c) PROVE HttpInv'
  BY <1>3, HandlerSteps
<1>4. ASSUME (\E c \in Conns : Connect(c) \/ AcceptReady(c)) \/ AcceptFails PROVE HttpInv'
  BY <1>4, AcceptorSteps
<1>5. ASSUME RunAccept \/ StartAccepted PROVE HttpInv'
  BY <1>5, AcceptHandlerSteps
<1>6. ASSUME ShutdownAcceptor \/ StopAll \/ StopIo PROVE HttpInv'
  BY <1>6, ShutdownSteps
<1>7. CASE UNCHANGED vars
  BY <1>7 DEF vars, acceptVars, ctlVars, HttpInv, Globals, Tables, EachConn, OnItsWay, Closing, ManagedIffOpen
<1> QED BY <1>1, <1>2, <1>3, <1>4, <1>5, <1>6, <1>7 DEF Next, Client, Socket

LEMMA HttpInvariant == Spec => []HttpInv
BY HttpInit, HttpStep, PTL DEF Spec

(***************************************************************************)
(* The theorems.                                                           *)
(***************************************************************************)

(* No handler of the server, step of a client or race with Shutdown leaves *)
(* a value outside its type; nothing is read that was not sent and nothing *)
(* written beyond the reply (DoRead, DoWrite, Response::to_buffers).       *)
THEOREM TypeCorrect == Spec => []TypeOK
<1>1. HttpInv => TypeOK
  BY DEF HttpInv, Globals, EachConn, ConnOK, Typed, TypeOK
<1> QED BY <1>1, HttpInvariant, PTL

(* Unless its set was changed behind StopAll, the manager holds exactly    *)
(* the open connections past the accept handler, each with an operation    *)
(* under way; and none are left when Shutdown has returned, unless it met  *)
(* the accept handler past its test (ConnectionManager::Start, Stop,       *)
(* StopAll; Server::DoAccept, Shutdown).                                   *)
THEOREM ManagerIsExact == Spec => []ManagerHoldsTheServed
<1>1. HttpInv => ManagerHoldsTheServed
  BY DEF HttpInv, Closing, ManagerHoldsTheServed, ShutdownStopsAll
<1> QED BY <1>1, HttpInvariant, PTL

(* A Client that returns Ok before Shutdown has the whole reply, and the   *)
(* handler of a request that came in one read was given its whole body     *)
(* (Client::ReadResponse, TcpConnection::DoWrite, RequestParser::parse).   *)
THEOREM MessagesWhole == Spec => []MessagesArriveWhole
<1>1. ASSUME HttpInv PROVE MessagesArriveWhole
  <2>1. OkIsComplete
    BY <1>1 DEF HttpInv, EachConn, ConnOK, ClosedInOrder, OkIsComplete
  <2>2. BodyOfOneRead
    <3> SUFFICES ASSUME NEW c \in Conns, conn[c].reply # NoReply, Request[c].good, conn[c].whole
                 PROVE  conn[c].content = Request[c].body
      BY DEF BodyOfOneRead
    <3>1. conn[c].content = conn[c].got - Request[c].head /\ conn[c].got = Size(c)
      BY <1>1, ConnFacts DEF ConnOK, Received
    <3> QED BY <3>1, RequestTypes
  <2> QED BY <2>1, <2>2 DEF MessagesArriveWhole
<1> QED BY <1>1, HttpInvariant, PTL

=============================================================================
