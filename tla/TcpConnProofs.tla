--------------------------- MODULE TcpConnProofs ---------------------------
(***************************************************************************)
(* Proofs for TcpConn, for every number of bytes and of ready handlers:    *)
(* how often a disconnect is reported, type correctness, and that no byte  *)
(* is lost when Sends are serial.                                          *)
(***************************************************************************)
EXTENDS TcpConn, SequenceTheorems, TLAPS

(* Until a user thread is inside Stop, the socket is never seen half       *)
(* stopped, and closing it, reporting it and changing state_ go together.  *)
ReportInv ==
    user \in {"idle", "threw"} =>
        /\ socket # "shut"
        /\ \/ reports = 0 /\ state = "kConnected" /\ socket # "closed"
           \/ reports = 1 /\ state = "kDisconnected" /\ socket = "closed"

(* Stop on the io thread either reports a first disconnect or throws.      *)
LEMMA StopReports ==
    ASSUME ReportInv, NEW q, NEW after, Stop(q, after), UNCHANGED user
    PROVE  ReportInv'
<1>1. CASE socket \in {"open", "shut"} /\ Close(q, after)
             /\ state' = "kDisconnected" /\ reports' = reports + 1
  BY <1>1 DEF ReportInv, Close
<1>2. CASE socket \in {"closed", "reset"} /\ UNCHANGED <<socket, state, reports>>
  BY <1>2 DEF ReportInv
<1> QED BY <1>1, <1>2 DEF Stop

(* Every step keeps ReportInv.                                             *)
LEMMA ReportStep == ReportInv /\ [Next]_vars => ReportInv'
<1> SUFFICES ASSUME ReportInv, [Next]_vars PROVE ReportInv'
  OBVIOUS
<1> DEFINE Same == UNCHANGED <<socket, state, reports, user>>
<1>1. Same => ReportInv'
  BY DEF ReportInv
<1>2. ASSUME NEW k \in 1 .. MaxBytes, Send(k) PROVE Same
  BY <1>2 DEF Send
<1>3. ASSUME RunPosted \/ RunWritten \/ RunRead PROVE Same
  BY <1>3 DEF RunPosted, RunWritten, RunRead
<1>4. ASSUME RunFailed PROVE ReportInv'
  <2>1. CASE Stop(Tail(ready), <<>>)
    BY <1>4, <2>1, StopReports DEF RunFailed
  <2>2. CASE ~Stop(Tail(ready), <<>>)
    BY <1>1, <1>4, <2>2 DEF RunFailed
  <2> QED BY <2>1, <2>2
<1>5. ASSUME RunReadAndStop PROVE ReportInv'
  BY <1>5, StopReports DEF RunReadAndStop
<1>6. ASSUME WriteReady \/ WriteFails \/ ReadReady("error") \/ ReadReady("ok") PROVE Same
  BY <1>6 DEF WriteReady, WriteFails, ReadReady
<1>7. ASSUME PeerShutdown PROVE Same
  BY <1>7 DEF PeerShutdown
<1>8. ASSUME PeerReset PROVE ReportInv'
  BY <1>8 DEF PeerReset, ReportInv
<1>9. ASSUME UserShutdown PROVE ReportInv'
  BY <1>9 DEF UserShutdown, ReportInv
<1>10. ASSUME UserReport \/ UserClose PROVE ReportInv'
  BY <1>10 DEF UserReport, UserClose, ReportInv
<1>11. CASE UNCHANGED vars
  BY <1>1, <1>11 DEF vars
<1> HIDE DEF Same
<1> QED
  BY <1>1, <1>2, <1>3, <1>4, <1>5, <1>6, <1>7, <1>8, <1>9, <1>10, <1>11 DEF Next, Handler, Socket

(* Whatever fails and in whatever order the handlers run, the connection   *)
(* callback hears of one disconnect at most, and then the socket is        *)
(* closed, until a user thread is inside Stop.                             *)
THEOREM OneReport == Spec => []DisconnectReportedOnce
<1>1. Init => ReportInv
  BY DEF Init, ReportInv
<1>2. ReportInv => DisconnectReportedOnce
  BY DEF ReportInv, DisconnectReportedOnce
<1> QED BY <1>1, <1>2, ReportStep, PTL DEF Spec

(***************************************************************************)
(* Types.  A waiting write points at bytes that Send has been given, so    *)
(* what the socket takes of it was sent; and two reports are possible only *)
(* because one is made by closing the socket, the other by a user's Stop.  *)
(***************************************************************************)
Handlers == [op : {"post", "written", "read"}, ec : {"ok", "error", "aborted"}, n : 0 .. MaxBytes]
WriteOps == [from : 0 .. MaxBytes, n : 1 .. MaxBytes, valid : BOOLEAN]

WritesAreSent == \A i \in DOMAIN writes : writes[i].from + writes[i].n <= sent

ReportsBound ==
    reports <= (IF socket = "closed" THEN 1 ELSE 0) + (IF user \in {"reported", "stopped"} THEN 1 ELSE 0)

TypeInv == TypeOK /\ WritesAreSent /\ ReportsBound

(* A function over 1 .. n is a sequence.                                   *)
LEMMA FunctionIsSeq ==
    ASSUME NEW S, NEW n \in Nat, NEW f \in [1 .. n -> S]
    PROVE  f \in Seq(S) /\ Len(f) = n
OBVIOUS

(* The handlers the connection makes are handlers.                         *)
LEMMA HandlerTypes ==
    /\ Posted \in Handlers
    /\ \A ec \in {"ok", "error", "aborted"} : HasRead(ec) \in Handlers
    /\ \A ec \in {"ok", "error", "aborted"} : \A n \in 0 .. MaxBytes : Written(ec, n) \in Handlers
BY TcpConnAssumption DEF Posted, HasRead, Written, Handlers

(* What is left of the ready queue when its head runs.                     *)
LEMMA TailTypes ==
    ASSUME TypeOK, ready # <<>>
    PROVE  Head(ready) \in Handlers /\ Tail(ready) \in Seq(Handlers)
BY HeadTailProperties DEF TypeOK, Handlers

(* A write takes bytes that were sent.                                     *)
LEMMA TakenType ==
    ASSUME NEW w \in WriteOps, NEW k \in 1 .. w.n, sent \in 0 .. MaxBytes, w.from + w.n <= sent
    PROVE  /\ Taken(w, k) \in Seq(0 .. MaxBytes) /\ Len(Taken(w, k)) = k
           /\ \A i \in 1 .. k : Taken(w, k)[i] = IF w.valid THEN w.from + i ELSE Junk
<1>1. k \in Nat /\ w.from \in Nat /\ w.n \in Nat
  BY TcpConnAssumption DEF WriteOps
<1>2. \A i \in 1 .. k : w.from + i \in 0 .. MaxBytes /\ Junk \in 0 .. MaxBytes
  BY <1>1, TcpConnAssumption DEF Junk
<1>3. CASE w.valid
  <2>1. Taken(w, k) = [i \in 1 .. k |-> w.from + i]
    BY <1>3 DEF Taken
  <2>2. Taken(w, k) \in [1 .. k -> 0 .. MaxBytes]
    BY <1>2, <2>1
  <2> QED BY <1>1, <1>3, <2>1, <2>2, FunctionIsSeq
<1>4. CASE ~w.valid
  <2>1. Taken(w, k) = [i \in 1 .. k |-> Junk]
    BY <1>4 DEF Taken
  <2>2. Taken(w, k) \in [1 .. k -> 0 .. MaxBytes]
    BY <1>2, <2>1
  <2> QED BY <1>1, <1>4, <2>1, <2>2, FunctionIsSeq
<1> QED BY <1>3, <1>4

(* What an async_write_some leaves behind.                                 *)
LEMMA AsyncWriteTypes ==
    ASSUME TypeInv, NEW from \in 0 .. sent, NEW n \in 1 .. sent, from + n <= sent,
           NEW q \in Seq(Handlers), AsyncWrite(from, n, q), sent' = sent
    PROVE  /\ wire' \in Seq(0 .. MaxBytes) /\ writes' \in Seq(WriteOps) /\ ready' \in Seq(Handlers)
           /\ WritesAreSent'
<1> DEFINE w == [from |-> from, n |-> n, valid |-> TRUE]
<1>1. w \in WriteOps /\ w.from = from /\ w.n = n /\ sent \in 0 .. MaxBytes /\ w.valid = TRUE
  BY TcpConnAssumption DEF TypeInv, TypeOK, WriteOps
<1>2. wire \in Seq(0 .. MaxBytes) /\ writes \in Seq(WriteOps)
  BY DEF TypeInv, TypeOK, WriteOps
<1>3. CASE /\ writes' = writes
           /\ \E k \in 1 .. n : wire' = wire \o Taken(w, k) /\ ready' = Append(q, Written("ok", k))
  <2>1. PICK k \in 1 .. n : wire' = wire \o Taken(w, k) /\ ready' = Append(q, Written("ok", k))
    BY <1>3
  <2>2. Taken(w, k) \in Seq(0 .. MaxBytes)
    BY <1>1, TakenType
  <2>3. wire' \in Seq(0 .. MaxBytes)
    BY <1>2, <2>1, <2>2, ConcatProperties
  <2>4. k \in 0 .. MaxBytes
    BY <1>1, TcpConnAssumption
  <2>5. Written("ok", k) \in Handlers
    BY <2>4, HandlerTypes
  <2>6. ready' \in Seq(Handlers)
    BY <2>1, <2>5
  <2>7. WritesAreSent'
    BY <1>3 DEF TypeInv, WritesAreSent
  <2> QED BY <1>2, <1>3, <2>3, <2>6, <2>7
<1>4. CASE writes' = Append(writes, w) /\ ready' = q /\ wire' = wire
  <2>1. WritesAreSent'
    BY <1>1, <1>2, <1>4 DEF TypeInv, WritesAreSent
  <2> QED BY <1>1, <1>2, <1>4, <2>1
<1>5. CASE ready' = Append(q, Written("error", 0)) /\ wire' = wire /\ writes' = writes
  <2>1. Written("error", 0) \in Handlers
    BY HandlerTypes, TcpConnAssumption
  <2>2. ready' \in Seq(Handlers)
    BY <1>5, <2>1
  <2>3. WritesAreSent'
    BY <1>5 DEF TypeInv, WritesAreSent
  <2> QED BY <1>2, <1>5, <2>2, <2>3
<1> QED BY <1>3, <1>4, <1>5 DEF AsyncWrite

(* WriteToSocket writes what the buffer holds, if anything.                *)
LEMMA WriteToSocketTypes ==
    ASSUME TypeInv, NEW hd \in 0 .. sent, NEW q \in Seq(Handlers), WriteToSocket(hd, q), sent' = sent
    PROVE  /\ wire' \in Seq(0 .. MaxBytes) /\ writes' \in Seq(WriteOps) /\ ready' \in Seq(Handlers)
           /\ WritesAreSent'
<1>1. CASE sent # hd
  <2>1. sent - hd \in 1 .. sent /\ hd + (sent - hd) <= sent
    BY <1>1 DEF TypeInv, TypeOK
  <2> QED BY <1>1, <2>1, AsyncWriteTypes DEF WriteToSocket
<1>2. CASE sent = hd
  BY <1>2 DEF WriteToSocket, TypeInv, TypeOK, WriteOps, WritesAreSent
<1> QED BY <1>1, <1>2

(* close() puts handlers behind what is ready.                             *)
LEMMA CloseTypes ==
    ASSUME TypeInv, NEW q \in Seq(Handlers), NEW after \in Seq(Handlers), Close(q, after)
    PROVE  ready' \in Seq(Handlers) /\ writes' = <<>> /\ reading' = FALSE /\ socket' = "closed"
<1> DEFINE a == [i \in 1 .. Len(writes) |-> Written("aborted", 0)]
           r == IF reading THEN <<HasRead("aborted")>> ELSE <<>>
<1>1. Written("aborted", 0) \in Handlers /\ HasRead("aborted") \in Handlers
  BY HandlerTypes, TcpConnAssumption
<1>2. Len(writes) \in Nat
  BY DEF TypeInv, TypeOK
<1>3. a \in [1 .. Len(writes) -> Handlers]
  BY <1>1
<1>4. a \in Seq(Handlers)
  BY <1>2, <1>3, FunctionIsSeq
<1>5. r \in Seq(Handlers)
  BY <1>1
<1> HIDE DEF a, r
<1>6. q \o a \o r \o after \in Seq(Handlers)
  BY <1>4, <1>5, ConcatProperties
<1> QED BY <1>6 DEF Close, a, r

(* Every part of TypeInv that the io thread's Stop can disturb.            *)
LEMMA StopTypes ==
    ASSUME TypeInv, NEW q \in Seq(Handlers), NEW after \in Seq(Handlers), Stop(q, after),
           UNCHANGED <<sent, head, serial, wire, eof, user>>
    PROVE  TypeInv'
<1>1. CASE /\ socket \in {"open", "shut"} /\ Close(q, after)
           /\ state' = "kDisconnected" /\ reports' = reports + 1 /\ io' = io
  <2>1. ready' \in Seq(Handlers) /\ writes' = <<>> /\ reading' = FALSE /\ socket' = "closed"
    BY <1>1, CloseTypes
  <2>2. reports' \in 0 .. 2 /\ ReportsBound'
    BY <1>1, <2>1 DEF TypeInv, TypeOK, ReportsBound
  <2>3. WritesAreSent' /\ writes' \in Seq(WriteOps)
    BY <2>1 DEF WritesAreSent
  <2> QED BY <1>1, <2>1, <2>2, <2>3 DEF TypeInv, TypeOK, Handlers, WriteOps
<1>2. CASE io' = "threw" /\ ready' = q /\ UNCHANGED <<socket, writes, reading, state, reports>>
  BY <1>2 DEF TypeInv, TypeOK, WritesAreSent, ReportsBound, Handlers
<1> QED BY <1>1, <1>2 DEF Stop

(* Every step keeps the types.                                             *)
LEMMA TypeStep == TypeInv /\ [Next]_vars => TypeInv'
<1> SUFFICES ASSUME TypeInv, [Next]_vars PROVE TypeInv'
  OBVIOUS
<1>0. /\ sent \in 0 .. MaxBytes /\ head \in 0 .. sent /\ ready \in Seq(Handlers) /\ writes \in Seq(WriteOps)
      /\ wire \in Seq(0 .. MaxBytes)
  BY DEF TypeInv, TypeOK, Handlers, WriteOps
<1>1. ASSUME NEW k \in 1 .. MaxBytes, Send(k) PROVE TypeInv'
  <2>1. PICK moved \in BOOLEAN : writes' = [i \in DOMAIN writes |-> [writes[i] EXCEPT !.valid = @ /\ ~moved]]
    BY <1>1 DEF Send
  <2>2. /\ sent' = sent + k /\ sent' \in 0 .. MaxBytes /\ sent <= sent'
        /\ ready' \in Seq(Handlers) /\ serial' \in BOOLEAN
        /\ UNCHANGED <<head, wire, reading, socket, eof, state, reports, io, user>>
    BY <1>0, <1>1, TcpConnAssumption, HandlerTypes DEF Send, TypeInv, TypeOK
  <2>3. \A i \in 1 .. Len(writes) : writes[i] \in WriteOps /\ writes[i].from + writes[i].n <= sent
    BY <1>0 DEF TypeInv, WritesAreSent
  <2>4. DOMAIN writes = 1 .. Len(writes) /\ Len(writes) \in Nat
    BY <1>0
  <2>5. writes' \in [1 .. Len(writes) -> WriteOps]
    BY <2>1, <2>3, <2>4 DEF WriteOps
  <2>6. \A i \in 1 .. Len(writes) : writes'[i].from = writes[i].from /\ writes'[i].n = writes[i].n
    BY <2>1, <2>3, <2>4 DEF WriteOps
  <2>7. writes' \in Seq(WriteOps) /\ Len(writes') = Len(writes)
    BY <2>4, <2>5, FunctionIsSeq
  <2>8. WritesAreSent'
    <3> SUFFICES ASSUME NEW i \in DOMAIN writes' PROVE writes'[i].from + writes'[i].n <= sent'
      BY DEF WritesAreSent
    <3>1. i \in 1 .. Len(writes)
      BY <2>7
    <3>2. writes[i].from \in Nat /\ writes[i].n \in Nat
      BY <2>3, <3>1, TcpConnAssumption DEF WriteOps
    <3> QED BY <1>0, <2>2, <2>3, <2>6, <3>1, <3>2, TcpConnAssumption
  <2>9. head' \in 0 .. sent'
    BY <1>0, <2>2, TcpConnAssumption
  <2> QED BY <2>2, <2>7, <2>8, <2>9 DEF TypeInv, TypeOK, ReportsBound, Handlers, WriteOps
<1>2. ASSUME RunPosted PROVE TypeInv'
  <2>1. Tail(ready) \in Seq(Handlers) /\ WriteToSocket(head, Tail(ready))
    BY <1>2, TailTypes DEF RunPosted, Runs, TypeInv
  <2>2. UNCHANGED <<sent, head, serial, reading, socket, eof, state, reports, io, user>>
    BY <1>2 DEF RunPosted, bufVars
  <2>3. /\ wire' \in Seq(0 .. MaxBytes) /\ writes' \in Seq(WriteOps) /\ ready' \in Seq(Handlers) /\ WritesAreSent'
    BY <1>0, <2>1, <2>2, WriteToSocketTypes
  <2> QED BY <2>2, <2>3 DEF TypeInv, TypeOK, ReportsBound, Handlers, WriteOps
<1>3. ASSUME RunWritten PROVE TypeInv'
  <2> DEFINE hd == Retrive(Head(ready).n)
  <2>1. Tail(ready) \in Seq(Handlers) /\ Head(ready) \in Handlers /\ WriteToSocket(hd, Tail(ready))
    BY <1>3, TailTypes DEF RunWritten, Runs, TypeInv
  <2>2. head' = hd /\ UNCHANGED <<sent, serial, reading, socket, eof, state, reports, io, user>>
    BY <1>3 DEF RunWritten
  <2>3. hd \in 0 .. sent
    BY <1>0, <2>1, TcpConnAssumption DEF Retrive, Handlers
  <2>4. /\ wire' \in Seq(0 .. MaxBytes) /\ writes' \in Seq(WriteOps) /\ ready' \in Seq(Handlers) /\ WritesAreSent'
    BY <2>1, <2>2, <2>3, WriteToSocketTypes
  <2> QED BY <2>2, <2>3, <2>4 DEF TypeInv, TypeOK, ReportsBound, Handlers, WriteOps
<1>4. ASSUME RunFailed PROVE TypeInv'
  <2>1. Tail(ready) \in Seq(Handlers) /\ <<>> \in Seq(Handlers)
    BY <1>4, TailTypes DEF RunFailed, Runs, TypeInv
  <2>2. UNCHANGED <<sent, head, serial, wire, eof, user>>
    BY <1>4 DEF RunFailed, bufVars
  <2>3. CASE Stop(Tail(ready), <<>>)
    BY <2>1, <2>2, <2>3, StopTypes
  <2>4. CASE ready' = Tail(ready) /\ UNCHANGED <<socket, writes, reading, state, reports, io>>
    BY <2>1, <2>2, <2>4 DEF TypeInv, TypeOK, WritesAreSent, ReportsBound, Handlers
  <2> QED BY <1>4, <2>3, <2>4 DEF RunFailed
<1>5. ASSUME RunRead PROVE TypeInv'
  <2>1. Tail(ready) \in Seq(Handlers) /\ HasRead("error") \in Handlers
    BY <1>5, TailTypes, HandlerTypes DEF RunRead, Runs, TypeInv
  <2>2. ready' \in Seq(Handlers) /\ reading' \in BOOLEAN
    <3>1. CASE ready' = Append(Tail(ready), HasRead("error")) /\ reading' = reading
      BY <2>1, <3>1 DEF TypeInv, TypeOK
    <3>2. CASE ready' = Tail(ready) /\ reading' = TRUE
      BY <2>1, <3>2
    <3> QED BY <1>5, <3>1, <3>2 DEF RunRead
  <2>3. UNCHANGED <<sent, head, serial, wire, writes, socket, eof, state, reports, io, user>>
    BY <1>5 DEF RunRead, bufVars
  <2> QED BY <2>2, <2>3 DEF TypeInv, TypeOK, WritesAreSent, ReportsBound, Handlers
<1>6. ASSUME RunReadAndStop PROVE TypeInv'
  <2>1. Tail(ready) \in Seq(Handlers) /\ <<HasRead("error")>> \in Seq(Handlers)
    BY <1>6, TailTypes, HandlerTypes DEF RunReadAndStop, Runs, TypeInv
  <2>2. UNCHANGED <<sent, head, serial, wire, eof, user>>
    BY <1>6 DEF RunReadAndStop, bufVars
  <2> QED BY <1>6, <2>1, <2>2, StopTypes DEF RunReadAndStop
<1>7. ASSUME WriteReady PROVE TypeInv'
  <2>1. PICK k \in 1 .. Head(writes).n : wire' = wire \o Taken(Head(writes), k) /\ ready' = Append(ready, Written("ok", k))
    BY <1>7 DEF WriteReady
  <2>2. /\ writes # <<>> /\ writes' = Tail(writes) /\ Head(writes) \in WriteOps /\ writes' \in Seq(WriteOps)
        /\ Head(writes) = writes[1] /\ 1 \in DOMAIN writes
    BY <1>0, <1>7, HeadTailProperties DEF WriteReady
  <2>3. Head(writes).from + Head(writes).n <= sent
    BY <2>2 DEF TypeInv, WritesAreSent
  <2>4. Taken(Head(writes), k) \in Seq(0 .. MaxBytes)
    BY <1>0, <2>2, <2>3, TakenType
  <2>5. wire' \in Seq(0 .. MaxBytes)
    BY <1>0, <2>1, <2>4, ConcatProperties
  <2>6. k \in 0 .. MaxBytes
    BY <2>2, TcpConnAssumption DEF WriteOps
  <2>7. ready' \in Seq(Handlers)
    BY <1>0, <2>1, <2>6, HandlerTypes
  <2>8. UNCHANGED <<sent, head, serial, reading, socket, eof, state, reports, io, user>>
    BY <1>7 DEF WriteReady, bufVars
  <2>9. WritesAreSent'
    BY <1>0, <2>2, <2>8, HeadTailProperties DEF TypeInv, WritesAreSent
  <2> QED BY <2>2, <2>5, <2>7, <2>8, <2>9 DEF TypeInv, TypeOK, ReportsBound, Handlers, WriteOps
<1>8. ASSUME WriteFails PROVE TypeInv'
  <2>1. /\ writes # <<>> /\ writes' = Tail(writes) /\ writes' \in Seq(WriteOps)
        /\ ready' = Append(ready, Written("error", 0))
        /\ UNCHANGED <<sent, head, serial, wire, reading, socket, eof, state, reports, io, user>>
    BY <1>0, <1>8, HeadTailProperties DEF WriteFails, bufVars
  <2>2. Written("error", 0) \in Handlers
    BY HandlerTypes, TcpConnAssumption
  <2>3. WritesAreSent'
    BY <1>0, <2>1, HeadTailProperties DEF TypeInv, WritesAreSent
  <2>4. ready' \in Seq(Handlers)
    BY <1>0, <2>1, <2>2
  <2> QED BY <2>1, <2>3, <2>4 DEF TypeInv, TypeOK, ReportsBound, Handlers, WriteOps
<1>9. ASSUME NEW ec \in {"ok", "error"}, ReadReady(ec) PROVE TypeInv'
  <2>1. /\ ready' = Append(ready, HasRead(ec)) /\ reading' = FALSE
        /\ UNCHANGED <<sent, head, serial, wire, writes, socket, eof, state, reports, io, user>>
    BY <1>9 DEF ReadReady, bufVars
  <2>2. ready' \in Seq(Handlers)
    BY <1>0, <2>1, HandlerTypes
  <2> QED BY <2>1, <2>2 DEF TypeInv, TypeOK, WritesAreSent, ReportsBound, Handlers
<1>10. ASSUME PeerShutdown \/ PeerReset \/ UserShutdown \/ UserReport PROVE TypeInv'
  <2>1. UNCHANGED <<sent, head, serial, wire, writes, reading, ready, io>>
    BY <1>10 DEF PeerShutdown, PeerReset, UserShutdown, UserReport, bufVars, sockVars
  <2>2. CASE PeerShutdown
    BY <2>1, <2>2 DEF PeerShutdown, TypeInv, TypeOK, WritesAreSent, ReportsBound
  <2>3. CASE PeerReset
    BY <2>1, <2>3 DEF PeerReset, TypeInv, TypeOK, WritesAreSent, ReportsBound
  <2>4. CASE UserShutdown
    BY <2>1, <2>4 DEF UserShutdown, TypeInv, TypeOK, WritesAreSent, ReportsBound
  <2>5. CASE UserReport
    BY <2>1, <2>5 DEF UserReport, TypeInv, TypeOK, WritesAreSent, ReportsBound
  <2> QED BY <1>10, <2>2, <2>3, <2>4, <2>5
<1>11. ASSUME UserClose PROVE TypeInv'
  <2>1. UNCHANGED <<sent, head, serial, wire, eof, state, reports, io>> /\ user' = "stopped" /\ user = "reported"
    BY <1>11 DEF UserClose, bufVars
  <2>2. CASE UNCHANGED <<socket, writes, reading, ready>>
    BY <2>1, <2>2 DEF TypeInv, TypeOK, WritesAreSent, ReportsBound
  <2>3. CASE Close(ready, <<>>)
    <3>1. ready' \in Seq(Handlers) /\ writes' = <<>> /\ reading' = FALSE /\ socket' = "closed"
      <4>1. <<>> \in Seq(Handlers)
        OBVIOUS
      <4> QED BY <1>0, <2>3, <4>1, CloseTypes
    <3>2. WritesAreSent' /\ writes' \in Seq(WriteOps)
      BY <3>1 DEF WritesAreSent
    <3>3. ReportsBound' /\ reports' \in 0 .. 2
      BY <2>1, <3>1 DEF TypeInv, TypeOK, ReportsBound
    <3> QED BY <2>1, <3>1, <3>2, <3>3 DEF TypeInv, TypeOK, Handlers, WriteOps
  <2> QED BY <1>11, <2>2, <2>3 DEF UserClose
<1>12. CASE UNCHANGED vars
  BY <1>12 DEF vars, bufVars, sockVars, TypeInv, TypeOK, WritesAreSent, ReportsBound
<1> QED
  BY <1>1, <1>2, <1>3, <1>4, <1>5, <1>6, <1>7, <1>8, <1>9, <1>10, <1>11, <1>12 DEF Next, Handler, Socket

(* The connection starts with nothing to write (TcpConn::Start).           *)
LEMMA TypeInit == Init => TypeInv
<1> SUFFICES ASSUME Init PROVE TypeInv
  OBVIOUS
<1>1. wire \in Seq(0 .. MaxBytes) /\ writes \in Seq(WriteOps) /\ ready \in Seq(Handlers)
  BY DEF Init
<1>2. WritesAreSent /\ ReportsBound
  BY DEF Init, WritesAreSent, ReportsBound
<1>3. sent \in 0 .. MaxBytes /\ head \in 0 .. sent /\ reports \in 0 .. 2
  BY TcpConnAssumption DEF Init
<1>4. /\ serial \in BOOLEAN /\ reading \in BOOLEAN /\ eof \in BOOLEAN
      /\ socket \in {"open", "shut", "reset", "closed"} /\ state \in {"kConnected", "kDisconnected"}
      /\ io \in {"running", "threw"} /\ user \in {"idle", "shutdown", "reported", "stopped", "threw"}
  BY DEF Init
<1> QED BY <1>1, <1>2, <1>3, <1>4 DEF TypeInv, TypeOK, Handlers, WriteOps

(* Buffer ends, waiting writes and ready handlers keep their types, and    *)
(* never more than two disconnects are reported, whoever calls Stop.       *)
THEOREM TypeCorrect == Spec => []TypeOK
<1>1. TypeInv => TypeOK
  BY DEF TypeInv
<1> QED BY <1>1, TypeInit, TypeStep, PTL DEF Spec

(***************************************************************************)
(* Bytes.  While Sends are serial, one write at most is under way: posted, *)
(* waiting for the socket, or completed with its handler still to run; and *)
(* each of the three says where the buffer's head is behind the wire.      *)
(***************************************************************************)
Reads(q) == \A i \in DOMAIN q : q[i].op = "read"
OneWrite(q) == \A i, j \in DOMAIN q : q[i].op # "read" /\ q[j].op # "read" => i = j

(* Handler h fits a buffer whose head is at hd, a wire of len bytes, and   *)
(* the socket s.                                                           *)
Fits(h, hd, len, s) ==
    /\ h.op = "post" => hd = len
    /\ (h.op = "written" /\ h.ec = "ok") => len = hd + h.n
    /\ (h.op = "written" /\ h.ec # "ok") => s # "open"

AllFit(q, hd, len, s) == \A i \in DOMAIN q : Fits(q[i], hd, len, s)

Bytes ==
    /\ WireIsPrefixOfSent /\ head <= Len(wire)
    /\ OneWrite(ready) /\ AllFit(ready, head, Len(wire), socket)
    /\ Len(writes) <= 1
    /\ writes # <<>> => /\ Reads(ready) /\ head = Len(wire)
                        /\ writes[1] = [from |-> head, n |-> sent - head, valid |-> TRUE]
    /\ (NoWriteUnderWay /\ socket = "open") => head = sent

ByteInv == TypeInv /\ (serial => Bytes)

(* The queue behind its head.                                              *)
LEMMA TailOfReady ==
    ASSUME NEW q \in Seq(Handlers), q # <<>>, OneWrite(q), NEW hd, NEW len, NEW s, AllFit(q, hd, len, s)
    PROVE  /\ OneWrite(Tail(q)) /\ AllFit(Tail(q), hd, len, s) /\ Fits(Head(q), hd, len, s)
           /\ Head(q).op # "read" => Reads(Tail(q))
           /\ Head(q).op = "read" => (Reads(q) <=> Reads(Tail(q)))
           /\ Reads(q) => Reads(Tail(q))
<1>1. /\ Head(q) = q[1] /\ Tail(q) \in Seq(Handlers) /\ Len(Tail(q)) = Len(q) - 1 /\ Len(q) \in Nat \ {0}
      /\ DOMAIN q = 1 .. Len(q) /\ DOMAIN Tail(q) = 1 .. Len(q) - 1
      /\ \A i \in 1 .. Len(q) - 1 : Tail(q)[i] = q[i + 1]
  BY HeadTailProperties
<1>2. OneWrite(Tail(q)) /\ AllFit(Tail(q), hd, len, s) /\ Fits(Head(q), hd, len, s)
  BY <1>1 DEF OneWrite, AllFit
<1>3. Head(q).op # "read" => Reads(Tail(q))
  BY <1>1 DEF OneWrite, Reads
<1>4. Reads(q) => Reads(Tail(q))
  BY <1>1 DEF Reads
<1>5. ASSUME Head(q).op = "read", Reads(Tail(q)) PROVE Reads(q)
  <2> SUFFICES ASSUME NEW i \in 1 .. Len(q) PROVE q[i].op = "read"
    BY <1>1 DEF Reads
  <2>1. CASE i = 1
    BY <1>1, <1>5, <2>1
  <2>2. CASE i # 1
    <3>1. i - 1 \in 1 .. Len(q) - 1 /\ Tail(q)[i - 1] = q[i]
      BY <1>1, <2>2
    <3> QED BY <1>1, <1>5, <3>1 DEF Reads
  <2> QED BY <2>1, <2>2
<1> QED BY <1>2, <1>3, <1>4, <1>5

(* The queue with another behind it.                                       *)
LEMMA ConcatOfReady ==
    ASSUME NEW q \in Seq(Handlers), NEW r \in Seq(Handlers), NEW hd, NEW len, NEW s,
           AllFit(q, hd, len, s), AllFit(r, hd, len, s),
           (OneWrite(q) /\ Reads(r)) \/ (Reads(q) /\ OneWrite(r))
    PROVE  /\ OneWrite(q \o r) /\ AllFit(q \o r, hd, len, s)
           /\ Reads(q \o r) <=> Reads(q) /\ Reads(r)
<1>1. /\ q \o r \in Seq(Handlers) /\ Len(q) \in Nat /\ Len(r) \in Nat
      /\ DOMAIN q = 1 .. Len(q) /\ DOMAIN r = 1 .. Len(r) /\ DOMAIN (q \o r) = 1 .. Len(q) + Len(r)
  OBVIOUS
<1>2. \A i \in 1 .. Len(q) : i \in DOMAIN (q \o r) /\ (q \o r)[i] = q[i]
  BY <1>1, ConcatProperties
<1>3. \A i \in 1 .. Len(r) : i + Len(q) \in DOMAIN (q \o r) /\ (q \o r)[i + Len(q)] = r[i]
  BY <1>1, ConcatProperties
<1>4. \A i \in 1 .. Len(q) + Len(r) :
          \/ i \in 1 .. Len(q) /\ (q \o r)[i] = q[i]
          \/ i - Len(q) \in 1 .. Len(r) /\ (q \o r)[i] = r[i - Len(q)]
  <2> SUFFICES ASSUME NEW i \in 1 .. Len(q) + Len(r)
               PROVE  \/ i \in 1 .. Len(q) /\ (q \o r)[i] = q[i]
                      \/ i - Len(q) \in 1 .. Len(r) /\ (q \o r)[i] = r[i - Len(q)]
    OBVIOUS
  <2>1. (q \o r)[i] = IF i <= Len(q) THEN q[i] ELSE r[i - Len(q)]
    BY ConcatProperties
  <2>2. CASE i <= Len(q)
    BY <1>1, <2>1, <2>2
  <2>3. CASE ~(i <= Len(q))
    BY <1>1, <2>1, <2>3
  <2> QED BY <2>2, <2>3
<1> DEFINE c == q \o r
<1> HIDE DEF c
<1>5. AllFit(c, hd, len, s)
  BY <1>1, <1>4 DEF AllFit, c
<1>6. Reads(c) <=> Reads(q) /\ Reads(r)
  <2>1. Reads(q) /\ Reads(r) => Reads(c)
    BY <1>1, <1>4 DEF Reads, c
  <2>2. Reads(c) => Reads(q)
    BY <1>1, <1>2 DEF Reads, c
  <2>3. Reads(c) => Reads(r)
    <3> SUFFICES ASSUME Reads(c), NEW i \in 1 .. Len(r) PROVE r[i].op = "read"
      BY <1>1 DEF Reads
    <3>1. i + Len(q) \in DOMAIN c /\ c[i + Len(q)] = r[i]
      BY <1>3 DEF c
    <3> QED BY <3>1 DEF Reads
  <2> QED BY <2>1, <2>2, <2>3
<1>7. OneWrite(c)
  <2> SUFFICES ASSUME NEW i \in DOMAIN c, NEW j \in DOMAIN c, c[i].op # "read", c[j].op # "read" PROVE i = j
    BY DEF OneWrite
  <2>1. CASE OneWrite(q) /\ Reads(r)
    <3>1. i \in 1 .. Len(q) /\ c[i] = q[i] /\ j \in 1 .. Len(q) /\ c[j] = q[j]
      BY <1>1, <1>4, <2>1 DEF Reads, c
    <3> QED BY <1>1, <2>1, <3>1 DEF OneWrite
  <2>2. CASE Reads(q) /\ OneWrite(r)
    <3>1. /\ i - Len(q) \in 1 .. Len(r) /\ c[i] = r[i - Len(q)]
          /\ j - Len(q) \in 1 .. Len(r) /\ c[j] = r[j - Len(q)]
      BY <1>1, <1>4, <2>2 DEF Reads, c
    <3>2. i - Len(q) = j - Len(q)
      BY <1>1, <2>2, <3>1 DEF OneWrite
    <3>3. i \in Int /\ j \in Int
      BY <1>1 DEF c
    <3> QED BY <1>1, <3>2, <3>3
  <2> QED BY <2>1, <2>2
<1> QED BY <1>5, <1>6, <1>7 DEF c

(* The queue with one more handler.                                        *)
LEMMA AppendToReady ==
    ASSUME NEW q \in Seq(Handlers), NEW e \in Handlers, NEW hd, NEW len, NEW s,
           AllFit(q, hd, len, s), Fits(e, hd, len, s),
           (OneWrite(q) /\ e.op = "read") \/ Reads(q)
    PROVE  /\ OneWrite(Append(q, e)) /\ AllFit(Append(q, e), hd, len, s)
           /\ Reads(Append(q, e)) <=> Reads(q) /\ e.op = "read"
<1>1. Append(q, e) = q \o <<e>> /\ <<e>> \in Seq(Handlers) /\ DOMAIN <<e>> = {1} /\ <<e>>[1] = e
  OBVIOUS
<1>2. AllFit(<<e>>, hd, len, s) /\ OneWrite(<<e>>) /\ (Reads(<<e>>) <=> e.op = "read")
  BY <1>1 DEF AllFit, OneWrite, Reads
<1>3. (OneWrite(q) /\ Reads(<<e>>)) \/ (Reads(q) /\ OneWrite(<<e>>))
  BY <1>2
<1>4. /\ OneWrite(q \o <<e>>) /\ AllFit(q \o <<e>>, hd, len, s)
      /\ Reads(q \o <<e>>) <=> Reads(q) /\ Reads(<<e>>)
  BY <1>1, <1>2, <1>3, ConcatOfReady
<1> QED BY <1>1, <1>2, <1>4

(* One operation less than one is none.                                    *)
LEMMA TailOfOne ==
    ASSUME NEW S, NEW s \in Seq(S), s # <<>>, Len(s) <= 1
    PROVE  Tail(s) = <<>> /\ Len(Tail(s)) = 0
<1>1. Tail(s) \in Seq(S) /\ Len(Tail(s)) = Len(s) - 1 /\ Len(s) \in Nat \ {0}
  BY HeadTailProperties, EmptySeq
<1>2. Len(Tail(s)) = 0
  BY <1>1
<1> QED BY <1>1, <1>2, EmptySeq

(* Handlers of reads fit everywhere.                                       *)
LEMMA ReadsFit == ASSUME NEW q, Reads(q), NEW hd, NEW len, NEW s PROVE OneWrite(q) /\ AllFit(q, hd, len, s)
BY DEF Reads, OneWrite, AllFit, Fits

(* A step that moves no byte and brings no write.                          *)
LEMMA NothingWritten ==
    ASSUME TypeInv, Bytes, UNCHANGED <<sent, head, wire, writes>>,
           OneWrite(ready'), AllFit(ready', head, Len(wire), socket),
           Reads(ready) => Reads(ready'), socket' = socket \/ socket' # "open",
           socket = "open" => (Reads(ready') => Reads(ready))
    PROVE  Bytes'
<1>1. AllFit(ready', head, Len(wire), socket')
  BY DEF AllFit, Fits
<1>2. (NoWriteUnderWay' /\ socket' = "open") => head = sent
  BY DEF Bytes, NoWriteUnderWay, Reads
<1> QED BY <1>1, <1>2 DEF Bytes, WireIsPrefixOfSent

(* The next k bytes continue the wire.                                     *)
LEMMA WireGrows ==
    ASSUME NEW k \in Nat, NEW t \in Seq(0 .. MaxBytes), Len(t) = k, \A i \in 1 .. k : t[i] = Len(wire) + i,
           wire \in Seq(0 .. MaxBytes), WireIsPrefixOfSent, wire' = wire \o t,
           sent \in Nat, Len(wire) + k <= sent, sent' = sent
    PROVE  Len(wire') = Len(wire) + k /\ WireIsPrefixOfSent'
<1> DEFINE l == Len(wire)
<1>1. l \in Nat /\ \A i \in 1 .. l : wire[i] = i
  BY DEF WireIsPrefixOfSent
<1>2. /\ Len(wire') = l + k /\ wire' \in Seq(0 .. MaxBytes)
      /\ \A i \in 1 .. l + k : wire'[i] = IF i <= l THEN wire[i] ELSE t[i - l]
  BY ConcatProperties
<1> HIDE DEF l
<1>3. ASSUME NEW i \in 1 .. l + k PROVE wire'[i] = i
  <2>1. CASE i <= l
    BY <1>1, <1>2, <2>1
  <2>2. CASE ~(i <= l)
    <3>1. i - l \in 1 .. k
      BY <1>1, <2>2
    <3>2. t[i - l] = l + (i - l)
      BY <3>1 DEF l
    <3> QED BY <1>1, <1>2, <2>2, <3>2
  <2> QED BY <2>1, <2>2
<1>4. wire' = [i \in 1 .. Len(wire') |-> i]
  <2>1. wire' \in [1 .. Len(wire') -> 0 .. MaxBytes]
    BY <1>2, LenProperties
  <2>2. \A i \in 1 .. Len(wire') : wire'[i] = i
    BY <1>2, <1>3
  <2> QED BY <2>1, <2>2
<1>5. Len(wire') <= sent'
  BY <1>2 DEF l
<1> QED BY <1>2, <1>4, <1>5 DEF WireIsPrefixOfSent, l

(* WriteToSocket with no other write under way.                            *)
LEMMA WriteToSocketBytes ==
    ASSUME TypeInv, TypeInv', NEW hd \in 0 .. sent, NEW q \in Seq(Handlers), Reads(q), writes = <<>>,
           WireIsPrefixOfSent, Len(wire) = hd, WriteToSocket(hd, q), head' = hd, UNCHANGED <<sent, socket>>
    PROVE  Bytes'
<1> DEFINE w == [from |-> hd, n |-> sent - hd, valid |-> TRUE]
<1>0. /\ sent \in 0 .. MaxBytes /\ sent \in Nat /\ hd \in Nat /\ wire \in Seq(0 .. MaxBytes) /\ MaxBytes \in Nat
      /\ wire' \in Seq(0 .. MaxBytes)
  BY TcpConnAssumption DEF TypeInv, TypeOK
<1>1. CASE sent = hd
  <2>1. ready' = q /\ wire' = wire /\ writes' = <<>>
    BY <1>1 DEF WriteToSocket
  <2>2. OneWrite(q) /\ AllFit(q, hd, hd, socket)
    BY ReadsFit
  <2>3. Len(writes') = 0
    BY <2>1
  <2> QED BY <1>0, <1>1, <2>1, <2>2, <2>3 DEF Bytes, WireIsPrefixOfSent
<1>2. CASE sent # hd
  <2>0. sent - hd \in 1 .. MaxBytes /\ hd + (sent - hd) = sent
    BY <1>0, <1>2
  <2>1. w \in WriteOps /\ w.from = hd /\ w.n = sent - hd /\ w.valid = TRUE
    BY <1>0, <2>0 DEF WriteOps
  <2>2. CASE /\ writes' = writes
             /\ \E k \in 1 .. sent - hd : wire' = wire \o Taken(w, k) /\ ready' = Append(q, Written("ok", k))
    <3>1. PICK k \in 1 .. sent - hd : wire' = wire \o Taken(w, k) /\ ready' = Append(q, Written("ok", k))
      BY <2>2
    <3> HIDE DEF w
    <3>a. k \in 1 .. w.n /\ w.from + w.n <= sent /\ k \in Nat /\ hd + k <= sent
      BY <1>0, <2>0, <2>1
    <3>b. /\ Taken(w, k) \in Seq(0 .. MaxBytes) /\ Len(Taken(w, k)) = k
          /\ \A i \in 1 .. k : Taken(w, k)[i] = IF w.valid THEN w.from + i ELSE Junk
      BY <1>0, <2>1, <3>a, TakenType
    <3>2. /\ Taken(w, k) \in Seq(0 .. MaxBytes) /\ Len(Taken(w, k)) = k
          /\ \A i \in 1 .. k : Taken(w, k)[i] = hd + i
      BY <2>1, <3>b
    <3>3. Len(wire') = hd + k /\ WireIsPrefixOfSent'
      BY <1>0, <3>1, <3>2, <3>a, WireGrows
    <3> DEFINE e == Written("ok", k)
    <3>7. e.op = "written" /\ e.ec = "ok" /\ e.n = k /\ e \in Handlers /\ k \in Nat
      BY <1>0 DEF Written, Handlers
    <3> HIDE DEF e
    <3>8. Fits(e, hd, hd + k, socket)
      BY <3>7 DEF Fits
    <3>9. AllFit(q, hd, hd + k, socket)
      BY ReadsFit
    <3>10. OneWrite(Append(q, e)) /\ AllFit(Append(q, e), hd, hd + k, socket) /\ ~Reads(Append(q, e))
      BY <3>7, <3>8, <3>9, AppendToReady
    <3>11. OneWrite(ready') /\ AllFit(ready', hd, hd + k, socket) /\ ~Reads(ready')
      BY <3>1, <3>10 DEF e
    <3>12. writes' = <<>> /\ Len(writes') = 0 /\ ~NoWriteUnderWay'
      BY <2>2, <3>11 DEF NoWriteUnderWay, Reads
    <3>13. hd <= hd + k
      BY <1>0
    <3> QED BY <3>3, <3>11, <3>12, <3>13 DEF Bytes
  <2>3. CASE writes' = Append(writes, w) /\ ready' = q /\ wire' = wire
    <3>1. writes' = <<w>> /\ Len(writes') = 1 /\ writes' # <<>> /\ writes'[1] = w
      BY <2>3
    <3>2. OneWrite(q) /\ AllFit(q, hd, hd, socket)
      BY ReadsFit
    <3> QED BY <1>0, <2>3, <3>1, <3>2 DEF Bytes, WireIsPrefixOfSent, NoWriteUnderWay
  <2>4. CASE socket # "open" /\ ready' = Append(q, Written("error", 0)) /\ wire' = wire /\ writes' = writes
    <3> DEFINE e == Written("error", 0)
    <3>1. e.op = "written" /\ e.ec = "error" /\ e \in Handlers
      BY <1>0 DEF Written, Handlers
    <3> HIDE DEF e
    <3>2. Fits(e, hd, hd, socket) /\ AllFit(q, hd, hd, socket)
      BY <2>4, <3>1, ReadsFit DEF Fits
    <3>3. OneWrite(Append(q, e)) /\ AllFit(Append(q, e), hd, hd, socket)
      BY <3>1, <3>2, AppendToReady
    <3>4. OneWrite(ready') /\ AllFit(ready', hd, hd, socket)
      BY <2>4, <3>3 DEF e
    <3>5. Len(writes') = 0
      BY <2>4
    <3> QED BY <1>0, <2>4, <3>4, <3>5 DEF Bytes, WireIsPrefixOfSent
  <2>5. AsyncWrite(hd, sent - hd, q)
    BY <1>2 DEF WriteToSocket
  <2> QED BY <2>2, <2>3, <2>4, <2>5 DEF AsyncWrite
<1> QED BY <1>1, <1>2

(* close() with q left in the queue.                                       *)
LEMMA CloseBytes ==
    ASSUME TypeInv, Bytes, NEW q \in Seq(Handlers), OneWrite(q), AllFit(q, head, Len(wire), socket),
           writes # <<>> => Reads(q),
           NEW after \in Seq(Handlers), Reads(after), Close(q, after), UNCHANGED <<sent, head, wire>>
    PROVE  Bytes'
<1> DEFINE len == Len(wire)
           e == Written("aborted", 0)
           a == [i \in 1 .. Len(writes) |-> e]
           r == IF reading THEN <<HasRead("aborted")>> ELSE <<>>
<1>1. e \in Handlers /\ e.op = "written" /\ e.ec = "aborted"
  BY TcpConnAssumption DEF Written, Handlers
<1>2. Len(writes) \in Nat /\ Len(writes) <= 1 /\ (writes = <<>> => Len(writes) = 0) /\ reading \in BOOLEAN
  BY DEF TypeInv, TypeOK, Bytes
<1>3. r \in Seq(Handlers) /\ Reads(r)
  <2>1. HasRead("aborted") \in Handlers /\ HasRead("aborted").op = "read"
    BY TcpConnAssumption DEF HasRead, Handlers
  <2>2. <<HasRead("aborted")>> \in Seq(Handlers) /\ Reads(<<HasRead("aborted")>>)
    BY <2>1 DEF Reads
  <2>3. <<>> \in Seq(Handlers) /\ Reads(<<>>)
    BY DEF Reads
  <2> QED BY <2>2, <2>3
<1> HIDE DEF e, r
<1>4. a \in [1 .. Len(writes) -> Handlers]
  BY <1>1
<1>5. a \in Seq(Handlers) /\ Len(a) = Len(writes)
  BY <1>2, <1>4, FunctionIsSeq
<1>6. OneWrite(a) /\ AllFit(a, head, len, "closed") /\ (writes = <<>> => Reads(a))
  BY <1>1, <1>2 DEF OneWrite, AllFit, Fits, Reads
<1>7. ready' = q \o a \o r \o after /\ writes' = <<>> /\ socket' = "closed"
  BY DEF Close, e, r
<1> HIDE DEF a, len
<1>8. AllFit(q, head, len, "closed")
  BY DEF AllFit, Fits, len
<1>9. OneWrite(q \o a) /\ AllFit(q \o a, head, len, "closed") /\ q \o a \in Seq(Handlers)
  BY <1>5, <1>6, <1>8, ConcatOfReady, ConcatProperties
<1>10. AllFit(r, head, len, "closed") /\ AllFit(after, head, len, "closed")
  BY <1>3, ReadsFit
<1>11. OneWrite(q \o a \o r) /\ AllFit(q \o a \o r, head, len, "closed") /\ q \o a \o r \in Seq(Handlers)
  BY <1>3, <1>9, <1>10, ConcatOfReady, ConcatProperties
<1>12. OneWrite(q \o a \o r \o after) /\ AllFit(q \o a \o r \o after, head, len, "closed")
  BY <1>10, <1>11, ConcatOfReady
<1>13. OneWrite(ready') /\ AllFit(ready', head, len, "closed") /\ Len(writes') = 0
  BY <1>7, <1>12
<1> QED BY <1>7, <1>13 DEF Bytes, WireIsPrefixOfSent, len

(* Stop on the io thread, the handler at the head of the queue having run. *)
LEMMA StopBytes ==
    ASSUME TypeInv, Bytes, ready # <<>>, NEW after \in Seq(Handlers), Reads(after), Stop(Tail(ready), after),
           UNCHANGED <<sent, head, wire>>
    PROVE  Bytes'
<1> DEFINE q == Tail(ready)
<1>0. ready \in Seq(Handlers) /\ OneWrite(ready) /\ AllFit(ready, head, Len(wire), socket)
  BY DEF TypeInv, TypeOK, Handlers, Bytes
<1>1. q \in Seq(Handlers)
  BY <1>0, HeadTailProperties
<1>2. OneWrite(q) /\ AllFit(q, head, Len(wire), socket) /\ (Reads(ready) => Reads(q))
  BY <1>0, TailOfReady
<1>3. writes # <<>> => Reads(q)
  BY <1>2 DEF Bytes
<1> HIDE DEF q
<1>4. CASE Close(q, after)
  BY <1>1, <1>2, <1>3, <1>4, CloseBytes
<1>5. CASE socket \in {"closed", "reset"} /\ ready' = q /\ UNCHANGED <<socket, writes>>
  BY <1>2, <1>5, NothingWritten
<1> QED BY <1>4, <1>5 DEF Stop, q

(* Every step keeps ByteInv.                                               *)
LEMMA ByteStep == ByteInv /\ [Next]_vars => ByteInv'
<1> SUFFICES ASSUME ByteInv, [Next]_vars PROVE ByteInv'
  OBVIOUS
<1>0. TypeInv /\ TypeInv'
  BY TypeStep DEF ByteInv
<1>s. serial' => serial
  <2>1. CASE Next
    BY <2>1 DEF Next, Send, Handler, Socket, RunPosted, RunWritten, RunFailed, RunRead, RunReadAndStop, WriteReady, WriteFails,
                ReadReady, PeerShutdown, PeerReset, UserShutdown, UserReport, UserClose, bufVars
  <2> QED BY <2>1 DEF vars, bufVars
<1> SUFFICES ASSUME serial' PROVE Bytes'
  BY <1>0 DEF ByteInv
<1>b. Bytes
  BY <1>s DEF ByteInv
<1>t. /\ sent \in Nat /\ head \in 0 .. sent /\ ready \in Seq(Handlers) /\ writes \in Seq(WriteOps) /\ Len(wire) \in Nat
      /\ MaxBytes \in Nat /\ wire \in Seq(0 .. MaxBytes)
  BY <1>0, TcpConnAssumption DEF TypeInv, TypeOK, Handlers, WriteOps
<1>r. OneWrite(ready) /\ AllFit(ready, head, Len(wire), socket)
  BY <1>b DEF Bytes
<1>1. ASSUME NEW k \in 1 .. MaxBytes, Send(k) PROVE Bytes'
  <2>1. /\ sent' = sent + k /\ head = sent /\ writes = <<>> /\ Reads(ready) /\ ready' = Append(ready, Posted)
        /\ UNCHANGED <<head, wire, socket>>
    BY <1>1 DEF Send, WriteIdle, NoWriteUnderWay, Reads
  <2>2. writes' = <<>> /\ Len(writes') = 0
    <3>1. PICK moved \in BOOLEAN : writes' = [i \in DOMAIN writes |-> [writes[i] EXCEPT !.valid = @ /\ ~moved]]
      BY <1>1 DEF Send
    <3>2. DOMAIN writes = {}
      BY <2>1
    <3> QED BY <2>1, <3>1, <3>2
  <2>3. Len(wire) = head
    <3>1. head <= Len(wire) /\ Len(wire) <= sent
      BY <1>b DEF Bytes, WireIsPrefixOfSent
    <3> QED BY <1>t, <2>1, <3>1
  <2>4. Posted \in Handlers /\ Posted.op = "post"
    BY <1>t DEF Posted, Handlers
  <2>5. Fits(Posted, head, Len(wire), socket)
    BY <2>3, <2>4 DEF Fits
  <2>6. OneWrite(ready') /\ AllFit(ready', head, Len(wire), socket) /\ ~Reads(ready')
    BY <1>t, <1>r, <2>1, <2>4, <2>5, AppendToReady
  <2>7. WireIsPrefixOfSent' /\ head' <= Len(wire')
    BY <1>b, <1>t, <2>1 DEF Bytes, WireIsPrefixOfSent
  <2>8. ~NoWriteUnderWay'
    BY <2>6 DEF NoWriteUnderWay, Reads
  <2> QED BY <2>1, <2>2, <2>6, <2>7, <2>8 DEF Bytes
<1>2. ASSUME RunPosted PROVE Bytes'
  <2>1. /\ ready # <<>> /\ Head(ready).op = "post" /\ WriteToSocket(head, Tail(ready))
        /\ UNCHANGED <<sent, head, socket>>
    BY <1>2 DEF RunPosted, Runs, bufVars
  <2>2. Reads(Tail(ready)) /\ Fits(Head(ready), head, Len(wire), socket) /\ Tail(ready) \in Seq(Handlers)
    BY <1>t, <1>r, <2>1, TailOfReady, HeadTailProperties
  <2>3. Len(wire) = head
    BY <2>1, <2>2 DEF Fits
  <2>4. ~Reads(ready)
    BY <1>t, <2>1 DEF Reads
  <2>5. writes = <<>> /\ WireIsPrefixOfSent
    BY <1>b, <2>4 DEF Bytes
  <2> QED BY <1>0, <1>t, <2>1, <2>2, <2>3, <2>5, WriteToSocketBytes
<1>3. ASSUME RunWritten PROVE Bytes'
  <2> DEFINE n == Head(ready).n
             hd == Retrive(n)
  <2>1. /\ ready # <<>> /\ Head(ready).op = "written" /\ Head(ready).ec = "ok" /\ WriteToSocket(hd, Tail(ready))
        /\ head' = hd /\ UNCHANGED <<sent, socket>>
    BY <1>3 DEF RunWritten, Runs
  <2>2. /\ Reads(Tail(ready)) /\ Fits(Head(ready), head, Len(wire), socket) /\ Tail(ready) \in Seq(Handlers)
        /\ Head(ready) \in Handlers
    BY <1>t, <1>r, <2>1, TailOfReady, HeadTailProperties
  <2>3. Len(wire) = head + n /\ n \in Nat
    BY <1>t, <2>1, <2>2 DEF Fits, Handlers
  <2>4. ~Reads(ready)
    BY <1>t, <2>1 DEF Reads
  <2>5. writes = <<>> /\ WireIsPrefixOfSent /\ Len(wire) <= sent
    BY <1>b, <2>4 DEF Bytes, WireIsPrefixOfSent
  <2>6. hd = Len(wire) /\ hd \in 0 .. sent
    BY <1>t, <2>3, <2>5 DEF Retrive
  <2> HIDE DEF hd, n
  <2> QED BY <1>0, <2>1, <2>2, <2>5, <2>6, WriteToSocketBytes
<1>4. ASSUME RunFailed PROVE Bytes'
  <2>1. ready # <<>> /\ Head(ready).op \in {"written", "read"} /\ UNCHANGED <<sent, head, wire>>
    BY <1>4 DEF RunFailed, Runs, bufVars
  <2>2. CASE Stop(Tail(ready), <<>>)
    <3>1. <<>> \in Seq(Handlers) /\ Reads(<<>>)
      BY DEF Reads
    <3> QED BY <1>0, <1>b, <2>1, <2>2, <3>1, StopBytes
  <2>3. CASE Head(ready).ec = "aborted" /\ ready' = Tail(ready) /\ UNCHANGED <<socket, writes>>
    <3>1. /\ OneWrite(ready') /\ AllFit(ready', head, Len(wire), socket) /\ Fits(Head(ready), head, Len(wire), socket)
          /\ Reads(ready) => Reads(ready')
          /\ Head(ready).op = "read" => (Reads(ready') => Reads(ready))
      BY <1>t, <1>r, <2>1, <2>3, TailOfReady
    <3>2. Head(ready).op = "written" => socket # "open"
      BY <2>3, <3>1 DEF Fits
    <3> QED BY <1>0, <1>b, <2>1, <2>3, <3>1, <3>2, NothingWritten
  <2> QED BY <1>4, <2>2, <2>3 DEF RunFailed
<1>5. ASSUME RunRead PROVE Bytes'
  <2>1. ready # <<>> /\ Head(ready).op = "read" /\ UNCHANGED <<sent, head, wire, writes, socket>>
    BY <1>5 DEF RunRead, Runs, bufVars
  <2>2. /\ OneWrite(Tail(ready)) /\ AllFit(Tail(ready), head, Len(wire), socket)
        /\ Reads(ready) <=> Reads(Tail(ready))
    BY <1>t, <1>r, <2>1, TailOfReady
  <2>3. CASE ready' = Tail(ready)
    BY <1>0, <1>b, <2>1, <2>2, <2>3, NothingWritten
  <2>4. CASE ready' = Append(Tail(ready), HasRead("error"))
    <3>1. HasRead("error") \in Handlers /\ HasRead("error").op = "read" /\ Tail(ready) \in Seq(Handlers)
      BY <1>t, <2>1, HeadTailProperties DEF HasRead, Handlers
    <3>2. Fits(HasRead("error"), head, Len(wire), socket)
      BY <3>1 DEF Fits
    <3>3. OneWrite(ready') /\ AllFit(ready', head, Len(wire), socket) /\ (Reads(ready') <=> Reads(ready))
      BY <2>2, <2>4, <3>1, <3>2, AppendToReady
    <3> QED BY <1>0, <1>b, <2>1, <3>3, NothingWritten
  <2> QED BY <1>5, <2>3, <2>4 DEF RunRead
<1>6. ASSUME RunReadAndStop PROVE Bytes'
  <2>1. ready # <<>> /\ Stop(Tail(ready), <<HasRead("error")>>) /\ UNCHANGED <<sent, head, wire>>
    BY <1>6 DEF RunReadAndStop, Runs, bufVars
  <2>2. HasRead("error") \in Handlers /\ HasRead("error").op = "read"
    BY <1>t DEF HasRead, Handlers
  <2>3. <<HasRead("error")>> \in Seq(Handlers) /\ Reads(<<HasRead("error")>>)
    BY <2>2 DEF Reads
  <2> QED BY <1>0, <1>b, <2>1, <2>3, StopBytes
<1>7. ASSUME WriteReady PROVE Bytes'
  <2> DEFINE w == Head(writes)
  <2>1. PICK k \in 1 .. w.n : wire' = wire \o Taken(w, k) /\ ready' = Append(ready, Written("ok", k))
    BY <1>7 DEF WriteReady
  <2>2. /\ writes # <<>> /\ writes' = Tail(writes) /\ UNCHANGED <<sent, head, socket>>
    BY <1>7 DEF WriteReady, bufVars
  <2>3. /\ Reads(ready) /\ head = Len(wire) /\ Len(writes) <= 1 /\ WireIsPrefixOfSent
        /\ w = [from |-> head, n |-> sent - head, valid |-> TRUE]
    BY <1>b, <1>t, <2>2 DEF Bytes
  <2>4. w \in WriteOps /\ w.from = head /\ w.n = sent - head /\ w.valid = TRUE
    BY <1>t, <2>2, <2>3, HeadTailProperties
  <2>5. writes' = <<>> /\ Len(writes') = 0
    BY <1>t, <2>2, <2>3, TailOfOne
  <2> HIDE DEF w
  <2>6. k \in Nat /\ w.from + w.n <= sent /\ head + k <= sent /\ sent \in 0 .. MaxBytes
    BY <1>0, <1>t, <2>4 DEF TypeInv, TypeOK
  <2>7. /\ Taken(w, k) \in Seq(0 .. MaxBytes) /\ Len(Taken(w, k)) = k
        /\ \A i \in 1 .. k : Taken(w, k)[i] = head + i
    BY <2>4, <2>6, TakenType
  <2>8. Len(wire') = head + k /\ WireIsPrefixOfSent'
    BY <1>t, <2>1, <2>2, <2>3, <2>6, <2>7, WireGrows
  <2> DEFINE e == Written("ok", k)
  <2>9. e.op = "written" /\ e.ec = "ok" /\ e.n = k /\ e \in Handlers
    BY <1>t, <2>6 DEF Written, Handlers
  <2> HIDE DEF e
  <2>10. Fits(e, head, head + k, socket) /\ AllFit(ready, head, head + k, socket)
    BY <2>3, <2>9, ReadsFit DEF Fits
  <2>11. OneWrite(Append(ready, e)) /\ AllFit(Append(ready, e), head, head + k, socket) /\ ~Reads(Append(ready, e))
    BY <1>t, <2>3, <2>9, <2>10, AppendToReady
  <2>12. OneWrite(ready') /\ AllFit(ready', head, head + k, socket) /\ ~Reads(ready')
    BY <2>1, <2>11 DEF e
  <2>13. ~NoWriteUnderWay' /\ head <= head + k
    BY <1>t, <2>6, <2>12 DEF NoWriteUnderWay, Reads
  <2>14. AllFit(ready', head', Len(wire'), socket') /\ head' <= Len(wire')
    BY <2>2, <2>8, <2>12, <2>13
  <2> QED BY <2>5, <2>8, <2>12, <2>13, <2>14 DEF Bytes
<1>8. ASSUME WriteFails PROVE Bytes'
  <2> DEFINE e == Written("error", 0)
  <2>1. /\ writes # <<>> /\ writes' = Tail(writes) /\ ready' = Append(ready, e) /\ socket # "open"
        /\ UNCHANGED <<sent, head, wire, socket>>
    BY <1>8 DEF WriteFails, bufVars
  <2>2. Reads(ready) /\ Len(writes) <= 1 /\ head <= Len(wire) /\ WireIsPrefixOfSent
    BY <1>b, <2>1 DEF Bytes
  <2>3. writes' = <<>> /\ Len(writes') = 0
    BY <1>t, <2>1, <2>2, TailOfOne
  <2>4. e.op = "written" /\ e.ec = "error" /\ e \in Handlers
    BY <1>t DEF Written, Handlers
  <2> HIDE DEF e
  <2>5. Fits(e, head, Len(wire), socket)
    BY <2>1, <2>4 DEF Fits
  <2>6. OneWrite(ready') /\ AllFit(ready', head, Len(wire), socket)
    BY <1>t, <1>r, <2>1, <2>2, <2>4, <2>5, AppendToReady
  <2> QED BY <2>1, <2>2, <2>3, <2>6 DEF Bytes, WireIsPrefixOfSent
<1>9. ASSUME NEW ec \in {"ok", "error"}, ReadReady(ec) PROVE Bytes'
  <2>1. ready' = Append(ready, HasRead(ec)) /\ UNCHANGED <<sent, head, wire, writes, socket>>
    BY <1>9 DEF ReadReady, bufVars
  <2>2. HasRead(ec) \in Handlers /\ HasRead(ec).op = "read"
    BY <1>t DEF HasRead, Handlers
  <2>3. Fits(HasRead(ec), head, Len(wire), socket)
    BY <2>2 DEF Fits
  <2>4. OneWrite(ready') /\ AllFit(ready', head, Len(wire), socket) /\ (Reads(ready') <=> Reads(ready))
    BY <1>t, <1>r, <2>1, <2>2, <2>3, AppendToReady
  <2> QED BY <1>0, <1>b, <2>1, <2>4, NothingWritten
<1>10. ASSUME PeerShutdown \/ PeerReset \/ UserShutdown \/ UserReport PROVE Bytes'
  <2>1. UNCHANGED <<sent, head, wire, writes, ready>> /\ (socket' = socket \/ socket' # "open")
    BY <1>10 DEF PeerShutdown, PeerReset, UserShutdown, UserReport, bufVars, sockVars
  <2> QED BY <1>0, <1>b, <1>r, <2>1, NothingWritten
<1>11. ASSUME UserClose PROVE Bytes'
  <2>1. UNCHANGED <<sent, head, wire>>
    BY <1>11 DEF UserClose, bufVars
  <2>2. CASE UNCHANGED <<socket, writes, ready>>
    BY <1>0, <1>b, <1>r, <2>1, <2>2, NothingWritten
  <2>3. CASE Close(ready, <<>>)
    <3>1. <<>> \in Seq(Handlers) /\ Reads(<<>>) /\ (writes # <<>> => Reads(ready))
      BY <1>b DEF Reads, Bytes
    <3> QED BY <1>0, <1>b, <1>r, <1>t, <2>1, <2>3, <3>1, CloseBytes
  <2> QED BY <1>11, <2>2, <2>3 DEF UserClose
<1>12. CASE UNCHANGED vars
  BY <1>0, <1>b, <1>r, <1>12, NothingWritten DEF vars, bufVars, sockVars
<1> QED
  BY <1>1, <1>2, <1>3, <1>4, <1>5, <1>6, <1>7, <1>8, <1>9, <1>10, <1>11, <1>12 DEF Next, Handler, Socket

(* Across partial writes, failures and stops every byte given to Send is   *)
(* in output_buffer_ or on the wire, in its place, and none stays behind   *)
(* while nothing is under way, as long as Sends are serial.                *)
THEOREM BytesAreKept == Spec => []NoByteIsLost
<1>1. Init => ByteInv
  <2> SUFFICES ASSUME Init PROVE ByteInv
    OBVIOUS
  <2>1. TypeInv
    BY TypeInit
  <2>2. /\ sent = 0 /\ head = 0 /\ wire = <<>> /\ Len(wire) = 0 /\ writes = <<>> /\ Len(writes) = 0 /\ ready = <<>>
        /\ DOMAIN ready = {}
    BY DEF Init
  <2>3. WireIsPrefixOfSent
    BY <2>2 DEF WireIsPrefixOfSent
  <2> QED BY <2>1, <2>2, <2>3 DEF ByteInv, Bytes, OneWrite, AllFit
<1>2. ByteInv => NoByteIsLost
  <2> SUFFICES ASSUME ByteInv, serial PROVE NoByteIsLost
    BY DEF NoByteIsLost, SerialSendsArrive, BufferedUntilWritten
  <2>1. Bytes /\ sent \in Nat /\ Len(wire) \in Nat /\ head \in Nat
    BY TcpConnAssumption DEF ByteInv, TypeInv, TypeOK
  <2>2. Len(wire) <= sent /\ head <= Len(wire) /\ WireIsPrefixOfSent
    BY <2>1 DEF Bytes, WireIsPrefixOfSent
  <2>3. (NoWriteUnderWay /\ socket = "open") => (head = sent /\ Len(wire) = sent)
    BY <2>1, <2>2 DEF Bytes
  <2> QED BY <2>2, <2>3 DEF NoByteIsLost, SerialSendsArrive, BufferedUntilWritten
<1> QED BY <1>1, <1>2, ByteStep, PTL DEF Spec
=============================================================================
