------------------------------ MODULE BusProofs ------------------------------
(***************************************************************************)
(* Proofs about Bus for every set of clients, names and methods: the types *)
(* are kept, an answer comes from the provider that was asked even when    *)
(* clients restart under their old names, it answers a request of the      *)
(* client that receives it if no other client has that client's name, and  *)
(* a call is answered once, also when overlapping Sends repeat and lose    *)
(* messages.  While no Sends have overlapped, a call is on the bus at most *)
(* once, and a started client that is connected has a way back for its     *)
(* answers.                                                                *)
(***************************************************************************)
EXTENDS Bus, SequenceTheorems, FiniteSetTheorems, TLAPS

-----------------------------------------------------------------------------
(* What sending and consuming do to the channels of one direction.         *)

Channels == [Clients -> Seq(Msg)]

(* Every message on a connection d, or left in its output buffer, is one   *)
(* of S[d].                                                                *)
Carry(ch, out, S) ==
    /\ ch \in Channels /\ out \in Channels
    /\ \A d \in Clients : ch[d] \in Seq(S[d]) /\ out[d] \in Seq(S[d])

(* What an overlapping Send writes are messages it found or was given.     *)
LEMMA RewrittenFrom ==
    ASSUME NEW T, NEW b \in Seq(T), NEW m \in T, NEW w \in Rewritten(b, m)
    PROVE  w \in Seq(T)
<1>0. PICK k \in 1 .. Len(b) + 1 : w \in {SubSeq(b, k, Len(b)) \o t : t \in {<<>>, <<m>>, <<m, m>>}}
  BY DEF Rewritten
<1>1. PICK t \in {<<>>, <<m>>, <<m, m>>} : w = SubSeq(b, k, Len(b)) \o t
  BY <1>0
<1>2. t \in Seq(T)
  <2>1. <<>> \in Seq(T) /\ <<m>> \in Seq(T) /\ <<m, m>> \in Seq(T)
    OBVIOUS
  <2> QED BY <2>1
<1>3. SubSeq(b, k, Len(b)) \in Seq(T)
  <2>1. Len(b) \in Nat /\ \A i \in 1 .. Len(b) : b[i] \in T
    OBVIOUS
  <2>2. Len(b) \in Int /\ k \in Int /\ 1 <= k
    BY <2>1
  <2>3. \A i \in k .. Len(b) : b[i] \in T
    BY <2>1, <2>2
  <2> QED BY <2>2, <2>3, SubSeqProperties, Zenon
<1> QED BY <1>1, <1>2, <1>3

LEMMA AppendIn ==
    ASSUME NEW T, NEW s \in Seq(T), NEW m \in T
    PROVE  Append(s, m) \in Seq(T) /\ <<m>> \in Seq(T)
OBVIOUS

LEMMA JoinIn == ASSUME NEW T, NEW s \in Seq(T), NEW t \in Seq(T) PROVE s \o t \in Seq(T)
OBVIOUS

(* Sending, in turn or overlapping, carries what was there and m.          *)
LEMMA SendCarries ==
    ASSUME NEW ch, NEW out, NEW S, Carry(ch, out, S), NEW c \in Clients, NEW m \in S[c],
           \A d \in Clients : S[d] \subseteq Msg,
           NEW new, NEW newout, Send(ch, out, c, m, new, newout)
    PROVE  Carry(new, newout, S)
<1>0. /\ ch[c] \in Seq(S[c]) /\ out[c] \in Seq(S[c]) /\ S[c] \subseteq Msg
      /\ ch \in Channels /\ out \in Channels
  BY DEF Carry
<1>1. ASSUME NEW q \in Seq(S[c]), NEW b \in Seq(S[c]),
             new = [ch EXCEPT ![c] = q], newout = [out EXCEPT ![c] = b]
      PROVE  Carry(new, newout, S)
  <2>1. q \in Seq(Msg) /\ b \in Seq(Msg)
    BY <1>0
  <2>2. new \in Channels /\ newout \in Channels
    BY <1>0, <1>1, <2>1 DEF Channels
  <2>3. \A d \in Clients : /\ new[d] = IF d = c THEN q ELSE ch[d]
                           /\ newout[d] = IF d = c THEN b ELSE out[d]
    BY <1>0, <1>1 DEF Channels
  <2> QED BY <2>2, <2>3 DEF Carry
<1>2. CASE link[c] # "up"
  BY <1>2 DEF Send
<1>3. CASE SendInTurn(ch, out, c, m, new, newout)
  <2>1. Append(ch[c], m) \in Seq(S[c]) /\ <<m>> \in Seq(S[c])
    BY <1>0, AppendIn
  <2>2. new = [ch EXCEPT ![c] = Append(ch[c], m)] /\ newout = [out EXCEPT ![c] = <<m>>]
    BY <1>3 DEF SendInTurn
  <2> QED BY <1>1, <2>1, <2>2
<1>4. CASE SendOverlapping(ch, out, c, m, new, newout)
  <2>1. PICK w \in Rewritten(out[c], m) : new = [ch EXCEPT ![c] = @ \o w]
    BY <1>4 DEF SendOverlapping
  <2>2. w \in Seq(S[c])
    BY <1>0, RewrittenFrom
  <2>3. ch[c] \o w \in Seq(S[c]) /\ Append(out[c], m) \in Seq(S[c])
    BY <1>0, <2>2, AppendIn, JoinIn
  <2>4. new = [ch EXCEPT ![c] = ch[c] \o w] /\ newout = [out EXCEPT ![c] = Append(out[c], m)]
    BY <1>4, <2>1 DEF SendOverlapping
  <2> QED BY <1>1, <2>3, <2>4
<1> QED BY <1>2, <1>3, <1>4 DEF Send

(* Send keeps the counter of overlaps within its bound.                    *)
LEMMA SendCounts ==
    ASSUME overlaps \in 0 .. MaxOverlaps, lockstep \in BOOLEAN,
           NEW ch, NEW out, NEW c, NEW m, NEW new, NEW newout, Send(ch, out, c, m, new, newout)
    PROVE  overlaps' \in 0 .. MaxOverlaps /\ lockstep' \in BOOLEAN
<1>1. CASE UNCHANGED overlaps /\ lockstep' \in {lockstep, lockstep /\ ch[c] = <<>>}
  BY <1>1, Zenon
<1>2. CASE overlaps < MaxOverlaps /\ overlaps' = overlaps + 1 /\ lockstep' = FALSE
  <2>1. overlaps' \in 0 .. MaxOverlaps
    BY <1>2, OverlapAssumption
  <2> QED BY <1>2, <2>1
<1> QED BY <1>1, <1>2, Zenon DEF Send, SendInTurn, SendOverlapping

(* Consuming the head leaves messages that were there.                     *)
LEMMA ConsumeCarries ==
    ASSUME NEW ch, NEW out, NEW S, Carry(ch, out, S), NEW c \in Clients, ch[c] # <<>>
    PROVE  Carry(Consumed(ch, c), out, S) /\ Head(ch[c]) \in S[c]
<1>1. ch[c] \in Seq(S[c]) /\ ch[c] \in Seq(Msg)
  BY DEF Carry, Channels
<1>2. Tail(ch[c]) \in Seq(S[c]) /\ Tail(ch[c]) \in Seq(Msg) /\ Head(ch[c]) \in S[c]
  BY <1>1, HeadTailProperties
<1> QED BY <1>2 DEF Carry, Channels, Consumed

(* A connection that breaks carries nothing.                               *)
LEMMA ClearCarries ==
    ASSUME NEW ch, NEW out, NEW S, Carry(ch, out, S), NEW c \in Clients
    PROVE  Carry([ch EXCEPT ![c] = <<>>], [out EXCEPT ![c] = <<>>], S)
<1> DEFINE new == [ch EXCEPT ![c] = <<>>]
           newout == [out EXCEPT ![c] = <<>>]
<1>1. <<>> \in Seq(Msg) /\ \A d \in Clients : <<>> \in Seq(S[d])
  OBVIOUS
<1>2. ch \in Channels /\ out \in Channels
  BY DEF Carry
<1>3. new \in Channels /\ newout \in Channels
  BY <1>1, <1>2 DEF Channels
<1>4. \A d \in Clients : /\ new[d] = IF d = c THEN <<>> ELSE ch[d]
                         /\ newout[d] = IF d = c THEN <<>> ELSE out[d]
  BY <1>2 DEF Channels
<1> HIDE DEF new, newout
<1>5. \A d \in Clients : new[d] \in Seq(S[d]) /\ newout[d] \in Seq(S[d])
  BY <1>1, <1>4 DEF Carry
<1>6. Carry(new, newout, S)
  BY <1>3, <1>5 DEF Carry
<1> QED BY <1>6 DEF new, newout

(* Every message of a channel is one that the connection may carry.        *)
LEMMA Carried ==
    ASSUME NEW ch, NEW out, NEW S, Carry(ch, out, S), NEW c \in Clients, NEW k \in 1 .. Len(ch[c])
    PROVE  ch[c][k] \in S[c]
<1>1. ch[c] \in Seq(S[c])
  BY DEF Carry
<1> QED BY <1>1

(* The head of a non-empty channel is one of its messages.                 *)
LEMMA HeadElement ==
    ASSUME NEW ch \in Channels, NEW c \in Clients, ch[c] # <<>>
    PROVE  Head(ch[c]) \in Msg /\ 1 \in 1 .. Len(ch[c]) /\ Head(ch[c]) = ch[c][1]
BY DEF Channels

-----------------------------------------------------------------------------
(* The inductive invariant: what every message in flight may look like.    *)

(* A route leads to a client of that name.                                 *)
HonestRoutes == \A n \in Names : router[n] \in Clients => NameOf[router[n]] = n

(* A response was made by the service that was asked.                      *)
ServedByAsked(m) ==
    IF m.asked \in {EmptyName, SvcMgr}
    THEN m.by = Server
    ELSE m.by \in Clients /\ NameOf[m.by] = m.asked

(* On its way from client c to the server: c's own request, or c's         *)
(* response to a request for c.                                            *)
FromClient(c, m) ==
    /\ m.caller = NameOf[m.origin]
    /\ m.req => (m.origin = c /\ m.asked = m.provider /\ m.arg \in {NameOf[c], EmptyName})
    /\ ~m.req => (m.by = c /\ m.asked = NameOf[c])

(* On its way from the server to client c: a request for c, or a response  *)
(* to a client of c's name.                                                *)
ToClient(c, m) ==
    /\ m.caller = NameOf[m.origin]
    /\ m.req => m.asked = NameOf[c]
    /\ ~m.req => (m.caller = NameOf[c] /\ ServedByAsked(m))

From == [c \in Clients |-> {m \in Msg : FromClient(c, m)}]
To == [c \in Clients |-> {m \in Msg : ToClient(c, m)}]

C2sInv == Carry(c2s, c_out, From)
S2cInv == Carry(s2c, s_out, To)
AnswerInv ==
    \A c \in Clients : \A m \in answers[c] : NameOf[m.origin] = NameOf[c] /\ ServedByAsked(m)

BusInv == TypeOK /\ HonestRoutes /\ C2sInv /\ S2cInv /\ AnswerInv

(* The bus starts with no route and empty channels.                        *)
LEMMA BusInit == Init => BusInv
<1> SUFFICES ASSUME Init PROVE BusInv
  OBVIOUS
<1>1. TypeOK
  BY MaxCallsAssumption, OverlapAssumption DEF Init, TypeOK, Ids
<1>2. HonestRoutes /\ AnswerInv
  BY ClientAssumption DEF Init, HonestRoutes, AnswerInv
<1>3. C2sInv /\ S2cInv
  BY DEF Init, C2sInv, S2cInv, Carry, Channels
<1> QED BY <1>1, <1>2, <1>3 DEF BusInv

(* A client sends only its own requests and its own responses.             *)
LEMMA ProduceC2s ==
    ASSUME BusInv, NEW c \in Clients, NEW m \in Msg, FromClient(c, m),
           Send(c2s, c_out, c, m, c2s', c_out')
    PROVE  C2sInv' /\ overlaps' \in 0 .. MaxOverlaps /\ lockstep' \in BOOLEAN
<1>1. m \in From[c] /\ \A d \in Clients : From[d] \subseteq Msg
  BY DEF From
<1>2. Carry(c2s', c_out', From)
  BY <1>1, SendCarries DEF BusInv, C2sInv
<1>3. overlaps' \in 0 .. MaxOverlaps /\ lockstep' \in BOOLEAN
  BY SendCounts DEF BusInv, TypeOK
<1> QED BY <1>2, <1>3 DEF C2sInv, From

(* The server sends a client only messages that are meant for it.          *)
LEMMA ProduceS2c ==
    ASSUME BusInv, NEW c \in Clients, NEW m \in Msg, ToClient(c, m),
           Send(s2c, s_out, c, m, s2c', s_out')
    PROVE  S2cInv' /\ overlaps' \in 0 .. MaxOverlaps /\ lockstep' \in BOOLEAN
<1>1. m \in To[c] /\ \A d \in Clients : To[d] \subseteq Msg
  BY DEF To
<1>2. Carry(s2c', s_out', To)
  BY <1>1, SendCarries DEF BusInv, S2cInv
<1>3. overlaps' \in 0 .. MaxOverlaps /\ lockstep' \in BOOLEAN
  BY SendCounts DEF BusInv, TypeOK
<1> QED BY <1>2, <1>3 DEF S2cInv, To

(* A new request keeps the types and the shape of the client's channel.    *)
LEMMA InvokeStep ==
    ASSUME BusInv, NEW c \in Clients, NEW p \in Providers, NEW m \in AllMethods,
           NEW arg \in {NameOf[c], EmptyName}, Invoke(c, p, m, arg)
    PROVE  /\ C2sInv' /\ s_out' = s_out
           /\ overlaps' \in 0 .. MaxOverlaps /\ lockstep' \in BOOLEAN
           /\ next_id' \in [Clients -> 1 .. (MaxCalls + 1)]
           /\ waiting' \in [Clients -> SUBSET Ids]
           /\ next_id[c] \in Ids
<1>0. next_id[c] \in Ids
  <2>1. next_id[c] \in 1 .. (MaxCalls + 1) /\ Quota[c] \in 0 .. MaxCalls
    BY MaxCallsAssumption DEF BusInv, TypeOK
  <2>2. next_id[c] <= Quota[c]
    BY DEF Invoke
  <2> QED BY <2>1, <2>2, MaxCallsAssumption DEF Ids
<1> DEFINE req == [req |-> TRUE, id |-> next_id[c], caller |-> NameOf[c], provider |-> p,
                   method |-> m, arg |-> arg, ret |-> "",
                   origin |-> c, asked |-> p, by |-> nullconn]
<1>1. req \in Msg
  BY <1>0, NameAssumption DEF Msg, Providers
<1>2. FromClient(c, req)
  BY DEF FromClient
<1>3. Send(c2s, c_out, c, req, c2s', c_out') /\ s_out' = s_out
  BY DEF Invoke
<1> HIDE DEF req
<1>4. C2sInv' /\ overlaps' \in 0 .. MaxOverlaps /\ lockstep' \in BOOLEAN
  BY <1>1, <1>2, <1>3, ProduceC2s
<1>5. /\ next_id[c] \in Ids
      /\ next_id' = [next_id EXCEPT ![c] = next_id[c] + 1]
      /\ waiting' = [waiting EXCEPT ![c] = waiting[c] \cup {next_id[c]}]
  BY <1>0 DEF Invoke
<1>6. next_id' \in [Clients -> 1 .. (MaxCalls + 1)]
  <2>1. next_id[c] + 1 \in 1 .. (MaxCalls + 1)
    BY <1>5, MaxCallsAssumption DEF Ids
  <2> QED BY <1>5, <2>1 DEF BusInv, TypeOK
<1>7. waiting' \in [Clients -> SUBSET Ids]
  BY <1>5 DEF BusInv, TypeOK
<1> QED BY <1>3, <1>4, <1>5, <1>6, <1>7

(* Serving a request makes a well-typed response to it.                    *)
LEMMA ServeMsgShape ==
    ASSUME NEW req \in Msg, NEW served, NEW by \in Clients \cup {Server}
    PROVE  LET resp == ServeMsg(req, served, by) IN
           /\ resp \in Msg /\ ~resp.req
           /\ resp.caller = req.caller /\ resp.origin = req.origin
           /\ resp.asked = req.asked /\ resp.by = by
BY DEF ServeMsg, Msg, Providers, AllMethods

(* The head of a channel is a message of its kind, and consuming it keeps  *)
(* what is known of the others.                                            *)
LEMMA ConsumeC2s ==
    ASSUME BusInv, NEW c \in Clients, c2s[c] # <<>>, c2s' = Consumed(c2s, c), c_out' = c_out
    PROVE  C2sInv' /\ Head(c2s[c]) \in Msg /\ FromClient(c, Head(c2s[c]))
<1>1. Carry(c2s', c_out', From) /\ Head(c2s[c]) \in From[c]
  BY ConsumeCarries DEF BusInv, C2sInv
<1> QED BY <1>1 DEF C2sInv, From

LEMMA ConsumeS2c ==
    ASSUME BusInv, NEW c \in Clients, s2c[c] # <<>>, s2c' = Consumed(s2c, c), s_out' = s_out
    PROVE  S2cInv' /\ Head(s2c[c]) \in Msg /\ ToClient(c, Head(s2c[c]))
<1>1. Carry(s2c', s_out', To) /\ Head(s2c[c]) \in To[c]
  BY ConsumeCarries DEF BusInv, S2cInv
<1> QED BY <1>1 DEF S2cInv, To

(* The invariant speaks of these parts of the state; this is what a step   *)
(* must establish about them.                                              *)
LEMMA BusInvParts ==
    ASSUME link' \in [Clients -> {"new", "up", "closed"}],
           overlaps' \in 0 .. MaxOverlaps, lockstep' \in BOOLEAN,
           router' \in [Names \cup {EmptyName} -> Clients \cup {nullconn}],
           methods' \in [Clients -> SUBSET Methods],
           next_id' \in [Clients -> 1 .. (MaxCalls + 1)],
           waiting' \in [Clients -> SUBSET Ids],
           regid' \in [Clients -> 0 .. MaxCalls],
           answers' \in [Clients -> SUBSET Msg],
           HonestRoutes', C2sInv', S2cInv', AnswerInv'
    PROVE  BusInv'
<1>1. /\ c2s' \in [Clients -> Seq(Msg)] /\ s2c' \in [Clients -> Seq(Msg)]
      /\ c_out' \in [Clients -> Seq(Msg)] /\ s_out' \in [Clients -> Seq(Msg)]
  BY DEF C2sInv, S2cInv, Carry, Channels
<1> QED BY <1>1 DEF BusInv, TypeOK

(* Every operation of a client and every handler of the server keeps it.   *)
LEMMA BusStep == BusInv /\ [Next]_vars => BusInv'
<1> SUFFICES ASSUME BusInv, [Next]_vars PROVE BusInv'
  OBVIOUS
<1>0. TypeOK /\ HonestRoutes /\ C2sInv /\ S2cInv /\ AnswerInv
  BY DEF BusInv
<1>a. UNCHANGED <<c2s, c_out>> => C2sInv'
  BY <1>0 DEF C2sInv, From
<1>b. UNCHANGED <<s2c, s_out>> => S2cInv'
  BY <1>0 DEF S2cInv, To
<1>1. ASSUME NEW c \in Clients, Connect(c) PROVE BusInv'
  <2>1. UNCHANGED <<c2s, s2c, c_out, s_out, overlaps, lockstep, router, methods, next_id,
                    waiting, regid, answers>>
    BY <1>1 DEF Connect, outVars, clientVars
  <2>2. link' \in [Clients -> {"new", "up", "closed"}]
    BY <1>0, <1>1 DEF Connect, TypeOK
  <2> QED BY <1>0, <1>a, <1>b, <2>1, <2>2, BusInvParts DEF TypeOK, HonestRoutes, AnswerInv
<1>2. ASSUME NEW c \in Clients, Start(c) PROVE BusInv'
  <2>1. UNCHANGED <<link, s2c, router, methods, answers>>
    BY <1>2 DEF Start
  <2>2. /\ C2sInv' /\ s_out' = s_out
        /\ overlaps' \in 0 .. MaxOverlaps /\ lockstep' \in BOOLEAN
        /\ next_id' \in [Clients -> 1 .. (MaxCalls + 1)]
        /\ waiting' \in [Clients -> SUBSET Ids]
        /\ next_id[c] \in Ids
    BY <1>2, InvokeStep DEF Start, Providers, AllMethods, LocalMethods
  <2>3. regid' \in [Clients -> 0 .. MaxCalls]
    BY <1>0, <1>2, <2>2, MaxCallsAssumption DEF Start, TypeOK, Ids
  <2> QED BY <1>0, <1>b, <2>1, <2>2, <2>3, BusInvParts DEF TypeOK, HonestRoutes, AnswerInv
<1>3. ASSUME NEW c \in Clients, NEW m \in Methods, AddMethod(c, m) PROVE BusInv'
  <2>1. UNCHANGED <<link, s2c, router, regid, answers>>
    BY <1>3 DEF AddMethod
  <2>2. /\ C2sInv' /\ s_out' = s_out
        /\ overlaps' \in 0 .. MaxOverlaps /\ lockstep' \in BOOLEAN
        /\ next_id' \in [Clients -> 1 .. (MaxCalls + 1)]
        /\ waiting' \in [Clients -> SUBSET Ids]
    BY <1>3, InvokeStep DEF AddMethod, Providers, AllMethods
  <2>3. methods' \in [Clients -> SUBSET Methods]
    BY <1>0, <1>3 DEF AddMethod, TypeOK
  <2> QED BY <1>0, <1>b, <2>1, <2>2, <2>3, BusInvParts DEF TypeOK, HonestRoutes, AnswerInv
<1>4. ASSUME NEW c \in Clients, NEW p \in Names \cup {EmptyName}, NEW m \in Methods,
             Call(c, p, m)
      PROVE  BusInv'
  <2>1. UNCHANGED <<link, s2c, router, methods, regid, answers>>
    BY <1>4 DEF Call
  <2>2. /\ C2sInv' /\ s_out' = s_out
        /\ overlaps' \in 0 .. MaxOverlaps /\ lockstep' \in BOOLEAN
        /\ next_id' \in [Clients -> 1 .. (MaxCalls + 1)]
        /\ waiting' \in [Clients -> SUBSET Ids]
    BY <1>4, InvokeStep DEF Call, Providers, AllMethods
  <2> QED BY <1>0, <1>b, <2>1, <2>2, BusInvParts DEF TypeOK, HonestRoutes, AnswerInv
<1>5. ASSUME NEW c \in Clients, ClientHandleRequest(c) PROVE BusInv'
  <2> DEFINE m == Head(s2c[c])
             resp == ServeMsg(m, methods[c], c)
  <2>1. UNCHANGED <<link, s_out, router, methods, next_id, waiting, regid, answers>>
    BY <1>5 DEF ClientHandleRequest, clientVars
  <2>2. /\ s2c[c] # <<>> /\ m.req /\ s2c' = Consumed(s2c, c)
        /\ Send(c2s, c_out, c, resp, c2s', c_out')
    BY <1>5 DEF ClientHandleRequest
  <2>3. S2cInv' /\ m \in Msg /\ ToClient(c, m)
    BY <2>1, <2>2, ConsumeS2c
  <2>4. resp \in Msg /\ FromClient(c, resp)
    BY <2>2, <2>3, ServeMsgShape DEF ToClient, FromClient
  <2> HIDE DEF m, resp
  <2>5. C2sInv' /\ overlaps' \in 0 .. MaxOverlaps /\ lockstep' \in BOOLEAN
    BY <2>2, <2>4, ProduceC2s
  <2> QED BY <1>0, <2>1, <2>3, <2>5, BusInvParts DEF TypeOK, HonestRoutes, AnswerInv
<1>6. ASSUME NEW c \in Clients, ClientHandleResponse(c) PROVE BusInv'
  <2> DEFINE m == Head(s2c[c])
  <2>1. UNCHANGED <<link, c2s, c_out, s_out, overlaps, lockstep, router, methods, next_id, regid>>
    BY <1>6 DEF ClientHandleResponse, outVars
  <2>2. /\ s2c[c] # <<>> /\ ~m.req /\ s2c' = Consumed(s2c, c)
        /\ \/ /\ waiting' = [waiting EXCEPT ![c] = @ \ {m.id}]
              /\ answers' = [answers EXCEPT ![c] = @ \cup {m}]
           \/ UNCHANGED <<waiting, answers>>
    BY <1>6 DEF ClientHandleResponse
  <2>3. S2cInv' /\ m \in Msg /\ ToClient(c, m)
    BY <2>1, <2>2, ConsumeS2c
  <2>4. NameOf[m.origin] = NameOf[c] /\ ServedByAsked(m)
    BY <2>2, <2>3 DEF ToClient
  <2> HIDE DEF m
  <2>6. waiting' \in [Clients -> SUBSET Ids]
    <3>1. waiting \in [Clients -> SUBSET Ids]
      BY <1>0 DEF TypeOK
    <3>2. waiting[c] \ {m.id} \in SUBSET Ids
      BY <3>1
    <3>3. waiting' = waiting \/ waiting' = [waiting EXCEPT ![c] = waiting[c] \ {m.id}]
      BY <2>2
    <3> QED BY <3>1, <3>2, <3>3
  <2>7. answers' \in [Clients -> SUBSET Msg]
    <3>1. answers[c] \cup {m} \in SUBSET Msg
      BY <1>0, <2>3 DEF TypeOK
    <3> QED BY <1>0, <2>2, <3>1 DEF TypeOK
  <2>8. ASSUME NEW d \in Clients, NEW r \in answers'[d]
        PROVE  NameOf[r.origin] = NameOf[d] /\ ServedByAsked(r)
    <3>1. r \in answers[d] \/ (d = c /\ r = m)
      BY <1>0, <2>2 DEF TypeOK
    <3> QED BY <1>0, <2>4, <3>1 DEF AnswerInv
  <2>9. AnswerInv'
    BY <2>8 DEF AnswerInv
  <2> QED BY <1>0, <1>a, <2>1, <2>3, <2>6, <2>7, <2>9, BusInvParts DEF TypeOK, HonestRoutes
<1>7. ASSUME NEW c \in Clients, ServerHandleLocal(c) PROVE BusInv'
  <2> DEFINE m == Head(c2s[c])
             resp == ServeMsg(m, LocalMethods, Server)
  <2>1. UNCHANGED <<link, c_out, methods, next_id, waiting, regid, answers>>
    BY <1>7 DEF ServerHandleLocal, clientVars
  <2>2. /\ c2s[c] # <<>> /\ m.req /\ m.provider \in {EmptyName, SvcMgr}
        /\ c2s' = Consumed(c2s, c)
        /\ Send(s2c, s_out, c, resp, s2c', s_out')
        /\ router' = [router EXCEPT ![m.arg] = c] \/ router' = router
    BY <1>7 DEF ServerHandleLocal, ServerReceives, IsLocal, HandleRegisterMethod
  <2>3. C2sInv' /\ m \in Msg /\ FromClient(c, m)
    BY <2>1, <2>2, ConsumeC2s
  <2>4. resp \in Msg /\ ToClient(c, resp)
    BY <2>2, <2>3, ServeMsgShape DEF ToClient, FromClient, ServedByAsked
  <2>5. m.arg \in {NameOf[c], EmptyName}
    BY <2>2, <2>3 DEF FromClient
  <2> HIDE DEF m, resp
  <2>6. router' \in [Names \cup {EmptyName} -> Clients \cup {nullconn}] /\ HonestRoutes'
    <3>1. CASE router' = router
      BY <1>0, <3>1 DEF TypeOK, HonestRoutes
    <3>2. CASE router' = [router EXCEPT ![m.arg] = c]
      <4>1. \A n \in Names \cup {EmptyName} : router'[n] = IF n = m.arg THEN c ELSE router[n]
        BY <1>0, <3>2 DEF TypeOK
      <4>2. router' \in [Names \cup {EmptyName} -> Clients \cup {nullconn}]
        BY <1>0, <3>2 DEF TypeOK
      <4>3. \A n \in Names : n = m.arg => n = NameOf[c]
        BY <2>5, NameAssumption
      <4> QED BY <1>0, <4>1, <4>2, <4>3 DEF HonestRoutes
    <3> QED BY <2>2, <3>1, <3>2
  <2>7. S2cInv' /\ overlaps' \in 0 .. MaxOverlaps /\ lockstep' \in BOOLEAN
    BY <2>2, <2>4, ProduceS2c
  <2> QED BY <1>0, <2>1, <2>3, <2>6, <2>7, BusInvParts DEF TypeOK, AnswerInv
<1>8. ASSUME NEW c \in Clients, ServerForwardRequest(c) PROVE BusInv'
  <2> DEFINE m == Head(c2s[c])
             to == router[m.provider]
  <2>1. UNCHANGED <<link, c_out, router, methods, next_id, waiting, regid, answers>>
    BY <1>8 DEF ServerForwardRequest, clientVars
  <2>2. /\ c2s[c] # <<>> /\ m.req /\ m.provider \notin {EmptyName, SvcMgr}
        /\ c2s' = Consumed(c2s, c)
        /\ \/ UNCHANGED <<s2c, s_out, overlaps, lockstep>>
           \/ to # nullconn /\ Send(s2c, s_out, to, m, s2c', s_out')
    BY <1>8 DEF ServerForwardRequest, ServerReceives, IsLocal, RequestConn
  <2>3. C2sInv' /\ m \in Msg /\ FromClient(c, m)
    BY <2>1, <2>2, ConsumeC2s
  <2>4. m.provider \in Names /\ m.asked = m.provider /\ m.caller = NameOf[m.origin]
    BY <2>2, <2>3 DEF FromClient, Msg, Providers
  <2>5. to # nullconn => (to \in Clients /\ NameOf[to] = m.provider)
    BY <1>0, <2>4 DEF TypeOK, HonestRoutes
  <2>6. to # nullconn => ToClient(to, m)
    BY <2>2, <2>4, <2>5 DEF ToClient
  <2> HIDE DEF m, to
  <2>7. S2cInv' /\ overlaps' \in 0 .. MaxOverlaps /\ lockstep' \in BOOLEAN
    <3>1. CASE UNCHANGED <<s2c, s_out, overlaps, lockstep>>
      BY <1>0, <1>b, <3>1 DEF TypeOK
    <3>2. CASE to # nullconn /\ Send(s2c, s_out, to, m, s2c', s_out')
      BY <2>3, <2>5, <2>6, <3>2, ProduceS2c
    <3> QED BY <2>2, <3>1, <3>2
  <2> QED BY <1>0, <2>1, <2>3, <2>7, BusInvParts DEF TypeOK, HonestRoutes, AnswerInv
<1>9. ASSUME NEW c \in Clients, ServerForwardResponse(c) PROVE BusInv'
  <2> DEFINE m == Head(c2s[c])
             to == router[m.caller]
  <2>1. UNCHANGED <<link, c_out, router, methods, next_id, waiting, regid, answers>>
    BY <1>9 DEF ServerForwardResponse, clientVars
  <2>2. /\ c2s[c] # <<>> /\ ~m.req
        /\ c2s' = Consumed(c2s, c)
        /\ \/ UNCHANGED <<s2c, s_out, overlaps, lockstep>>
           \/ to # nullconn /\ Send(s2c, s_out, to, m, s2c', s_out')
    BY <1>9 DEF ServerForwardResponse, ServerReceives, ReturnConn
  <2>3. C2sInv' /\ m \in Msg /\ FromClient(c, m)
    BY <2>1, <2>2, ConsumeC2s
  <2>4. m.caller \in Names /\ m.caller = NameOf[m.origin] /\ m.by = c /\ m.asked = NameOf[c]
    BY <2>2, <2>3 DEF FromClient, Msg
  <2>5. to # nullconn => (to \in Clients /\ NameOf[to] = m.caller)
    BY <1>0, <2>4 DEF TypeOK, HonestRoutes
  <2>6. ServedByAsked(m)
    BY <2>4, NameAssumption DEF ServedByAsked
  <2>7. to # nullconn => ToClient(to, m)
    BY <2>2, <2>4, <2>5, <2>6 DEF ToClient
  <2> HIDE DEF m, to
  <2>8. S2cInv' /\ overlaps' \in 0 .. MaxOverlaps /\ lockstep' \in BOOLEAN
    <3>1. CASE UNCHANGED <<s2c, s_out, overlaps, lockstep>>
      BY <1>0, <1>b, <3>1 DEF TypeOK
    <3>2. CASE to # nullconn /\ Send(s2c, s_out, to, m, s2c', s_out')
      BY <2>3, <2>5, <2>7, <3>2, ProduceS2c
    <3> QED BY <2>2, <3>1, <3>2
  <2> QED BY <1>0, <2>1, <2>3, <2>8, BusInvParts DEF TypeOK, HonestRoutes, AnswerInv
<1>10. ASSUME NEW c \in Clients, Disconnect(c) PROVE BusInv'
  <2>1. UNCHANGED <<overlaps, lockstep, methods, next_id, waiting, regid, answers>>
    BY <1>10 DEF Disconnect, clientVars
  <2>2. link' \in [Clients -> {"new", "up", "closed"}]
    BY <1>0, <1>10 DEF Disconnect, TypeOK
  <2>3. C2sInv'
    <3>1. c2s' = [c2s EXCEPT ![c] = <<>>] /\ c_out' = [c_out EXCEPT ![c] = <<>>]
      BY <1>10 DEF Disconnect
    <3> QED BY <1>0, <3>1, ClearCarries DEF C2sInv, From
  <2>4. S2cInv'
    <3>1. s2c' = [s2c EXCEPT ![c] = <<>>] /\ s_out' = [s_out EXCEPT ![c] = <<>>]
      BY <1>10 DEF Disconnect
    <3> QED BY <1>0, <3>1, ClearCarries DEF S2cInv, To
  <2>5. router' \in [Names \cup {EmptyName} -> Clients \cup {nullconn}] /\ HonestRoutes'
    BY <1>0, <1>10, ClientAssumption DEF Disconnect, ContextName, TypeOK, HonestRoutes
  <2> QED BY <1>0, <2>1, <2>2, <2>3, <2>4, <2>5, BusInvParts DEF TypeOK, AnswerInv
<1>11. CASE UNCHANGED vars
  <2>1. UNCHANGED <<link, c2s, s2c, c_out, s_out, overlaps, lockstep, router, methods, next_id,
                    waiting, regid, answers>>
    BY <1>11 DEF vars, outVars, clientVars
  <2> QED BY <1>0, <1>a, <1>b, <2>1, BusInvParts DEF TypeOK, HonestRoutes, AnswerInv
<1> QED
  BY <1>1, <1>2, <1>3, <1>4, <1>5, <1>6, <1>7, <1>8, <1>9, <1>10, <1>11
  DEF Next, ClientHandle, ServerHandle

(* So it holds in every state.                                             *)
LEMMA BusInvariant == Spec => []BusInv
BY BusInit, BusStep, PTL DEF Spec

(* The bus keeps its channels, routes and ids in their types.              *)
THEOREM TypeCorrect == Spec => []TypeOK
<1>1. BusInv => TypeOK
  BY DEF BusInv
<1> QED BY <1>1, BusInvariant, PTL

-----------------------------------------------------------------------------
(* A call is answered once.                                                *)

(* Ids that wait or are answered were given out; an answered call does not *)
(* wait any more.                                                          *)
AnsweredInv ==
    /\ AnsweredOnce
    /\ \A c \in Clients : \A i \in waiting[c] : i < next_id[c]
    /\ \A c \in Clients : \A m \in answers[c] : m.id \notin waiting[c] /\ m.id < next_id[c]

(* A new call has an id that no answer has.                                *)
LEMMA AnsweredInvoke ==
    ASSUME BusInv, AnsweredInv, NEW c \in Clients, UNCHANGED answers,
           next_id' = [next_id EXCEPT ![c] = @ + 1],
           waiting' = [waiting EXCEPT ![c] = @ \cup {next_id[c]}]
    PROVE  AnsweredInv'
<1>1. /\ next_id \in [Clients -> 1 .. (MaxCalls + 1)] /\ waiting \in [Clients -> SUBSET Ids]
      /\ answers \in [Clients -> SUBSET Msg]
  BY DEF BusInv, TypeOK
<1>2. AnsweredOnce'
  BY DEF AnsweredInv, AnsweredOnce
<1>3. ASSUME NEW d \in Clients, NEW m \in answers[d]
      PROVE  m.id \notin waiting'[d] /\ m.id < next_id'[d]
  <2>1. m.id \in Nat /\ next_id[d] \in Nat
    <3>1. m \in Msg /\ next_id[d] \in 1 .. (MaxCalls + 1)
      BY <1>1
    <3>2. m.id \in Ids
      BY <3>1 DEF Msg
    <3> QED BY <3>1, <3>2, MaxCallsAssumption DEF Ids
  <2>2. m.id \notin waiting[d] /\ m.id < next_id[d]
    BY DEF AnsweredInv
  <2>3. /\ waiting'[d] = IF d = c THEN waiting[d] \cup {next_id[d]} ELSE waiting[d]
        /\ next_id'[d] = IF d = c THEN next_id[d] + 1 ELSE next_id[d]
    BY <1>1
  <2> QED BY <2>1, <2>2, <2>3
<1>4. ASSUME NEW d \in Clients, NEW i \in waiting'[d] PROVE i < next_id'[d]
  <2>1. /\ waiting'[d] = IF d = c THEN waiting[d] \cup {next_id[d]} ELSE waiting[d]
        /\ next_id'[d] = IF d = c THEN next_id[d] + 1 ELSE next_id[d]
    BY <1>1
  <2>2. next_id[d] \in Nat
    BY <1>1, MaxCallsAssumption
  <2>3. i \in waiting[d] => i \in Nat /\ i < next_id[d]
    <3>1. i \in waiting[d] => i \in Ids
      BY <1>1
    <3> QED BY <3>1, MaxCallsAssumption DEF Ids, AnsweredInv
  <2> QED BY <1>4, <2>1, <2>2, <2>3
<1> QED BY <1>2, <1>3, <1>4 DEF AnsweredInv

(* A response is taken for the answer only if its call waits.              *)
LEMMA AnsweredResponse ==
    ASSUME BusInv, AnsweredInv, NEW c \in Clients, ClientHandleResponse(c)
    PROVE  AnsweredInv'
<1> DEFINE m == Head(s2c[c])
<1>0. /\ waiting \in [Clients -> SUBSET Ids] /\ answers \in [Clients -> SUBSET Msg]
      /\ next_id \in [Clients -> 1 .. (MaxCalls + 1)] /\ UNCHANGED next_id
  BY DEF BusInv, TypeOK, ClientHandleResponse
<1>1. CASE m.id \notin waiting[c]
  BY <1>1 DEF ClientHandleResponse, AnsweredInv, AnsweredOnce
<1>2. CASE m.id \in waiting[c]
  <2>1. /\ waiting' = [waiting EXCEPT ![c] = @ \ {m.id}]
        /\ answers' = [answers EXCEPT ![c] = @ \cup {m}]
    BY <1>2 DEF ClientHandleResponse
  <2> HIDE DEF m
  <2>2. ASSUME NEW d \in Clients
        PROVE  /\ waiting'[d] = IF d = c THEN waiting[d] \ {m.id} ELSE waiting[d]
               /\ answers'[d] = IF d = c THEN answers[d] \cup {m} ELSE answers[d]
    BY <1>0, <2>1
  <2>3. ASSUME NEW d \in Clients, NEW r \in answers'[d]
        PROVE  r.id \notin waiting'[d] /\ r.id < next_id[d]
    <3>1. CASE r \in answers[d]
      BY <2>2, <3>1 DEF AnsweredInv
    <3>2. CASE d = c /\ r = m
      BY <1>2, <2>2, <3>2 DEF AnsweredInv
    <3> QED BY <2>2, <2>3, <3>1, <3>2
  <2>6. ASSUME NEW d \in Clients, NEW i \in waiting'[d] PROVE i < next_id[d]
    BY <2>2, <2>6 DEF AnsweredInv
  <2>4. \A r \in answers[c] : r.id # m.id
    BY <1>2 DEF AnsweredInv
  <2>5. ASSUME NEW d \in Clients, NEW r \in answers'[d], NEW q \in answers'[d], r.id = q.id
        PROVE  r = q
    <3>1. CASE r \in answers[d] /\ q \in answers[d]
      BY <2>5, <3>1 DEF AnsweredInv, AnsweredOnce
    <3>2. CASE d = c /\ (r = m \/ q = m)
      BY <2>2, <2>4, <2>5, <3>2
    <3> QED BY <2>2, <2>5, <3>1, <3>2
  <2> QED BY <1>0, <2>3, <2>5, <2>6 DEF AnsweredInv, AnsweredOnce
<1> QED BY <1>1, <1>2

LEMMA AnsweredStep == BusInv /\ AnsweredInv /\ [Next]_vars => AnsweredInv'
<1> SUFFICES ASSUME BusInv, AnsweredInv, [Next]_vars PROVE AnsweredInv'
  OBVIOUS
<1>1. ASSUME UNCHANGED <<answers, waiting, next_id>> PROVE AnsweredInv'
  BY <1>1 DEF AnsweredInv, AnsweredOnce
<1>2. ASSUME NEW c \in Clients, NEW p, NEW f, NEW arg, Invoke(c, p, f, arg), UNCHANGED answers
      PROVE  AnsweredInv'
  BY <1>2, AnsweredInvoke DEF Invoke
<1>3. ASSUME NEW c \in Clients, Connect(c) \/ Disconnect(c) \/ ClientHandleRequest(c) \/ ServerHandle(c)
      PROVE  AnsweredInv'
  <2>1. UNCHANGED <<answers, waiting, next_id>>
    BY <1>3 DEF Connect, Disconnect, ClientHandleRequest, ServerHandle, ServerHandleLocal,
                ServerForwardRequest, ServerForwardResponse, clientVars
  <2> QED BY <1>1, <2>1
<1>4. ASSUME NEW c \in Clients, Start(c) PROVE AnsweredInv'
  BY <1>2, <1>4 DEF Start
<1>5. ASSUME NEW c \in Clients, NEW f \in Methods, AddMethod(c, f) PROVE AnsweredInv'
  BY <1>2, <1>5 DEF AddMethod
<1>6. ASSUME NEW c \in Clients, NEW p \in Names \cup {EmptyName}, NEW f \in Methods, Call(c, p, f)
      PROVE  AnsweredInv'
  BY <1>2, <1>6 DEF Call
<1>7. ASSUME NEW c \in Clients, ClientHandleResponse(c) PROVE AnsweredInv'
  BY <1>7, AnsweredResponse
<1>8. CASE UNCHANGED vars
  BY <1>1, <1>8 DEF vars, clientVars
<1> QED BY <1>3, <1>4, <1>5, <1>6, <1>7, <1>8 DEF Next, ClientHandle

(* A call is answered once, whatever the transport repeats: ids are given  *)
(* out once and the first response to an id takes its entry from waitings_ *)
(* (BusInvoker::ACall, HandleResponseMessage).                             *)
LEMMA AnswersAreSingle == Spec => []AnsweredOnce
<1>1. Init => AnsweredInv
  BY DEF Init, AnsweredInv, AnsweredOnce
<1>2. AnsweredInv => AnsweredOnce
  BY DEF AnsweredInv
<1> QED BY <1>1, <1>2, AnsweredStep, BusInvariant, PTL DEF Spec

(* A response that wakes a Result was made by the service that was asked,  *)
(* is the only one its call is woken by, and, for a client whose name is   *)
(* its own, answers a request of that client, whatever connects, breaks    *)
(* and comes back under an old name, and whatever messages overlapping     *)
(* Sends repeat or lose (HandleRequestMessage, HandleResponseMessage).     *)
THEOREM NoCrossTalk == Spec => []AnswersMatchRequests
<1>1. BusInv => AnswerComesFromProvider
  BY DEF BusInv, AnswerInv, ServedByAsked, AnswerComesFromProvider
<1>2. ASSUME BusInv, NEW c \in Clients, HasOwnName(c), NEW m \in answers[c]
      PROVE  m.origin = c
  <2>1. m \in Msg /\ NameOf[m.origin] = NameOf[c]
    BY <1>2 DEF BusInv, TypeOK, AnswerInv
  <2>2. m.origin \in Clients
    BY <2>1 DEF Msg
  <2> QED BY <1>2, <2>1, <2>2 DEF HasOwnName
<1>3. BusInv => AnswerIsToOwnRequest
  BY <1>2 DEF AnswerIsToOwnRequest
<1>4. BusInv /\ AnsweredOnce => AnswersMatchRequests
  BY <1>1, <1>3 DEF AnswersMatchRequests
<1> QED BY <1>4, BusInvariant, AnswersAreSingle, PTL

-----------------------------------------------------------------------------
(* While Sends are serial: where sending and consuming put the messages of *)
(* a channel.                                                              *)

Delivered(ch, c, m) == IF link[c] = "up" THEN [ch EXCEPT ![c] = Append(@, m)] ELSE ch

(* A Send that leaves the bus serial appends its message.                  *)
LEMMA SerialSend ==
    ASSUME BusInv, NEW ch, NEW out, NEW c, NEW m, NEW new, NEW newout,
           Send(ch, out, c, m, new, newout), Serial'
    PROVE  Serial /\ new = Delivered(ch, c, m)
<1>1. overlaps \in Nat
  BY OverlapAssumption DEF BusInv, TypeOK
<1>2. ~SendOverlapping(ch, out, c, m, new, newout)
  BY <1>1 DEF SendOverlapping, Serial
<1> QED BY <1>2 DEF Send, SendInTurn, Serial, Delivered

LEMMA SendPositions ==
    ASSUME NEW ch \in Channels, NEW c \in Clients, NEW m \in Msg, NEW new, new = Delivered(ch, c, m)
    PROVE  /\ new \in Channels /\ \A d \in Clients \ {c} : new[d] = ch[d]
           /\ Len(ch[c]) \in Nat /\ (link[c] = "up" => new # ch)
           /\ new = ch \/ /\ Len(new[c]) = Len(ch[c]) + 1 /\ new[c][Len(ch[c]) + 1] = m
                          /\ \A k \in 1 .. Len(ch[c]) : new[c][k] = ch[c][k]
<1>0. ch[c] \in Seq(Msg) /\ Len(ch[c]) \in Nat
  BY DEF Channels
<1>1. CASE link[c] = "up"
  <2>1. new = [ch EXCEPT ![c] = Append(ch[c], m)]
    BY <1>1 DEF Delivered
  <2>2. new \in Channels /\ new[c] = Append(ch[c], m) /\ \A d \in Clients \ {c} : new[d] = ch[d]
    BY <1>0, <2>1 DEF Channels
  <2>3. /\ Len(Append(ch[c], m)) = Len(ch[c]) + 1 /\ Append(ch[c], m)[Len(ch[c]) + 1] = m
        /\ \A k \in 1 .. Len(ch[c]) : Append(ch[c], m)[k] = ch[c][k]
    BY <1>0, AppendProperties
  <2> QED BY <1>0, <2>2, <2>3
<1>2. CASE link[c] # "up"
  BY <1>0, <1>2 DEF Delivered
<1> QED BY <1>1, <1>2

LEMMA TailPositions ==
    ASSUME NEW ch \in Channels, NEW c \in Clients, ch[c] # <<>>, NEW new, new = Consumed(ch, c)
    PROVE  /\ new \in Channels /\ \A d \in Clients \ {c} : new[d] = ch[d]
           /\ Len(ch[c]) \in Nat \ {0} /\ Len(new[c]) = Len(ch[c]) - 1
           /\ Head(ch[c]) = ch[c][1] /\ Head(ch[c]) \in Msg
           /\ \A k \in 1 .. Len(new[c]) : new[c][k] = ch[c][k + 1]
<1>1. /\ ch[c] \in Seq(Msg) /\ Tail(ch[c]) \in Seq(Msg)
      /\ Len(Tail(ch[c])) = Len(ch[c]) - 1 /\ Len(ch[c]) \in Nat \ {0}
      /\ Head(ch[c]) = ch[c][1] /\ Head(ch[c]) \in Msg
      /\ \A k \in 1 .. Len(Tail(ch[c])) : Tail(ch[c])[k] = ch[c][k + 1]
  BY HeadTailProperties DEF Channels
<1>2. new \in Channels /\ new[c] = Tail(ch[c]) /\ \A d \in Clients \ {c} : new[d] = ch[d]
  BY <1>1 DEF Channels, Consumed
<1> QED BY <1>1, <1>2

-----------------------------------------------------------------------------
(* A call is on the bus once.                                              *)

SameCall(m, r) == m.origin = r.origin /\ m.id = r.id

(* Channels x hold a call at most once; no call is in both x and y.        *)
OncePer(x) ==
    \A c, d \in Clients : \A k \in 1 .. Len(x[c]), j \in 1 .. Len(x[d]) :
        SameCall(x[c][k], x[d][j]) => c = d /\ k = j
Apart(x, y) ==
    \A c, d \in Clients : \A k \in 1 .. Len(x[c]), j \in 1 .. Len(y[d]) : ~SameCall(x[c][k], y[d][j])
Unique(x, y) == OncePer(x) /\ OncePer(y) /\ Apart(x, y)

(* Its id was given out (the invoker counts to nid), and a caller with a   *)
(* name of its own waits for it (the ids in w).                            *)
Pending(m, nid, w) == m.id < nid[m.origin] /\ (HasOwnName(m.origin) => m.id \in w[m.origin])
AllPending(x, nid, w) == \A c \in Clients : \A k \in 1 .. Len(x[c]) : Pending(x[c][k], nid, w)

CopyInv ==
    BusInv /\ Unique(c2s, s2c) /\ AllPending(c2s, next_id, waiting) /\ AllPending(s2c, next_id, waiting)

(* Handling a message takes it from channels x, and may put a message of   *)
(* the same call into y: the request forwarded, its response, or nothing.  *)
Moves(x, y, c, x2, y2) ==
    /\ x[c] # <<>> /\ x2 = Consumed(x, c)
    /\ \/ y2 = y
       \/ \E to \in Clients : \E m \in Msg : SameCall(m, Head(x[c])) /\ y2 = Delivered(y, to, m)

LEMMA UniqueSymmetric == ASSUME NEW x, NEW y, Unique(x, y) PROVE Unique(y, x)
BY DEF Unique, Apart, SameCall

(* Every message of y2 was in y, but for one of the call of the head of x. *)
LEMMA MoveOrigins ==
    ASSUME NEW x \in Channels, NEW y \in Channels, NEW c \in Clients, NEW x2, NEW y2, Moves(x, y, c, x2, y2)
    PROVE  /\ x2 \in Channels /\ y2 \in Channels /\ 1 \in 1 .. Len(x[c])
           /\ \A d \in Clients : \A k \in 1 .. Len(x2[d]) :
                \E j \in 1 .. Len(x[d]) : x2[d][k] = x[d][j] /\ j = IF d = c THEN k + 1 ELSE k
           /\ \E to \in Clients : \A d \in Clients : \A k \in 1 .. Len(y2[d]) :
                \/ k \in 1 .. Len(y[d]) /\ y2[d][k] = y[d][k]
                \/ d = to /\ k = Len(y[d]) + 1 /\ SameCall(y2[d][k], x[c][1])
<1>1. /\ x2 \in Channels /\ \A d \in Clients \ {c} : x2[d] = x[d]
      /\ Len(x[c]) \in Nat \ {0} /\ Len(x2[c]) = Len(x[c]) - 1 /\ Head(x[c]) = x[c][1]
      /\ \A k \in 1 .. Len(x2[c]) : x2[c][k] = x[c][k + 1]
  BY TailPositions DEF Moves
<1>2. ASSUME NEW d \in Clients, NEW k \in 1 .. Len(x2[d])
      PROVE  \E j \in 1 .. Len(x[d]) : x2[d][k] = x[d][j] /\ j = IF d = c THEN k + 1 ELSE k
  <2>1. CASE d = c
    <3>1. k + 1 \in 1 .. Len(x[c]) /\ x2[c][k] = x[c][k + 1]
      BY <1>1, <1>2, <2>1
    <3> QED BY <2>1, <3>1
  <2>2. CASE d # c
    <3>1. x2[d] = x[d]
      BY <1>1, <2>2
    <3> QED BY <1>2, <2>2, <3>1
  <2> QED BY <2>1, <2>2
<1>3. CASE y2 = y
  <2>1. \A d \in Clients : \A k \in 1 .. Len(y2[d]) : k \in 1 .. Len(y[d]) /\ y2[d][k] = y[d][k]
    BY <1>3
  <2> QED BY <1>1, <1>2, <1>3, <2>1
<1>4. ASSUME NEW to \in Clients, NEW m \in Msg, SameCall(m, Head(x[c])), y2 = Delivered(y, to, m)
      PROVE  /\ y2 \in Channels
             /\ \A d \in Clients : \A k \in 1 .. Len(y2[d]) :
                \/ k \in 1 .. Len(y[d]) /\ y2[d][k] = y[d][k]
                \/ d = to /\ k = Len(y[d]) + 1 /\ SameCall(y2[d][k], x[c][1])
  <2>1. /\ y2 \in Channels /\ \A d \in Clients \ {to} : y2[d] = y[d]
        /\ Len(y[to]) \in Nat
        /\ y2 = y \/ /\ Len(y2[to]) = Len(y[to]) + 1 /\ y2[to][Len(y[to]) + 1] = m
                     /\ \A k \in 1 .. Len(y[to]) : y2[to][k] = y[to][k]
    BY <1>4, SendPositions
  <2>2. ASSUME NEW d \in Clients, NEW k \in 1 .. Len(y2[d])
        PROVE  \/ k \in 1 .. Len(y[d]) /\ y2[d][k] = y[d][k]
               \/ d = to /\ k = Len(y[d]) + 1 /\ SameCall(y2[d][k], x[c][1])
    <3>1. CASE y2 = y \/ d # to
      <4>1. y2[d] = y[d]
        BY <2>1, <3>1
      <4> QED BY <2>2, <4>1
    <3>2. CASE y2 # y /\ d = to
      <4>1. k \in 1 .. Len(y[to]) \/ k = Len(y[to]) + 1
        BY <2>1, <2>2, <3>2
      <4> QED BY <1>1, <1>4, <2>1, <3>2, <4>1
    <3> QED BY <3>1, <3>2
  <2> QED BY <2>1, <2>2
<1>5. 1 \in 1 .. Len(x[c])
  BY <1>1
<1> QED
  <2>1. CASE y2 = y
    BY <1>1, <1>2, <1>3, <1>5, <2>1
  <2>2. CASE \E to \in Clients : \E m \in Msg : SameCall(m, Head(x[c])) /\ y2 = Delivered(y, to, m)
    <3>1. PICK to \in Clients, m \in Msg : SameCall(m, Head(x[c])) /\ y2 = Delivered(y, to, m)
      BY <2>2
    <3> QED BY <1>1, <1>2, <1>4, <1>5, <3>1
  <2> QED BY <2>1, <2>2 DEF Moves

(* So a call stays on the bus once ...                                     *)
LEMMA MoveUnique ==
    ASSUME NEW x \in Channels, NEW y \in Channels, NEW c \in Clients, NEW x2, NEW y2, Moves(x, y, c, x2, y2),
           Unique(x, y)
    PROVE  Unique(x2, y2)
<1>1. 1 \in 1 .. Len(x[c])
  BY MoveOrigins
<1>2. \A d \in Clients : \A k \in 1 .. Len(x2[d]) :
        \E j \in 1 .. Len(x[d]) : x2[d][k] = x[d][j] /\ j = IF d = c THEN k + 1 ELSE k
  BY MoveOrigins
<1>3. PICK to \in Clients : \A d \in Clients : \A k \in 1 .. Len(y2[d]) :
        \/ k \in 1 .. Len(y[d]) /\ y2[d][k] = y[d][k]
        \/ d = to /\ k = Len(y[d]) + 1 /\ SameCall(y2[d][k], x[c][1])
  BY MoveOrigins
<1>4. ASSUME NEW d1 \in Clients, NEW d2 \in Clients, NEW k \in 1 .. Len(x2[d1]), NEW j \in 1 .. Len(x2[d2]),
             SameCall(x2[d1][k], x2[d2][j])
      PROVE  d1 = d2 /\ k = j
  <2>1. PICK k1 \in 1 .. Len(x[d1]) : x2[d1][k] = x[d1][k1] /\ k1 = IF d1 = c THEN k + 1 ELSE k
    BY <1>2
  <2>2. PICK j1 \in 1 .. Len(x[d2]) : x2[d2][j] = x[d2][j1] /\ j1 = IF d2 = c THEN j + 1 ELSE j
    BY <1>2
  <2>3. d1 = d2 /\ k1 = j1
    BY <1>4, <2>1, <2>2 DEF Unique, OncePer
  <2> QED BY <2>1, <2>2, <2>3
<1>5. ASSUME NEW d1 \in Clients, NEW d2 \in Clients, NEW k \in 1 .. Len(y2[d1]), NEW j \in 1 .. Len(y2[d2]),
             SameCall(y2[d1][k], y2[d2][j])
      PROVE  d1 = d2 /\ k = j
  <2>1. CASE k \in 1 .. Len(y[d1]) /\ y2[d1][k] = y[d1][k] /\ j \in 1 .. Len(y[d2]) /\ y2[d2][j] = y[d2][j]
    BY <1>5, <2>1 DEF Unique, OncePer
  <2>2. CASE k \in 1 .. Len(y[d1]) /\ y2[d1][k] = y[d1][k] /\ SameCall(y2[d2][j], x[c][1])
    <3>1. SameCall(x[c][1], y[d1][k])
      BY <1>5, <2>2 DEF SameCall
    <3> QED BY <1>1, <2>2, <3>1 DEF Unique, Apart
  <2>3. CASE j \in 1 .. Len(y[d2]) /\ y2[d2][j] = y[d2][j] /\ SameCall(y2[d1][k], x[c][1])
    <3>1. SameCall(x[c][1], y[d2][j])
      BY <1>5, <2>3 DEF SameCall
    <3> QED BY <1>1, <2>3, <3>1 DEF Unique, Apart
  <2>4. CASE d1 = to /\ k = Len(y[d1]) + 1 /\ d2 = to /\ j = Len(y[d2]) + 1
    BY <2>4
  <2> QED BY <1>3, <2>1, <2>2, <2>3, <2>4
<1>6. ASSUME NEW d1 \in Clients, NEW d2 \in Clients, NEW k \in 1 .. Len(x2[d1]), NEW j \in 1 .. Len(y2[d2])
      PROVE  ~SameCall(x2[d1][k], y2[d2][j])
  <2>1. PICK k1 \in 1 .. Len(x[d1]) : x2[d1][k] = x[d1][k1] /\ k1 = IF d1 = c THEN k + 1 ELSE k
    BY <1>2
  <2>2. CASE j \in 1 .. Len(y[d2]) /\ y2[d2][j] = y[d2][j]
    BY <2>1, <2>2 DEF Unique, Apart
  <2>3. CASE SameCall(y2[d2][j], x[c][1])
    <3>1. SUFFICES ASSUME SameCall(x[d1][k1], x[c][1]) PROVE FALSE
      BY <2>1, <2>3 DEF SameCall
    <3>2. d1 = c /\ k1 = 1
      BY <1>1, <3>1 DEF Unique, OncePer
    <3> QED BY <2>1, <3>2
  <2> QED BY <1>3, <2>2, <2>3
<1> QED BY <1>4, <1>5, <1>6 DEF Unique, OncePer, Apart

(* ... and pending.                                                        *)
LEMMA MovePending ==
    ASSUME NEW x \in Channels, NEW y \in Channels, NEW c \in Clients, NEW x2, NEW y2, Moves(x, y, c, x2, y2),
           NEW nid, NEW w, AllPending(x, nid, w), AllPending(y, nid, w)
    PROVE  AllPending(x2, nid, w) /\ AllPending(y2, nid, w)
<1>1. 1 \in 1 .. Len(x[c])
  BY MoveOrigins
<1>2. \A d \in Clients : \A k \in 1 .. Len(x2[d]) :
        \E j \in 1 .. Len(x[d]) : x2[d][k] = x[d][j] /\ j = IF d = c THEN k + 1 ELSE k
  BY MoveOrigins
<1>3. PICK to \in Clients : \A d \in Clients : \A k \in 1 .. Len(y2[d]) :
        \/ k \in 1 .. Len(y[d]) /\ y2[d][k] = y[d][k]
        \/ d = to /\ k = Len(y[d]) + 1 /\ SameCall(y2[d][k], x[c][1])
  BY MoveOrigins
<1>4. ASSUME NEW d \in Clients, NEW k \in 1 .. Len(x2[d]) PROVE Pending(x2[d][k], nid, w)
  <2>1. PICK j \in 1 .. Len(x[d]) : x2[d][k] = x[d][j]
    BY <1>2
  <2>2. Pending(x[d][j], nid, w)
    BY DEF AllPending
  <2> QED BY <2>1, <2>2
<1>5. ASSUME NEW d \in Clients, NEW k \in 1 .. Len(y2[d]) PROVE Pending(y2[d][k], nid, w)
  <2>1. CASE k \in 1 .. Len(y[d]) /\ y2[d][k] = y[d][k]
    BY <2>1 DEF AllPending
  <2>2. CASE SameCall(y2[d][k], x[c][1])
    <3>1. Pending(x[c][1], nid, w)
      BY <1>1 DEF AllPending
    <3> QED BY <2>2, <3>1 DEF Pending, SameCall
  <2> QED BY <1>3, <2>1, <2>2
<1> QED BY <1>4, <1>5 DEF AllPending

(* What the handlers do to the channels: each moves the message it takes.  *)
LEMMA ClientHandleMoves ==
    ASSUME BusInv, Serial', NEW c \in Clients, ClientHandle(c)
    PROVE  /\ Moves(s2c, c2s, c, s2c', c2s') /\ UNCHANGED <<link, router, next_id, regid>>
           /\ \/ UNCHANGED waiting
              \/ /\ ~Head(s2c[c]).req /\ c2s' = c2s
                 /\ waiting' = [waiting EXCEPT ![c] = @ \ {Head(s2c[c]).id}]
<1> DEFINE m == Head(s2c[c])
<1>1. CASE ClientHandleRequest(c)
  <2>1. /\ s2c[c] # <<>> /\ s2c' = Consumed(s2c, c) /\ c2s' = Delivered(c2s, c, ServeMsg(m, methods[c], c))
        /\ UNCHANGED <<link, router, next_id, regid, waiting>>
    BY <1>1, SerialSend DEF ClientHandleRequest, clientVars
  <2>2. m \in Msg
    BY <2>1, HeadElement DEF BusInv, TypeOK, Channels
  <2>3. ServeMsg(m, methods[c], c) \in Msg /\ SameCall(ServeMsg(m, methods[c], c), m)
    BY <2>2, ServeMsgShape DEF SameCall, ServeMsg
  <2> QED BY <2>1, <2>3 DEF Moves
<1>2. CASE ClientHandleResponse(c)
  BY <1>2 DEF ClientHandleResponse, Consumed, Moves
<1> QED BY <1>1, <1>2 DEF ClientHandle

LEMMA ServerHandleMoves ==
    ASSUME BusInv, Serial', NEW c \in Clients, ServerHandle(c)
    PROVE  /\ Moves(c2s, s2c, c, c2s', s2c') /\ UNCHANGED <<link, next_id, waiting, regid>>
           /\ \/ UNCHANGED router /\ ~(Head(c2s[c]).req /\ IsLocal(Head(c2s[c])) /\ Head(c2s[c]).method = "RegisterService")
              \/ /\ Head(c2s[c]).req /\ router' = [router EXCEPT ![Head(c2s[c]).arg] = c]
<1> DEFINE m == Head(c2s[c])
<1>0. c2s[c] # <<>> /\ c2s' = Consumed(c2s, c) /\ UNCHANGED <<link, next_id, waiting, regid>>
  BY DEF ServerHandle, ServerHandleLocal, ServerForwardRequest, ServerForwardResponse, ServerReceives, Consumed, clientVars
<1>1. m \in Msg
  BY <1>0, HeadElement DEF BusInv, TypeOK, Channels
<1>2. CASE ServerHandleLocal(c)
  <2>1. ServeMsg(m, LocalMethods, Server) \in Msg /\ SameCall(ServeMsg(m, LocalMethods, Server), m)
    BY <1>1, ServeMsgShape DEF SameCall, ServeMsg
  <2>2. /\ m.req /\ s2c' = Delivered(s2c, c, ServeMsg(m, LocalMethods, Server))
        /\ router' = IF m.method = "RegisterService" THEN [router EXCEPT ![m.arg] = c] ELSE router
    BY <1>2, SerialSend DEF ServerHandleLocal, HandleRegisterMethod
  <2>3. Moves(c2s, s2c, c, c2s', s2c')
    BY <1>0, <2>1, <2>2 DEF Moves
  <2> QED BY <1>0, <2>2, <2>3
<1>3. CASE ServerForwardRequest(c)
  <2>1. /\ ~IsLocal(m) /\ UNCHANGED router
        /\ s2c' = IF router[m.provider] # nullconn THEN Delivered(s2c, router[m.provider], m) ELSE s2c
    BY <1>3, SerialSend DEF ServerForwardRequest, RequestConn
  <2>2. m.provider \in Names
    BY <1>1, <2>1 DEF Msg, Providers, IsLocal
  <2>3. router[m.provider] # nullconn => router[m.provider] \in Clients
    BY <2>2 DEF BusInv, TypeOK
  <2>4. Moves(c2s, s2c, c, c2s', s2c')
    BY <1>0, <1>1, <2>1, <2>3 DEF Moves, SameCall
  <2> QED BY <1>0, <2>1, <2>4
<1>4. CASE ServerForwardResponse(c)
  <2>1. /\ ~m.req /\ UNCHANGED router
        /\ s2c' = IF router[m.caller] # nullconn THEN Delivered(s2c, router[m.caller], m) ELSE s2c
    BY <1>4, SerialSend DEF ServerForwardResponse, ReturnConn
  <2>2. m.caller \in Names
    BY <1>1 DEF Msg
  <2>3. router[m.caller] # nullconn => router[m.caller] \in Clients
    BY <2>2 DEF BusInv, TypeOK
  <2>4. Moves(c2s, s2c, c, c2s', s2c')
    BY <1>0, <1>1, <2>1, <2>3 DEF Moves, SameCall
  <2> QED BY <1>0, <2>1, <2>4
<1> QED BY <1>2, <1>3, <1>4 DEF ServerHandle

(* A new call is the first with its id.                                    *)
LEMMA InvokeMakes ==
    ASSUME BusInv, Serial', NEW c \in Clients, NEW p \in Providers, NEW f \in AllMethods,
           NEW arg \in {NameOf[c], EmptyName}, Invoke(c, p, f, arg)
    PROVE  /\ next_id[c] \in Ids /\ next_id' = [next_id EXCEPT ![c] = @ + 1]
           /\ waiting' = [waiting EXCEPT ![c] = @ \cup {next_id[c]}]
           /\ \E m \in Msg : /\ m.req /\ m.origin = c /\ m.id = next_id[c] /\ m.provider = p /\ m.method = f
                             /\ m.arg = arg /\ c2s' = Delivered(c2s, c, m)
<1> DEFINE m == [req |-> TRUE, id |-> next_id[c], caller |-> NameOf[c], provider |-> p,
                 method |-> f, arg |-> arg, ret |-> "", origin |-> c, asked |-> p, by |-> nullconn]
<1>1. next_id[c] \in Ids
  BY InvokeStep
<1>2. m \in Msg
  BY <1>1, NameAssumption DEF Msg, Providers
<1>3. m.req /\ m.origin = c /\ m.id = next_id[c] /\ m.provider = p /\ m.method = f /\ m.arg = arg
  OBVIOUS
<1>4. c2s' = Delivered(c2s, c, m)
  BY SerialSend DEF Invoke
<1> HIDE DEF m
<1> QED BY <1>1, <1>2, <1>3, <1>4 DEF Invoke

(* A call is added to the bus.                                             *)
LEMMA CopyInvoke ==
    ASSUME CopyInv, BusInv', Serial', NEW c \in Clients, NEW p \in Providers, NEW f \in AllMethods,
           NEW arg \in {NameOf[c], EmptyName}, Invoke(c, p, f, arg), s2c' = s2c
    PROVE  CopyInv'
<1>0. BusInv /\ c2s \in Channels /\ s2c \in Channels
  BY DEF CopyInv, BusInv, TypeOK, Channels
<1>1. /\ next_id[c] \in Ids /\ next_id' = [next_id EXCEPT ![c] = @ + 1]
      /\ waiting' = [waiting EXCEPT ![c] = @ \cup {next_id[c]}]
  BY <1>0, InvokeMakes
<1>2. PICK m \in Msg : m.origin = c /\ m.id = next_id[c] /\ c2s' = Delivered(c2s, c, m)
  BY <1>0, InvokeMakes
<1>3. /\ c2s' \in Channels /\ \A d \in Clients \ {c} : c2s'[d] = c2s[d]
      /\ Len(c2s[c]) \in Nat
      /\ c2s' = c2s \/ /\ Len(c2s'[c]) = Len(c2s[c]) + 1 /\ c2s'[c][Len(c2s[c]) + 1] = m
                       /\ \A k \in 1 .. Len(c2s[c]) : c2s'[c][k] = c2s[c][k]
  BY <1>0, <1>2, SendPositions
<1>4. ASSUME NEW d \in Clients, NEW k \in 1 .. Len(c2s'[d])
      PROVE  \/ k \in 1 .. Len(c2s[d]) /\ c2s'[d][k] = c2s[d][k]
             \/ d = c /\ k = Len(c2s[c]) + 1 /\ c2s'[d][k] = m
  <2>1. CASE c2s' = c2s \/ d # c
    <3>1. c2s'[d] = c2s[d]
      BY <1>3, <2>1
    <3> QED BY <1>4, <3>1
  <2>2. CASE c2s' # c2s /\ d = c
    <3>1. k \in 1 .. Len(c2s[c]) \/ k = Len(c2s[c]) + 1
      BY <1>3, <1>4, <2>2
    <3> QED BY <1>3, <2>2, <3>1
  <2> QED BY <2>1, <2>2
<1>5. \A r \in Msg : Pending(r, next_id, waiting) => ~SameCall(r, m)
  BY <1>1, <1>2 DEF Pending, SameCall, Ids
<1>6. \A r \in Msg : Pending(r, next_id, waiting) \/ r = m => Pending(r, next_id', waiting')
  <2>a. \A d \in Clients : next_id[d] \in Nat
    <3>1. next_id \in [Clients -> 1 .. (MaxCalls + 1)]
      BY <1>0 DEF BusInv, TypeOK
    <3> QED BY <3>1, MaxCallsAssumption
  <2>b. /\ next_id' = [d \in Clients |-> IF d = c THEN next_id[d] + 1 ELSE next_id[d]]
        /\ waiting' = [d \in Clients |-> IF d = c THEN waiting[d] \cup {next_id[c]} ELSE waiting[d]]
    BY <1>0, <1>1 DEF BusInv, TypeOK
  <2>1. \A d \in Clients : next_id[d] \in Nat /\ next_id[d] <= next_id'[d] /\ waiting[d] \subseteq waiting'[d]
    BY <2>a, <2>b
  <2>2. next_id[c] < next_id'[c] /\ next_id[c] \in waiting'[c]
    BY <1>0, <1>1, MaxCallsAssumption DEF BusInv, TypeOK
  <2>n. MaxCalls \in Nat
    BY MaxCallsAssumption
  <2>3. ASSUME NEW r \in Msg PROVE r.origin \in Clients /\ r.id \in Nat
    <3>1. r.origin \in Clients /\ r.id \in Ids
      BY DEF Msg
    <3> QED BY <2>n, <3>1 DEF Ids
  <2>4. ASSUME NEW r \in Msg, Pending(r, next_id, waiting) PROVE Pending(r, next_id', waiting')
    <3>1. next_id[r.origin] \in Nat /\ next_id'[r.origin] \in Nat
      <4>1. next_id[r.origin] \in 1 .. MaxCalls + 1 /\ next_id'[r.origin] \in 1 .. MaxCalls + 1
        BY <1>0, <2>3 DEF BusInv, TypeOK
      <4> QED BY <2>n, <4>1
    <3>2. r.id < next_id'[r.origin]
      BY <2>1, <2>3, <2>4, <3>1 DEF Pending
    <3> QED BY <2>1, <2>3, <2>4, <3>2 DEF Pending
  <2>5. Pending(m, next_id', waiting')
    BY <1>2, <2>2 DEF Pending
  <2> QED BY <2>4, <2>5
<1>7. ASSUME NEW d \in Clients PROVE /\ \A k \in 1 .. Len(c2s[d]) : c2s[d][k] \in Msg
                                     /\ \A k \in 1 .. Len(s2c[d]) : s2c[d][k] \in Msg
  BY <1>0 DEF Channels
<1>8. /\ \A d \in Clients : \A k \in 1 .. Len(c2s[d]) : ~SameCall(c2s[d][k], m)
      /\ \A d \in Clients : \A k \in 1 .. Len(s2c[d]) : ~SameCall(s2c[d][k], m)
  BY <1>5, <1>7 DEF CopyInv, AllPending
<1>9. Unique(c2s', s2c')
  <2>1. OncePer(c2s')
    <3> SUFFICES ASSUME NEW d1 \in Clients, NEW d2 \in Clients, NEW k \in 1 .. Len(c2s'[d1]), NEW j \in 1 .. Len(c2s'[d2]),
                        SameCall(c2s'[d1][k], c2s'[d2][j])
                 PROVE  d1 = d2 /\ k = j
      BY DEF OncePer
    <3>1. CASE k \in 1 .. Len(c2s[d1]) /\ c2s'[d1][k] = c2s[d1][k] /\ j \in 1 .. Len(c2s[d2]) /\ c2s'[d2][j] = c2s[d2][j]
      BY <3>1 DEF CopyInv, Unique, OncePer
    <3>2. CASE k \in 1 .. Len(c2s[d1]) /\ c2s'[d1][k] = c2s[d1][k] /\ c2s'[d2][j] = m
      BY <1>8, <3>2
    <3>3. CASE j \in 1 .. Len(c2s[d2]) /\ c2s'[d2][j] = c2s[d2][j] /\ c2s'[d1][k] = m
      <4>1. SameCall(c2s[d2][j], m)
        BY <3>3 DEF SameCall
      <4> QED BY <1>8, <3>3, <4>1
    <3> QED BY <1>4, <3>1, <3>2, <3>3
  <2>2. Apart(c2s', s2c')
    <3> SUFFICES ASSUME NEW d1 \in Clients, NEW d2 \in Clients, NEW k \in 1 .. Len(c2s'[d1]), NEW j \in 1 .. Len(s2c[d2]),
                        SameCall(c2s'[d1][k], s2c[d2][j])
                 PROVE  FALSE
      BY DEF Apart
    <3>1. CASE k \in 1 .. Len(c2s[d1]) /\ c2s'[d1][k] = c2s[d1][k]
      BY <3>1 DEF CopyInv, Unique, Apart
    <3>2. CASE c2s'[d1][k] = m
      BY <1>8, <3>2 DEF SameCall
    <3> QED BY <1>4, <3>1, <3>2
  <2> QED BY <2>1, <2>2 DEF CopyInv, Unique
<1>10. AllPending(c2s', next_id', waiting')
  <2> SUFFICES ASSUME NEW d \in Clients, NEW k \in 1 .. Len(c2s'[d]) PROVE Pending(c2s'[d][k], next_id', waiting')
    BY DEF AllPending
  <2>1. CASE k \in 1 .. Len(c2s[d]) /\ c2s'[d][k] = c2s[d][k]
    BY <1>6, <1>7, <2>1 DEF CopyInv, AllPending
  <2>2. CASE c2s'[d][k] = m
    BY <1>6, <2>2
  <2> QED BY <1>4, <2>1, <2>2
<1>11. AllPending(s2c', next_id', waiting')
  BY <1>6, <1>7 DEF CopyInv, AllPending
<1> QED BY <1>9, <1>10, <1>11 DEF CopyInv

(* A response that reaches its caller ends the only copy of its call.      *)
LEMMA ResponsePending ==
    ASSUME CopyInv, NEW c \in Clients, s2c[c] # <<>>, s2c' = Consumed(s2c, c), c2s' = c2s, ~Head(s2c[c]).req,
           NEW w, w = [waiting EXCEPT ![c] = @ \ {Head(s2c[c]).id}]
    PROVE  AllPending(c2s', next_id, w) /\ AllPending(s2c', next_id, w)
<1> DEFINE m == Head(s2c[c])
<1>0. BusInv /\ c2s \in Channels /\ s2c \in Channels /\ waiting \in [Clients -> SUBSET Ids]
  BY DEF CopyInv, BusInv, TypeOK, Channels
<1>1. m \in Msg /\ m = s2c[c][1] /\ 1 \in 1 .. Len(s2c[c]) /\ ToClient(c, m)
  <2>1. m = s2c[c][1] /\ 1 \in 1 .. Len(s2c[c])
    BY <1>0, HeadElement
  <2>2. m \in To[c]
    BY <1>0, <2>1, Carried DEF BusInv, S2cInv
  <2> QED BY <2>1, <2>2 DEF To
<1>2. HasOwnName(c) => m.origin = c
  BY <1>1 DEF ToClient, HasOwnName, Msg
<1>m. Moves(s2c, c2s, c, s2c', c2s')
  BY DEF Moves
<1>3. AllPending(s2c', next_id, waiting) /\ AllPending(c2s', next_id, waiting)
  BY <1>0, <1>m, MovePending DEF CopyInv
<1>4. ASSUME NEW r \in Msg, Pending(r, next_id, waiting), ~SameCall(r, m) PROVE Pending(r, next_id, w)
  <2>1. r.origin \in Clients
    BY DEF Msg
  <2>2. \A i \in waiting[r.origin] : (r.origin # c \/ i # m.id) => i \in w[r.origin]
    BY <1>0, <2>1
  <2> QED BY <1>2, <1>4, <2>1, <2>2 DEF Pending, SameCall
<1>5. s2c' \in Channels /\ \A d \in Clients : \A k \in 1 .. Len(s2c'[d]) :
        \E j \in 1 .. Len(s2c[d]) : s2c'[d][k] = s2c[d][j] /\ j = IF d = c THEN k + 1 ELSE k
  BY <1>0, <1>m, MoveOrigins
<1>6. ASSUME NEW d \in Clients, NEW k \in 1 .. Len(s2c'[d]) PROVE Pending(s2c'[d][k], next_id, w)
  <2>1. PICK j \in 1 .. Len(s2c[d]) : s2c'[d][k] = s2c[d][j] /\ j = IF d = c THEN k + 1 ELSE k
    BY <1>5
  <2>2. ~(d = c /\ j = 1)
    BY <2>1
  <2>3. ~SameCall(s2c[d][j], m)
    BY <1>1, <2>2 DEF CopyInv, Unique, OncePer
  <2>4. s2c'[d][k] \in Msg
    BY <1>5 DEF Channels
  <2> QED BY <1>3, <1>4, <2>1, <2>3, <2>4 DEF AllPending
<1>7. ASSUME NEW d \in Clients, NEW k \in 1 .. Len(c2s'[d]) PROVE Pending(c2s'[d][k], next_id, w)
  <2>1. ~SameCall(c2s'[d][k], m)
    BY <1>1 DEF CopyInv, Unique, Apart
  <2>2. c2s'[d][k] \in Msg
    BY <1>0 DEF Channels
  <2> QED BY <1>3, <1>4, <2>1, <2>2 DEF AllPending
<1> QED BY <1>6, <1>7 DEF AllPending

(* A bus that is serial was serial.                                        *)
LEMMA WasSerial == BusInv /\ Serial' /\ [Next]_vars => Serial
<1> SUFFICES ASSUME BusInv, Serial', [Next]_vars PROVE Serial
  OBVIOUS
<1>1. ASSUME UNCHANGED overlaps PROVE Serial
  BY <1>1 DEF Serial
<1>2. ASSUME NEW c \in Clients, ClientHandle(c) \/ Connect(c) \/ Disconnect(c) PROVE Serial
  BY <1>1, <1>2, SerialSend
     DEF ClientHandle, ClientHandleRequest, ClientHandleResponse, Connect, Disconnect, outVars
<1>3. ASSUME NEW c \in Clients, ServerHandle(c) PROVE Serial
  <2>1. CASE UNCHANGED overlaps
    BY <1>1, <2>1
  <2>2. CASE ~UNCHANGED overlaps
    <3>1. \E d, m : Send(s2c, s_out, d, m, s2c', s_out')
      BY <1>3, <2>2 DEF ServerHandle, ServerHandleLocal, ServerForwardRequest, ServerForwardResponse
    <3> QED BY <3>1, SerialSend
  <2> QED BY <2>1, <2>2
<1>4. ASSUME NEW c \in Clients, NEW p, NEW f, NEW arg, Invoke(c, p, f, arg) PROVE Serial
  BY <1>4, SerialSend DEF Invoke
<1>5. CASE UNCHANGED vars
  BY <1>1, <1>5 DEF vars, outVars
<1> QED BY <1>2, <1>3, <1>4, <1>5 DEF Next, Start, AddMethod, Call

LEMMA CopyInit == Init => CopyInv
<1> SUFFICES ASSUME Init PROVE CopyInv
  OBVIOUS
<1>1. \A c \in Clients : Len(c2s[c]) = 0 /\ Len(s2c[c]) = 0
  BY DEF Init
<1>2. Unique(c2s, s2c) /\ AllPending(c2s, next_id, waiting) /\ AllPending(s2c, next_id, waiting)
  BY <1>1 DEF Unique, OncePer, Apart, AllPending
<1> QED BY <1>2, BusInit DEF CopyInv

(* Every step keeps the calls on the bus apart and pending.                *)
LEMMA CopyStep == CopyInv /\ Serial' /\ [Next]_vars => CopyInv'
<1> SUFFICES ASSUME CopyInv, Serial', [Next]_vars PROVE CopyInv'
  OBVIOUS
<1>0. BusInv /\ BusInv' /\ c2s \in Channels /\ s2c \in Channels
  BY BusStep DEF CopyInv, BusInv, TypeOK, Channels
<1>1. ASSUME UNCHANGED <<c2s, s2c, next_id, waiting>> PROVE CopyInv'
  BY <1>0, <1>1 DEF CopyInv
<1>2. ASSUME NEW c \in Clients, Connect(c) PROVE CopyInv'
  BY <1>1, <1>2 DEF Connect, clientVars
<1>3. ASSUME NEW c \in Clients, Start(c) PROVE CopyInv'
  <2>1. EmptyName \in Providers /\ "RegisterService" \in AllMethods
    BY DEF Providers, AllMethods, LocalMethods
  <2> QED BY <1>0, <1>3, <2>1, CopyInvoke DEF Start
<1>4. ASSUME NEW c \in Clients, NEW f \in Methods, AddMethod(c, f) PROVE CopyInv'
  <2>1. SvcMgr \in Providers /\ "AddMethod" \in AllMethods
    BY DEF Providers, AllMethods
  <2> QED BY <1>0, <1>4, <2>1, CopyInvoke DEF AddMethod
<1>5. ASSUME NEW c \in Clients, NEW p \in Names \cup {EmptyName}, NEW f \in Methods, Call(c, p, f) PROVE CopyInv'
  <2>1. p \in Providers /\ f \in AllMethods
    BY DEF Providers, AllMethods
  <2> QED BY <1>0, <1>5, <2>1, CopyInvoke DEF Call
<1>6. ASSUME NEW c \in Clients, ClientHandle(c) PROVE CopyInv'
  <2>1. /\ Moves(s2c, c2s, c, s2c', c2s') /\ UNCHANGED <<link, router, next_id, regid>>
        /\ \/ UNCHANGED waiting
           \/ /\ ~Head(s2c[c]).req /\ c2s' = c2s
              /\ waiting' = [waiting EXCEPT ![c] = @ \ {Head(s2c[c]).id}]
    BY <1>0, <1>6, ClientHandleMoves
  <2>2. Unique(c2s', s2c')
    BY <1>0, <2>1, MoveUnique, UniqueSymmetric DEF CopyInv
  <2>3. CASE UNCHANGED waiting
    BY <1>0, <2>1, <2>2, <2>3, MovePending DEF CopyInv
  <2>4. CASE /\ ~Head(s2c[c]).req /\ c2s' = c2s
             /\ waiting' = [waiting EXCEPT ![c] = @ \ {Head(s2c[c]).id}]
    <3>1. s2c[c] # <<>> /\ s2c' = Consumed(s2c, c)
      BY <2>1 DEF Moves
    <3>2. AllPending(c2s', next_id, waiting') /\ AllPending(s2c', next_id, waiting')
      BY <2>4, <3>1, ResponsePending
    <3> QED BY <1>0, <2>1, <2>2, <3>2 DEF CopyInv
  <2> QED BY <2>1, <2>3, <2>4
<1>7. ASSUME NEW c \in Clients, ServerHandle(c) PROVE CopyInv'
  <2>1. Moves(c2s, s2c, c, c2s', s2c') /\ UNCHANGED <<link, next_id, waiting, regid>>
    BY <1>0, <1>7, ServerHandleMoves
  <2>2. Unique(c2s', s2c')
    BY <1>0, <2>1, MoveUnique DEF CopyInv
  <2> QED BY <1>0, <2>1, <2>2, MovePending DEF CopyInv
<1>8. ASSUME NEW c \in Clients, Disconnect(c) PROVE CopyInv'
  <2>1. UNCHANGED <<next_id, waiting>>
    BY <1>8 DEF Disconnect, clientVars
  <2>2. \A d \in Clients : /\ c2s'[d] = IF d = c THEN <<>> ELSE c2s[d]
                           /\ s2c'[d] = IF d = c THEN <<>> ELSE s2c[d]
    BY <1>0, <1>8 DEF Disconnect, Channels
  <2>3. \A d \in Clients : /\ \A k \in 1 .. Len(c2s'[d]) : k \in 1 .. Len(c2s[d]) /\ c2s'[d][k] = c2s[d][k]
                           /\ \A k \in 1 .. Len(s2c'[d]) : k \in 1 .. Len(s2c[d]) /\ s2c'[d][k] = s2c[d][k]
    BY <2>2
  <2>4. Unique(c2s', s2c')
    <3>1. OncePer(c2s')
      BY <2>3 DEF CopyInv, Unique, OncePer
    <3>2. OncePer(s2c')
      BY <2>3 DEF CopyInv, Unique, OncePer
    <3>3. Apart(c2s', s2c')
      BY <2>3 DEF CopyInv, Unique, Apart
    <3> QED BY <3>1, <3>2, <3>3 DEF Unique
  <2>5. AllPending(c2s', next_id, waiting) /\ AllPending(s2c', next_id, waiting)
    BY <2>3 DEF CopyInv, AllPending
  <2> QED BY <1>0, <2>1, <2>4, <2>5 DEF CopyInv
<1>9. CASE UNCHANGED vars
  BY <1>1, <1>9 DEF vars, clientVars
<1> QED BY <1>2, <1>3, <1>4, <1>5, <1>6, <1>7, <1>8, <1>9 DEF Next

LEMMA CopyInvariant == Spec => [](Serial => CopyInv)
<1>1. BusInv /\ (Serial => CopyInv) /\ [Next]_vars => (Serial => CopyInv)'
  BY CopyStep, WasSerial
<1> QED BY <1>1, CopyInit, BusInvariant, PTL DEF Spec

(* The copies of a call are one message at most.                           *)
LEMMA OneCopy ==
    ASSUME CopyInv, NEW o \in Clients, NEW i \in Ids
    PROVE  /\ Cardinality(Copies(o, i)) <= 1
           /\ (HasOwnName(o) /\ Copies(o, i) # {}) => i \in waiting[o]
<1>0. c2s \in Channels /\ s2c \in Channels
  BY DEF CopyInv, BusInv, TypeOK, Channels
<1>1. ASSUME NEW x \in Copies(o, i)
      PROVE  \E c \in Clients :
                \/ \E k \in 1 .. Len(c2s[c]) : x = <<c, "c2s", k>> /\ c2s[c][k].origin = o /\ c2s[c][k].id = i
                \/ \E k \in 1 .. Len(s2c[c]) : x = <<c, "s2c", k>> /\ s2c[c][k].origin = o /\ s2c[c][k].id = i
  <2> DEFINE Places(q) == {k \in DOMAIN q : q[k].origin = o /\ q[k].id = i}
  <2>1. PICK c \in Clients : x \in ({c} \X {"c2s"} \X Places(c2s[c])) \cup ({c} \X {"s2c"} \X Places(s2c[c]))
    BY DEF Copies
  <2>2. DOMAIN c2s[c] = 1 .. Len(c2s[c]) /\ DOMAIN s2c[c] = 1 .. Len(s2c[c])
    BY <1>0 DEF Channels
  <2>3. CASE x \in {c} \X {"c2s"} \X Places(c2s[c])
    <3>1. PICK k \in Places(c2s[c]) : x = <<c, "c2s", k>>
      BY <2>3
    <3> QED BY <2>2, <3>1
  <2>4. CASE x \in {c} \X {"s2c"} \X Places(s2c[c])
    <3>1. PICK k \in Places(s2c[c]) : x = <<c, "s2c", k>>
      BY <2>4
    <3> QED BY <2>2, <3>1
  <2> QED BY <2>1, <2>3, <2>4
<1>2. ASSUME NEW x \in Copies(o, i), NEW y \in Copies(o, i) PROVE x = y
  <2> DEFINE At(ch, c, k) == k \in 1 .. Len(ch[c]) /\ ch[c][k].origin = o /\ ch[c][k].id = i
  <2>1. PICK c \in Clients : \/ \E k \in 1 .. Len(c2s[c]) : x = <<c, "c2s", k>> /\ At(c2s, c, k)
                            \/ \E k \in 1 .. Len(s2c[c]) : x = <<c, "s2c", k>> /\ At(s2c, c, k)
    BY <1>1
  <2>2. PICK d \in Clients : \/ \E k \in 1 .. Len(c2s[d]) : y = <<d, "c2s", k>> /\ At(c2s, d, k)
                            \/ \E k \in 1 .. Len(s2c[d]) : y = <<d, "s2c", k>> /\ At(s2c, d, k)
    BY <1>1
  <2>3. ASSUME NEW k, NEW j, At(c2s, c, k), At(c2s, d, j) PROVE c = d /\ k = j
    BY <2>3 DEF CopyInv, Unique, OncePer, SameCall
  <2>4. ASSUME NEW k, NEW j, At(s2c, c, k), At(s2c, d, j) PROVE c = d /\ k = j
    BY <2>4 DEF CopyInv, Unique, OncePer, SameCall
  <2>5. ASSUME NEW c1 \in Clients, NEW c2 \in Clients, NEW k, NEW j, At(c2s, c1, k), At(s2c, c2, j) PROVE FALSE
    BY <2>5 DEF CopyInv, Unique, Apart, SameCall
  <2> HIDE DEF At
  <2> QED BY <2>1, <2>2, <2>3, <2>4, <2>5
<1>3. ASSUME NEW x \in Copies(o, i), HasOwnName(o) PROVE i \in waiting[o]
  BY <1>1, <1>3 DEF CopyInv, AllPending, Pending
<1>4. CASE Copies(o, i) = {}
  BY <1>4, FS_EmptySet
<1>5. CASE Copies(o, i) # {}
  <2>1. PICK x : x \in Copies(o, i)
    BY <1>5
  <2>2. Copies(o, i) = {x}
    BY <1>2, <2>1
  <2>3. Cardinality({x}) = 1
    BY FS_Singleton
  <2> QED BY <1>3, <2>1, <2>2, <2>3
<1> QED BY <1>4, <1>5

(* Forwarding and serving consume the message they handle, ids are given   *)
(* out once, and a response is matched once: as long as no Sends have      *)
(* overlapped there is never more than one copy of a call's request or     *)
(* response on the bus, and a caller whose name is its own waits for it    *)
(* (BusInvoker::ACall, HandleRequestMessage, HandleResponseMessage).       *)
THEOREM CallsAreSingle == Spec => []AtMostOneCopy
<1>1. (Serial => CopyInv) => AtMostOneCopy
  BY OneCopy DEF AtMostOneCopy
<1> QED BY <1>1, CopyInvariant, PTL

-----------------------------------------------------------------------------
(* The way back.  x and y stand for c2s and s2c, rid for regid[o].         *)

(* A message of a call that o made after its Start.                        *)
Later(o, m, rid) == m.origin = o /\ m.id > rid

IsRegistration(o, m) == m.req /\ IsLocal(m) /\ m.method = "RegisterService" /\ m.arg = NameOf[o]

(* The registration of o is the p-th message of its connection; the calls  *)
(* that o made later are requests behind it.                               *)
Registering(o, p, x, y, rid) ==
    /\ p \in 1 .. Len(x[o]) /\ IsRegistration(o, x[o][p])
    /\ \A c \in Clients : \A k \in 1 .. Len(y[c]) : ~Later(o, y[c][k], rid)
    /\ \A c \in Clients : \A k \in 1 .. Len(x[c]) :
        Later(o, x[c][k], rid) => c = o /\ k > p /\ x[c][k].req

(* A client that is connected and has started is routed to, or will be     *)
(* when its registration arrives.                                          *)
Reachable(o) ==
    (HasOwnName(o) /\ regid[o] # 0 /\ link[o] = "up") =>
        router[NameOf[o]] = o \/ \E p \in Nat : Registering(o, p, c2s, s2c, regid[o])

RouteInv ==
    /\ \A o \in Clients : link[o] = "new" => regid[o] = 0
    /\ \A o \in Clients : Reachable(o)

(* The server takes a message of another client, or one before the         *)
(* registration: what it sends on is not of a later call.                  *)
LEMMA ServerPasses ==
    ASSUME NEW x \in Channels, NEW y \in Channels, NEW c \in Clients, NEW x2, NEW y2, Moves(x, y, c, x2, y2),
           NEW o \in Clients, NEW p \in Nat, NEW rid, Registering(o, p, x, y, rid), c # o \/ p # 1
    PROVE  \E q \in Nat : Registering(o, q, x2, y2, rid)
<1>1. 1 \in 1 .. Len(x[c])
  BY MoveOrigins
<1>2. \A d \in Clients : \A k \in 1 .. Len(x2[d]) :
        \E j \in 1 .. Len(x[d]) : x2[d][k] = x[d][j] /\ j = IF d = c THEN k + 1 ELSE k
  BY MoveOrigins
<1>3. PICK to \in Clients : \A d \in Clients : \A k \in 1 .. Len(y2[d]) :
        \/ k \in 1 .. Len(y[d]) /\ y2[d][k] = y[d][k]
        \/ d = to /\ k = Len(y[d]) + 1 /\ SameCall(y2[d][k], x[c][1])
  BY MoveOrigins
<1>4. /\ \A d \in Clients \ {c} : x2[d] = x[d]
      /\ Len(x[c]) \in Nat \ {0} /\ Len(x2[c]) = Len(x[c]) - 1
      /\ \A k \in 1 .. Len(x2[c]) : x2[c][k] = x[c][k + 1]
  BY TailPositions DEF Moves
<1> DEFINE q == IF c = o THEN p - 1 ELSE p
<1>5. q \in Nat /\ q \in 1 .. Len(x2[o]) /\ x2[o][q] = x[o][p]
  BY <1>4 DEF Registering
<1>6. ~Later(o, x[c][1], rid)
  BY <1>1 DEF Registering
<1>7. ASSUME NEW d \in Clients, NEW k \in 1 .. Len(y2[d]) PROVE ~Later(o, y2[d][k], rid)
  BY <1>3, <1>6, <1>7 DEF Registering, Later, SameCall
<1>8. ASSUME NEW d \in Clients, NEW k \in 1 .. Len(x2[d]), Later(o, x2[d][k], rid)
      PROVE  d = o /\ k > q /\ x2[d][k].req
  <2>1. PICK j \in 1 .. Len(x[d]) : x2[d][k] = x[d][j] /\ j = IF d = c THEN k + 1 ELSE k
    BY <1>2
  <2>2. d = o /\ j > p /\ x[d][j].req
    BY <1>8, <2>1 DEF Registering
  <2> QED BY <1>5, <2>1, <2>2
<1> HIDE DEF q
<1>9. Registering(o, q, x2, y2, rid)
  BY <1>5, <1>7, <1>8 DEF Registering
<1> QED BY <1>5, <1>9

(* A client takes a message: none is of a later call.                      *)
LEMMA ClientPasses ==
    ASSUME NEW x \in Channels, NEW y \in Channels, NEW c \in Clients, NEW x2, NEW y2, Moves(y, x, c, y2, x2),
           NEW o \in Clients, NEW p \in Nat, NEW rid, Registering(o, p, x, y, rid)
    PROVE  Registering(o, p, x2, y2, rid)
<1>1. 1 \in 1 .. Len(y[c])
  BY MoveOrigins
<1>2. \A d \in Clients : \A k \in 1 .. Len(y2[d]) :
        \E j \in 1 .. Len(y[d]) : y2[d][k] = y[d][j] /\ j = IF d = c THEN k + 1 ELSE k
  BY MoveOrigins
<1>3. PICK to \in Clients : \A d \in Clients : \A k \in 1 .. Len(x2[d]) :
        \/ k \in 1 .. Len(x[d]) /\ x2[d][k] = x[d][k]
        \/ d = to /\ k = Len(x[d]) + 1 /\ SameCall(x2[d][k], y[c][1])
  BY MoveOrigins
<1>4. p \in 1 .. Len(x2[o]) /\ x2[o][p] = x[o][p]
  <2>1. CASE x2 = x
    BY <2>1 DEF Registering
  <2>2. ASSUME NEW t \in Clients, NEW m \in Msg, x2 = Delivered(x, t, m)
        PROVE  p \in 1 .. Len(x2[o]) /\ x2[o][p] = x[o][p]
    <3>1. /\ \A d \in Clients \ {t} : x2[d] = x[d]
          /\ Len(x[t]) \in Nat
          /\ x2 = x \/ /\ Len(x2[t]) = Len(x[t]) + 1
                       /\ \A k \in 1 .. Len(x[t]) : x2[t][k] = x[t][k]
      BY <2>2, SendPositions
    <3> QED BY <3>1 DEF Registering
  <2> QED BY <2>1, <2>2 DEF Moves
<1>5. ~Later(o, y[c][1], rid)
  BY <1>1 DEF Registering
<1>6. ASSUME NEW d \in Clients, NEW k \in 1 .. Len(x2[d]), Later(o, x2[d][k], rid)
      PROVE  d = o /\ k > p /\ x2[d][k].req
  BY <1>3, <1>5, <1>6 DEF Registering, Later, SameCall
<1>7. ASSUME NEW d \in Clients, NEW k \in 1 .. Len(y2[d]) PROVE ~Later(o, y2[d][k], rid)
  <2>1. PICK j \in 1 .. Len(y[d]) : y2[d][k] = y[d][j]
    BY <1>2
  <2> QED BY <2>1 DEF Registering
<1> QED BY <1>4, <1>6, <1>7 DEF Registering

(* Another call goes behind the registration.                              *)
LEMMA CallPasses ==
    ASSUME NEW x \in Channels, NEW y \in Channels, NEW c \in Clients, NEW m \in Msg, m.req, m.origin = c,
           NEW x2, x2 = Delivered(x, c, m),
           NEW o \in Clients, NEW p \in Nat, NEW rid, Registering(o, p, x, y, rid)
    PROVE  Registering(o, p, x2, y, rid)
<1>1. /\ \A d \in Clients \ {c} : x2[d] = x[d]
      /\ Len(x[c]) \in Nat
      /\ x2 = x \/ /\ Len(x2[c]) = Len(x[c]) + 1 /\ x2[c][Len(x[c]) + 1] = m
                   /\ \A k \in 1 .. Len(x[c]) : x2[c][k] = x[c][k]
  BY SendPositions
<1>2. CASE x2 = x
  BY <1>2
<1>3. CASE x2 # x
  <2>1. p \in 1 .. Len(x2[o]) /\ x2[o][p] = x[o][p]
    BY <1>1 DEF Registering
  <2>2. ASSUME NEW d \in Clients, NEW k \in 1 .. Len(x2[d]), Later(o, x2[d][k], rid)
        PROVE  d = o /\ k > p /\ x2[d][k].req
    <3>1. CASE d # c \/ k \in 1 .. Len(x[c])
      <4>1. k \in 1 .. Len(x[d]) /\ x2[d][k] = x[d][k]
        BY <1>1, <1>3, <3>1
      <4> QED BY <2>2, <4>1 DEF Registering
    <3>2. CASE d = c /\ k \notin 1 .. Len(x[c])
      <4>1. k = Len(x[c]) + 1 /\ x2[d][k] = m
        BY <1>1, <1>3, <3>2
      <4>2. d = o
        BY <2>2, <3>2, <4>1 DEF Later
      <4> QED BY <1>1, <3>2, <4>1, <4>2 DEF Registering
    <3> QED BY <3>1, <3>2
  <2> QED BY <2>1, <2>2 DEF Registering
<1> QED BY <1>2, <1>3

(* Start sends the registration: no call is later yet.                     *)
LEMMA StartRegisters ==
    ASSUME CopyInv, NEW o \in Clients, link[o] = "up", NEW m \in Msg, m.origin = o, m.id = next_id[o],
           IsRegistration(o, m), NEW x2, x2 = Delivered(c2s, o, m)
    PROVE  \E p \in Nat : Registering(o, p, x2, s2c, next_id[o])
<1>0. c2s \in Channels /\ s2c \in Channels /\ next_id[o] \in Nat
  BY MaxCallsAssumption DEF CopyInv, BusInv, TypeOK, Channels
<1>1. /\ \A d \in Clients \ {o} : x2[d] = c2s[d]
      /\ Len(c2s[o]) \in Nat /\ Len(x2[o]) = Len(c2s[o]) + 1 /\ x2[o][Len(c2s[o]) + 1] = m
      /\ \A k \in 1 .. Len(c2s[o]) : x2[o][k] = c2s[o][k]
  BY <1>0, SendPositions
<1> DEFINE p == Len(c2s[o]) + 1
<1>2. p \in Nat /\ p \in 1 .. Len(x2[o]) /\ x2[o][p] = m
  BY <1>1
<1>3. ASSUME NEW r \in Msg, Pending(r, next_id, waiting) PROVE ~Later(o, r, next_id[o])
  <2>1. r.id \in Ids
    BY DEF Msg
  <2>2. r.id \in Nat
    BY <2>1, MaxCallsAssumption DEF Ids
  <2> QED BY <1>0, <1>3, <2>2 DEF Pending, Later
<1>4. ASSUME NEW d \in Clients, NEW k \in 1 .. Len(s2c[d]) PROVE ~Later(o, s2c[d][k], next_id[o])
  <2>1. s2c[d][k] \in Msg /\ Pending(s2c[d][k], next_id, waiting)
    BY <1>0 DEF Channels, CopyInv, AllPending
  <2> QED BY <1>3, <2>1
<1>5. ASSUME NEW d \in Clients, NEW k \in 1 .. Len(x2[d]) PROVE ~Later(o, x2[d][k], next_id[o])
  <2>1. CASE d # o \/ k \in 1 .. Len(c2s[o])
    <3>1. k \in 1 .. Len(c2s[d]) /\ x2[d][k] = c2s[d][k]
      BY <1>1, <2>1
    <3>2. c2s[d][k] \in Msg /\ Pending(c2s[d][k], next_id, waiting)
      BY <1>0, <3>1 DEF Channels, CopyInv, AllPending
    <3> QED BY <1>3, <3>1, <3>2
  <2>2. CASE d = o /\ k \notin 1 .. Len(c2s[o])
    <3>1. x2[d][k] = m
      BY <1>1, <2>2
    <3> QED BY <1>0, <3>1 DEF Later
  <2> QED BY <2>1, <2>2
<1> HIDE DEF p
<1>6. Registering(o, p, x2, s2c, next_id[o])
  BY <1>2, <1>4, <1>5 DEF Registering
<1> QED BY <1>2, <1>6

LEMMA RouteInit == Init => RouteInv
BY DEF Init, RouteInv, Reachable

(* Calls other than Start, by any client.                                  *)
LEMMA RouteInvoke ==
    ASSUME BusInv, Serial', RouteInv, NEW c \in Clients, NEW p \in Providers, NEW f \in AllMethods,
           NEW arg \in {NameOf[c], EmptyName}, Invoke(c, p, f, arg), UNCHANGED <<link, s2c, router, regid>>
    PROVE  RouteInv'
<1>0. c2s \in Channels /\ s2c \in Channels
  BY DEF BusInv, TypeOK, Channels
<1>1. PICK m \in Msg : m.req /\ m.origin = c /\ c2s' = Delivered(c2s, c, m)
  BY InvokeMakes
<1>2. ASSUME NEW o \in Clients PROVE Reachable(o)'
  <2> SUFFICES ASSUME HasOwnName(o), regid[o] # 0, link[o] = "up", router[NameOf[o]] # o
               PROVE  \E q \in Nat : Registering(o, q, c2s', s2c', regid[o])
    BY DEF Reachable, HasOwnName
  <2>1. PICK q \in Nat : Registering(o, q, c2s, s2c, regid[o])
    BY DEF RouteInv, Reachable
  <2>2. Registering(o, q, c2s', s2c, regid[o])
    BY <1>0, <1>1, <2>1, CallPasses
  <2> QED BY <2>2
<1> QED BY <1>2 DEF RouteInv

(* Every step keeps the way back of a client that has started.             *)
LEMMA RouteStep == CopyInv /\ RouteInv /\ Serial' /\ [Next]_vars => RouteInv'
<1> SUFFICES ASSUME CopyInv, RouteInv, Serial', [Next]_vars PROVE RouteInv'
  OBVIOUS
<1>0. BusInv /\ c2s \in Channels /\ s2c \in Channels /\ TypeOK
  BY DEF CopyInv, BusInv, TypeOK, Channels
<1>1. ASSUME NEW c \in Clients, Connect(c) PROVE RouteInv'
  <2>1. UNCHANGED <<c2s, s2c, router, regid>> /\ link[c] = "new" /\ link' = [link EXCEPT ![c] = "up"]
    BY <1>1 DEF Connect, clientVars
  <2>2. regid[c] = 0 /\ \A o \in Clients : link'[o] = IF o = c THEN "up" ELSE link[o]
    BY <1>0, <2>1 DEF RouteInv, TypeOK
  <2> QED BY <2>1, <2>2 DEF RouteInv, Reachable
<1>2. ASSUME NEW c \in Clients, Start(c) PROVE RouteInv'
  <2>1. /\ link[c] # "new" /\ Invoke(c, EmptyName, "RegisterService", NameOf[c])
        /\ regid' = [regid EXCEPT ![c] = next_id[c]] /\ UNCHANGED <<link, s2c, router>>
    BY <1>2 DEF Start
  <2>2. EmptyName \in Providers /\ "RegisterService" \in AllMethods
    BY DEF Providers, AllMethods, LocalMethods
  <2>3. PICK m \in Msg : /\ m.req /\ m.origin = c /\ m.id = next_id[c] /\ m.provider = EmptyName
                         /\ m.method = "RegisterService" /\ m.arg = NameOf[c] /\ c2s' = Delivered(c2s, c, m)
    BY <1>0, <2>1, <2>2, InvokeMakes
  <2>4. IsRegistration(c, m)
    BY <2>3 DEF IsRegistration, IsLocal
  <2>5. \A o \in Clients : regid'[o] = IF o = c THEN next_id[c] ELSE regid[o]
    BY <1>0, <2>1 DEF TypeOK
  <2>6. ASSUME NEW o \in Clients PROVE Reachable(o)'
    <3> SUFFICES ASSUME HasOwnName(o), regid'[o] # 0, link[o] = "up", router[NameOf[o]] # o
                 PROVE  \E q \in Nat : Registering(o, q, c2s', s2c', regid'[o])
      BY <2>1 DEF Reachable, HasOwnName
    <3>1. CASE o = c
      <4>1. \E q \in Nat : Registering(c, q, c2s', s2c, next_id[c])
        BY <2>3, <2>4, <3>1, StartRegisters
      <4> QED BY <2>1, <2>5, <3>1, <4>1
    <3>2. CASE o # c
      <4>1. PICK q \in Nat : Registering(o, q, c2s, s2c, regid[o])
        BY <2>5, <3>2 DEF RouteInv, Reachable
      <4>2. Registering(o, q, c2s', s2c, regid[o])
        BY <1>0, <2>3, <4>1, CallPasses
      <4> QED BY <2>1, <2>5, <3>2, <4>2
    <3> QED BY <3>1, <3>2
  <2> QED BY <2>1, <2>5, <2>6 DEF RouteInv
<1>3. ASSUME NEW c \in Clients, NEW f \in Methods, AddMethod(c, f) PROVE RouteInv'
  <2>1. SvcMgr \in Providers /\ "AddMethod" \in AllMethods
    BY DEF Providers, AllMethods
  <2> QED BY <1>0, <1>3, <2>1, RouteInvoke DEF AddMethod
<1>4. ASSUME NEW c \in Clients, NEW p \in Names \cup {EmptyName}, NEW f \in Methods, Call(c, p, f) PROVE RouteInv'
  <2>1. p \in Providers /\ f \in AllMethods
    BY DEF Providers, AllMethods
  <2> QED BY <1>0, <1>4, <2>1, RouteInvoke DEF Call
<1>5. ASSUME NEW c \in Clients, ClientHandle(c) PROVE RouteInv'
  <2>1. Moves(s2c, c2s, c, s2c', c2s') /\ UNCHANGED <<link, router, regid>>
    BY <1>0, <1>5, ClientHandleMoves
  <2>2. ASSUME NEW o \in Clients, NEW p \in Nat, Registering(o, p, c2s, s2c, regid[o])
        PROVE  Registering(o, p, c2s', s2c', regid[o])
    BY <1>0, <2>1, <2>2, ClientPasses
  <2> QED BY <2>1, <2>2 DEF RouteInv, Reachable
<1>6. ASSUME NEW c \in Clients, ServerHandle(c) PROVE RouteInv'
  <2> DEFINE m == Head(c2s[c])
  <2>1. /\ Moves(c2s, s2c, c, c2s', s2c') /\ UNCHANGED <<link, regid>>
        /\ \/ UNCHANGED router /\ ~(m.req /\ IsLocal(m) /\ m.method = "RegisterService")
           \/ m.req /\ router' = [router EXCEPT ![m.arg] = c]
    BY <1>0, <1>6, ServerHandleMoves
  <2>2. m \in Msg /\ m = c2s[c][1] /\ FromClient(c, m)
    <3>1. m = c2s[c][1] /\ 1 \in 1 .. Len(c2s[c])
      BY <1>0, <2>1, HeadElement DEF Moves
    <3>2. m \in From[c]
      BY <1>0, <3>1, Carried DEF BusInv, C2sInv
    <3> QED BY <3>1, <3>2 DEF From
  <2>3. m.req => m.arg \in {NameOf[c], EmptyName}
    BY <2>2 DEF FromClient
  <2> HIDE DEF m
  <2>4. \A n \in Names : \/ router'[n] = router[n]
                         \/ n = m.arg /\ m.req /\ router'[n] = c
    BY <1>0, <2>1 DEF TypeOK
  <2>5. ASSUME NEW o \in Clients PROVE Reachable(o)'
    <3> SUFFICES ASSUME HasOwnName(o), regid[o] # 0, link[o] = "up", router'[NameOf[o]] # o
                 PROVE  \E q \in Nat : Registering(o, q, c2s', s2c', regid[o])
      BY <2>1 DEF Reachable, HasOwnName
    <3>0. NameOf[o] \in Names /\ NameOf[c] \in Names /\ NameOf[o] # EmptyName
      BY NameAssumption
    <3>1. router[NameOf[o]] # o
      BY <2>3, <2>4, <3>0 DEF HasOwnName
    <3>2. PICK p \in Nat : Registering(o, p, c2s, s2c, regid[o])
      BY <3>1 DEF RouteInv, Reachable
    <3>3. c # o \/ p # 1
      <4> SUFFICES ASSUME c = o, p = 1 PROVE FALSE
        OBVIOUS
      <4>1. m.req /\ IsLocal(m) /\ m.method = "RegisterService" /\ m.arg = NameOf[o]
        BY <2>2, <3>2 DEF Registering, IsRegistration
      <4>2. router' = [router EXCEPT ![NameOf[o]] = o]
        BY <2>1, <4>1
      <4> QED BY <1>0, <3>0, <4>2 DEF TypeOK
    <3> QED BY <1>0, <2>1, <3>2, <3>3, ServerPasses
  <2> QED BY <2>1, <2>5 DEF RouteInv
<1>7. ASSUME NEW c \in Clients, Disconnect(c) PROVE RouteInv'
  <2>1. /\ UNCHANGED regid /\ link' = [link EXCEPT ![c] = "closed"]
        /\ router' = [router EXCEPT ![EmptyName] = nullconn]
    BY <1>7 DEF Disconnect, clientVars, ContextName
  <2>2. \A d \in Clients : /\ c2s'[d] = IF d = c THEN <<>> ELSE c2s[d]
                           /\ s2c'[d] = IF d = c THEN <<>> ELSE s2c[d]
                           /\ link'[d] = IF d = c THEN "closed" ELSE link[d]
    BY <1>0, <1>7 DEF Disconnect, Channels, TypeOK
  <2>3. \A n \in Names : router'[n] = router[n]
    BY <1>0, <2>1, NameAssumption DEF TypeOK
  <2>4. ASSUME NEW o \in Clients PROVE Reachable(o)'
    <3> SUFFICES ASSUME HasOwnName(o), regid[o] # 0, link'[o] = "up", router'[NameOf[o]] # o
                 PROVE  \E q \in Nat : Registering(o, q, c2s', s2c', regid[o])
      BY <2>1 DEF Reachable, HasOwnName
    <3>1. o # c /\ link[o] = "up" /\ router[NameOf[o]] # o
      BY <2>2, <2>3, NameAssumption
    <3>2. PICK p \in Nat : Registering(o, p, c2s, s2c, regid[o])
      BY <3>1 DEF RouteInv, Reachable
    <3>3. \A d \in Clients : /\ \A k \in 1 .. Len(c2s'[d]) : k \in 1 .. Len(c2s[d]) /\ c2s'[d][k] = c2s[d][k]
                             /\ \A k \in 1 .. Len(s2c'[d]) : k \in 1 .. Len(s2c[d]) /\ s2c'[d][k] = s2c[d][k]
      BY <2>2
    <3>4. c2s'[o] = c2s[o]
      BY <2>2, <3>1
    <3>5. Registering(o, p, c2s', s2c', regid[o])
      <4>1. p \in 1 .. Len(c2s'[o]) /\ IsRegistration(o, c2s'[o][p])
        BY <3>2, <3>4 DEF Registering
      <4>2. \A d \in Clients : \A k \in 1 .. Len(s2c'[d]) : ~Later(o, s2c'[d][k], regid[o])
        BY <3>2, <3>3 DEF Registering
      <4>3. \A d \in Clients : \A k \in 1 .. Len(c2s'[d]) :
               Later(o, c2s'[d][k], regid[o]) => d = o /\ k > p /\ c2s'[d][k].req
        BY <3>2, <3>3 DEF Registering
      <4> QED BY <4>1, <4>2, <4>3 DEF Registering
    <3> QED BY <3>5
  <2> QED BY <2>1, <2>2, <2>4 DEF RouteInv
<1>8. CASE UNCHANGED vars
  BY <1>8 DEF vars, clientVars, RouteInv, Reachable
<1> QED BY <1>1, <1>2, <1>3, <1>4, <1>5, <1>6, <1>7, <1>8 DEF Next

(* As long as no Sends have overlapped, a call made after Start follows    *)
(* RegisterService on the same connection, so when its request has passed  *)
(* the server the caller's name is routed to it, and stays so while it is  *)
(* connected and nobody else has the name (BusClient::Start,               *)
(* HandleRegisterMethod, HandleResponseMessage).                           *)
THEOREM WayBackExists == Spec => []ReturnPathExists
<1>1. ASSUME CopyInv, RouteInv PROVE ReturnPathExists
  <2> SUFFICES ASSUME NEW c \in Clients, NEW m \in Range(s2c[c]) \cup Range(c2s[c]),
                      MadeAfterStart(m.origin, m.id), link[m.origin] = "up", Forwarded(m) \/ AnsweredByClient(m),
                      router[m.caller] # m.origin
               PROVE  FALSE
    BY DEF ReturnPathExists
  <2>0. c2s \in Channels /\ s2c \in Channels
    BY <1>1 DEF CopyInv, BusInv, TypeOK, Channels
  <2>1. \A d \in Clients : /\ \A r \in Range(c2s[d]) : \E k \in 1 .. Len(c2s[d]) : r = c2s[d][k]
                           /\ \A r \in Range(s2c[d]) : \E k \in 1 .. Len(s2c[d]) : r = s2c[d][k]
    <3>1. ASSUME NEW s \in Seq(Msg), NEW r \in Range(s) PROVE \E k \in 1 .. Len(s) : r = s[k]
      <4>1. DOMAIN s = 1 .. Len(s)
        OBVIOUS
      <4>2. PICK k \in DOMAIN s : r = s[k]
        BY Zenon DEF Range
      <4> QED BY <4>1, <4>2
    <3>2. \A d \in Clients : c2s[d] \in Seq(Msg) /\ s2c[d] \in Seq(Msg)
      BY <2>0 DEF Channels
    <3> QED BY <3>1, <3>2
  <2>2. m \in Msg /\ m.caller = NameOf[m.origin]
    <3>1. CASE m \in Range(c2s[c])
      <4>1. PICK k \in 1 .. Len(c2s[c]) : m = c2s[c][k]
        BY <2>1, <3>1
      <4>2. m \in From[c]
        BY <1>1, <4>1, Carried DEF CopyInv, BusInv, C2sInv
      <4> QED BY <4>2 DEF From, FromClient
    <3>2. CASE m \in Range(s2c[c])
      <4>1. PICK k \in 1 .. Len(s2c[c]) : m = s2c[c][k]
        BY <2>1, <3>2
      <4>2. m \in To[c]
        BY <1>1, <4>1, Carried DEF CopyInv, BusInv, S2cInv
      <4> QED BY <4>2 DEF To, ToClient
    <3> QED BY <3>1, <3>2
  <2> DEFINE o == m.origin
  <2>3. o \in Clients /\ HasOwnName(o) /\ regid[o] # 0 /\ regid[o] \in Nat /\ m.id \in Nat /\ m.id > regid[o]
    <3>1. o \in Clients /\ m.id \in Ids /\ regid[o] \in 0 .. MaxCalls
      BY <1>1, <2>2 DEF Msg, CopyInv, BusInv, TypeOK
    <3>2. m.id \in Nat /\ regid[o] \in Nat
      BY <3>1, MaxCallsAssumption DEF Ids
    <3> QED BY <3>1, <3>2 DEF MadeAfterStart
  <2>4. PICK p \in Nat : Registering(o, p, c2s, s2c, regid[o])
    BY <1>1, <2>2, <2>3 DEF RouteInv, Reachable
  <2>5. Later(o, m, regid[o])
    BY <2>3 DEF Later
  <2> HIDE DEF o
  <2>6. ASSUME Forwarded(m) PROVE FALSE
    <3>1. PICK d \in Clients : m \in Range(s2c[d])
      BY <2>6 DEF Forwarded
    <3>2. PICK k \in 1 .. Len(s2c[d]) : m = s2c[d][k]
      BY <2>1, <3>1
    <3> QED BY <2>4, <2>5, <3>2 DEF Registering
  <2>7. ASSUME AnsweredByClient(m) PROVE FALSE
    <3>1. PICK d \in Clients : ~m.req /\ m \in Range(c2s[d])
      BY <2>7 DEF AnsweredByClient
    <3>2. PICK k \in 1 .. Len(c2s[d]) : m = c2s[d][k]
      BY <2>1, <3>1
    <3> QED BY <2>4, <2>5, <3>1, <3>2 DEF Registering
  <2> QED BY <2>6, <2>7
<1>2. BusInv /\ (Serial => CopyInv) /\ (Serial => RouteInv) /\ [Next]_vars => (Serial => RouteInv)'
  BY RouteStep, WasSerial
<1>3. Spec => [](Serial => RouteInv)
  BY <1>2, RouteInit, BusInvariant, CopyInvariant, PTL DEF Spec
<1>4. (Serial => CopyInv) /\ (Serial => RouteInv) => ReturnPathExists
  BY <1>1 DEF ReturnPathExists
<1> QED BY <1>3, <1>4, CopyInvariant, PTL

=============================================================================
