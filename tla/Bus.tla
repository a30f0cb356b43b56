-------------------------------- MODULE Bus --------------------------------
(***************************************************************************)
(* The whole bus: BusClients (adv/bus/client.cc) connected to one          *)
(* BusServer (server.cc) with its BusRouter (router.cc); both sides serve  *)
(* requests with a BusService (service.cc).                                *)
(*                                                                         *)
(* A client is one BusClient object bound to one transport, so it also     *)
(* names the server's connection to it.  A process that comes back after a *)
(* crash is another client with the same name.  A connection is a pair of  *)
(* channels of whole messages; a broken connection loses what is in        *)
(* flight.  What the transport does to the messages follows TcpConn::Send: *)
(* a Send that overlaps the writing of an earlier one writes messages      *)
(* again or loses them (TcpConn models the bytes; a message cut by such a  *)
(* write is not followed).  The caller's side of a call is reduced to the  *)
(* set of ids in its invoker's waitings_ (BusInvoker models its threads).  *)
(***************************************************************************)
EXTENDS Integers, Sequences, FiniteSets, Functions

CONSTANTS
    Clients,    \* BusClient objects
    Names,      \* service names
    NameOf,     \* the name each client was constructed with
    Methods,    \* methods that clients serve
    nullconn,   \* no connection
    MaxCalls,   \* bound: calls per client (its invoker's ids are 1 .. MaxCalls)
    Quota,      \* bound: calls of each client, at most MaxCalls
    MaxOverlaps \* bound: Sends that overlap the writing of an earlier one

EmptyName == ""         \* the provider of a method without '/', the name of a fresh context
SvcMgr == "SvcMgr"
Server == "server"      \* who answered, when it is the server's local service
LocalMethods == {"RegisterService"}     \* registered in BusServer's constructor

ASSUME ClientAssumption == nullconn \notin Clients
ASSUME NameAssumption ==
    /\ NameOf \in [Clients -> Names]
    /\ Names \cap {EmptyName, SvcMgr} = {}
ASSUME MaxCallsAssumption == MaxCalls \in Nat /\ Quota \in [Clients -> 0 .. MaxCalls]
ASSUME ServerAssumption == Server \notin Clients
ASSUME OverlapAssumption == MaxOverlaps \in Nat

Ids == 1 .. MaxCalls
Providers == Names \cup {EmptyName, SvcMgr}
AllMethods == Methods \cup LocalMethods \cup {"AddMethod", ""}

(* A message.  The fields up to ret travel; origin (the client object that *)
(* made the call), asked (the provider it asked) and by (who served it)    *)
(* are bookkeeping for the properties.                                     *)
Msg == [req : BOOLEAN, id : Ids, caller : Names, provider : Providers,
        method : AllMethods, arg : Names \cup {EmptyName}, ret : {"", "ok", "not found"},
        origin : Clients, asked : Providers, by : Clients \cup {Server, nullconn}]

VARIABLES
    link,       \* state of each client's connection
    c2s, s2c,   \* messages in flight, per connection and direction
    c_out,      \* what may be left in output_buffer_ of the client's transport
    s_out,      \* what may be left in output_buffer_ of the server's connection
    overlaps,   \* history: number of overlapping Sends
    lockstep,   \* history: no message was sent behind one still in flight
    router,     \* BusRouter::connections_
    methods,    \* BusService::methods_ of each client
    next_id,    \* BusInvoker::next_id_ of each client
    waiting,    \* ids in BusInvoker::waitings_ of each client
    regid,      \* id of the RegisterService call of Start, 0 before
    answers     \* responses that found their waiting entry, per client

clientVars == <<methods, next_id, waiting, regid, answers>>
outVars == <<c_out, s_out, overlaps, lockstep>>
vars == <<link, c2s, s2c, outVars, router, clientVars>>

Init ==
    /\ link = [c \in Clients |-> "new"]
    /\ c2s = [c \in Clients |-> <<>>]
    /\ s2c = [c \in Clients |-> <<>>]
    /\ c_out = [c \in Clients |-> <<>>]
    /\ s_out = [c \in Clients |-> <<>>]
    /\ overlaps = 0 /\ lockstep = TRUE
    /\ router = [n \in Names \cup {EmptyName} |-> nullconn]
    /\ methods = [c \in Clients |-> {}]
    /\ next_id = [c \in Clients |-> 1]
    /\ waiting = [c \in Clients |-> {}]
    /\ regid = [c \in Clients |-> 0]
    /\ answers = [c \in Clients |-> {}]

-----------------------------------------------------------------------------
(* Channels: SendMessageToConnection, TcpConn::Send, BusContext::Parse.    *)
(* new and newout stand for the next values of a direction's channels and  *)
(* output buffers.                                                         *)

(* A bug: a message overtakes the ones written before it.                  *)
SendInTurnReordered(channel, out, c, m, new, newout) ==
    /\ new = [channel EXCEPT ![c] = <<m>> \o @]
    /\ newout = [out EXCEPT ![c] = <<m>>]
    /\ lockstep' = (lockstep /\ channel[c] = <<>>)
    /\ UNCHANGED overlaps

(* Every earlier write has completed: the buffer holds this message alone. *)
SendInTurn(channel, out, c, m, new, newout) ==
    /\ new = [channel EXCEPT ![c] = Append(@, m)]
    /\ newout = [out EXCEPT ![c] = <<m>>]
    /\ lockstep' = (lockstep /\ channel[c] = <<>>)
    /\ UNCHANGED overlaps

(* What is written when m is added to a buffer b whose write has not       *)
(* completed: the messages still in b once more, and m once, twice (by the *)
(* write the first completion starts) or not at all (retrieved with the    *)
(* bytes that were written twice).                                         *)
Rewritten(b, m) ==
    UNION {{SubSeq(b, k, Len(b)) \o t : t \in {<<>>, <<m>>, <<m, m>>}} : k \in 1 .. Len(b) + 1}

(* A second WriteToSocket is posted while a write is outstanding.          *)
SendOverlapping(channel, out, c, m, new, newout) ==
    /\ out[c] # <<>> /\ overlaps < MaxOverlaps
    /\ \E w \in Rewritten(out[c], m) : new = [channel EXCEPT ![c] = @ \o w]
    /\ newout = [out EXCEPT ![c] = Append(@, m)]
    /\ overlaps' = overlaps + 1
    /\ lockstep' = FALSE

(* Sending on a connection that is not up loses the message.               *)
Send(channel, out, c, m, new, newout) ==
    \/ /\ link[c] = "up"
       /\ \/ SendInTurn(channel, out, c, m, new, newout)
          \/ SendOverlapping(channel, out, c, m, new, newout)
    \/ /\ link[c] # "up"
       /\ new = channel /\ newout = out
       /\ UNCHANGED <<overlaps, lockstep>>

(* A bug: Parse leaves the bytes of the message in the buffer.             *)
ConsumedNot(channel, c) == channel

(* Parse takes the first message out of the connection's input buffer.     *)
Consumed(channel, c) == [channel EXCEPT ![c] = Tail(@)]

-----------------------------------------------------------------------------
(* BusService::ServeMsg, for the service `by` with the given methods.      *)

(* A bug: resp->set_id(req.id()) is missing, so the id is Msg's default.   *)
ServeMsgNoId(req, served, by) ==
    [req |-> FALSE, id |-> 0, caller |-> req.caller, provider |-> EmptyName,
     method |-> "", arg |-> EmptyName,
     ret |-> IF req.method \in served THEN "ok" ELSE "not found",
     origin |-> req.origin, asked |-> req.asked, by |-> by]

(* The response: the method's result or "not found", the request's id and  *)
(* caller; method and provider stay empty.                                 *)
ServeMsg(req, served, by) ==
    [req |-> FALSE, id |-> req.id, caller |-> req.caller, provider |-> EmptyName,
     method |-> "", arg |-> EmptyName,
     ret |-> IF req.method \in served THEN "ok" ELSE "not found",
     origin |-> req.origin, asked |-> req.asked, by |-> by]

-----------------------------------------------------------------------------
(* Operations of a client.                                                 *)

(* BusInvoker::ACall as the rest of the bus sees it: a new id, an entry in *)
(* waitings_, a request on the transport.                                  *)
Invoke(c, provider, method, arg) ==
    /\ next_id[c] <= Quota[c]
    /\ next_id' = [next_id EXCEPT ![c] = @ + 1]
    /\ waiting' = [waiting EXCEPT ![c] = @ \cup {next_id[c]}]
    /\ Send(c2s, c_out, c,
            [req |-> TRUE, id |-> next_id[c], caller |-> NameOf[c], provider |-> provider,
             method |-> method, arg |-> arg, ret |-> "",
             origin |-> c, asked |-> provider, by |-> nullconn], c2s', c_out')
    /\ UNCHANGED s_out

(* The transport connects: the server's HandleConnection gives it a fresh  *)
(* BusContext, the client's OnTransportConnection does nothing.            *)
Connect(c) ==
    /\ link[c] = "new"
    /\ link' = [link EXCEPT ![c] = "up"]
    /\ UNCHANGED <<c2s, s2c, outVars, router, clientVars>>

(* BusClient::Start reports the service to the server.                     *)
Start(c) ==
    /\ link[c] # "new" /\ regid[c] = 0
    /\ Invoke(c, EmptyName, "RegisterService", NameOf[c])
    /\ regid' = [regid EXCEPT ![c] = next_id[c]]
    /\ UNCHANGED <<link, s2c, router, methods, answers>>

(* BusClient::AddMethod: refused if the name is taken (nothing changes),   *)
(* else added and reported to the server's SvcMgr.                         *)
AddMethod(c, m) ==
    /\ link[c] # "new"
    /\ m \notin methods[c]
    /\ methods' = [methods EXCEPT ![c] = @ \cup {m}]
    /\ Invoke(c, SvcMgr, "AddMethod", EmptyName)
    /\ UNCHANGED <<link, s2c, router, regid, answers>>

(* BusClient::Call or ACall of "provider/m", or of "m" alone.              *)
Call(c, provider, m) ==
    /\ link[c] # "new"
    /\ Invoke(c, provider, m, EmptyName)
    /\ UNCHANGED <<link, s2c, router, methods, regid, answers>>

(* A request of another client arrives: HandleRequestMessage serves it and *)
(* answers on the transport.                                               *)
ClientHandleRequest(c) ==
    /\ link[c] = "up" /\ s2c[c] # <<>> /\ Head(s2c[c]).req
    /\ s2c' = Consumed(s2c, c)
    /\ Send(c2s, c_out, c, ServeMsg(Head(s2c[c]), methods[c], c), c2s', c_out')
    /\ UNCHANGED <<link, s_out, router, clientVars>>

(* A bug: the entry of an answered call stays in waitings_.                *)
ClientHandleResponseKeep(c) ==
    /\ link[c] = "up" /\ s2c[c] # <<>> /\ ~Head(s2c[c]).req
    /\ s2c' = Consumed(s2c, c)
    /\ LET m == Head(s2c[c]) IN
       answers' = [answers EXCEPT ![c] = IF m.id \in waiting[c] THEN @ \cup {m} ELSE @]
    /\ UNCHANGED <<link, c2s, outVars, router, methods, next_id, waiting, regid>>

(* A response arrives: BusInvoker::HandleResponseMessage wakes the Result  *)
(* registered under its id and removes the entry.                          *)
ClientHandleResponse(c) ==
    /\ link[c] = "up" /\ s2c[c] # <<>> /\ ~Head(s2c[c]).req
    /\ s2c' = Consumed(s2c, c)
    /\ LET m == Head(s2c[c]) IN
       IF m.id \in waiting[c]
       THEN /\ waiting' = [waiting EXCEPT ![c] = @ \ {m.id}]
            /\ answers' = [answers EXCEPT ![c] = @ \cup {m}]
       ELSE UNCHANGED <<waiting, answers>>
    /\ UNCHANGED <<link, c2s, outVars, router, methods, next_id, regid>>

-----------------------------------------------------------------------------
(* Operations of the server, on the message at the head of connection c.   *)

ServerReceives(c) == link[c] = "up" /\ c2s[c] # <<>>

IsLocal(m) == m.provider \in {EmptyName, SvcMgr}

(* HandleRegisterMethod: router_->Add(ServiceName, in.conn).               *)
HandleRegisterMethod(m, c) == [router EXCEPT ![m.arg] = c]

(* A request without provider, or for SvcMgr: the local service serves it  *)
(* and the reply goes back on the connection it came from.                 *)
ServerHandleLocal(c) ==
    /\ ServerReceives(c)
    /\ LET m == Head(c2s[c]) IN
        /\ m.req /\ IsLocal(m)
        /\ router' = IF m.method = "RegisterService"
                     THEN HandleRegisterMethod(m, c) ELSE router
        /\ Send(s2c, s_out, c, ServeMsg(m, LocalMethods, Server), s2c', s_out')
    /\ c2s' = Consumed(c2s, c)
    /\ UNCHANGED <<link, c_out, clientVars>>

(* A bug: the request is routed like a response, by the caller.            *)
RequestConnByCaller(m) == router[m.caller]
(* A bug: the name is looked up with the method still behind it.           *)
RequestConnUnsplit(m) == IF m.method = "" THEN router[m.provider] ELSE nullconn
(* HandleRequestMessage looks the provider up by name.                     *)
RequestConn(m) == router[m.provider]

(* A request for another client is forwarded along its route, unchanged;   *)
(* without a route it is dropped.                                          *)
ServerForwardRequest(c) ==
    /\ ServerReceives(c)
    /\ LET m == Head(c2s[c]) IN
        /\ m.req /\ ~IsLocal(m)
        /\ IF RequestConn(m) # nullconn
           THEN Send(s2c, s_out, RequestConn(m), m, s2c', s_out')
           ELSE UNCHANGED <<s2c, s_out, overlaps, lockstep>>
    /\ c2s' = Consumed(c2s, c)
    /\ UNCHANGED <<link, c_out, router, clientVars>>

(* A bug: the response is routed like a request, by the provider.          *)
ReturnConnByProvider(m) == router[IF m.asked \in Names THEN m.asked ELSE EmptyName]
(* HandleResponseMessage looks the caller up by name.                      *)
ReturnConn(m) == router[m.caller]

(* A response goes to the connection its caller's name is routed to, or is *)
(* dropped.                                                                *)
ServerForwardResponse(c) ==
    /\ ServerReceives(c)
    /\ LET m == Head(c2s[c]) IN
        /\ ~m.req
        /\ IF ReturnConn(m) # nullconn
           THEN Send(s2c, s_out, ReturnConn(m), m, s2c', s_out')
           ELSE UNCHANGED <<s2c, s_out, overlaps, lockstep>>
    /\ c2s' = Consumed(c2s, c)
    /\ UNCHANGED <<link, c_out, router, clientVars>>

(* The name of the BusContext of a connection: set_name is never called.   *)
ContextName(c) == EmptyName

(* The connection breaks: both ends drop what is in flight, the server's   *)
(* HandleConnection removes the route of the context's name, the client's  *)
(* OnTransportConnection does nothing.                                     *)
Disconnect(c) ==
    /\ link[c] = "up"
    /\ link' = [link EXCEPT ![c] = "closed"]
    /\ c2s' = [c2s EXCEPT ![c] = <<>>]
    /\ s2c' = [s2c EXCEPT ![c] = <<>>]
    /\ c_out' = [c_out EXCEPT ![c] = <<>>]
    /\ s_out' = [s_out EXCEPT ![c] = <<>>]
    /\ router' = [router EXCEPT ![ContextName(c)] = nullconn]
    /\ UNCHANGED <<overlaps, lockstep, clientVars>>

-----------------------------------------------------------------------------
ClientHandle(c) == ClientHandleRequest(c) \/ ClientHandleResponse(c)
ServerHandle(c) ==
    ServerHandleLocal(c) \/ ServerForwardRequest(c) \/ ServerForwardResponse(c)

Next ==
    \E c \in Clients :
        \/ Connect(c) \/ Start(c) \/ Disconnect(c)
        \/ \E m \in Methods : AddMethod(c, m)
        \/ \E p \in Names \cup {EmptyName}, m \in Methods : Call(c, p, m)
        \/ ClientHandle(c) \/ ServerHandle(c)

Spec == Init /\ [][Next]_vars

(* The io threads of the clients and of the server keep running, and TCP   *)
(* delivers what was sent on a connection that is up.  The callbacks parse *)
(* one message each, so a message that arrives together with another may   *)
(* stay in the buffer: handling is fair only as long as every message was  *)
(* sent alone.                                                             *)
FairSpec ==
    Spec /\ \A c \in Clients : /\ WF_vars(lockstep /\ ClientHandle(c))
                              /\ WF_vars(lockstep /\ ServerHandle(c))

-----------------------------------------------------------------------------
(* Channels carry messages, routes lead to connections, ids stay in range. *)
TypeOK ==
    /\ link \in [Clients -> {"new", "up", "closed"}]
    /\ c2s \in [Clients -> Seq(Msg)] /\ s2c \in [Clients -> Seq(Msg)]
    /\ c_out \in [Clients -> Seq(Msg)] /\ s_out \in [Clients -> Seq(Msg)]
    /\ overlaps \in 0 .. MaxOverlaps /\ lockstep \in BOOLEAN
    /\ router \in [Names \cup {EmptyName} -> Clients \cup {nullconn}]
    /\ methods \in [Clients -> SUBSET Methods]
    /\ next_id \in [Clients -> 1 .. (MaxCalls + 1)]
    /\ waiting \in [Clients -> SUBSET Ids]
    /\ regid \in [Clients -> 0 .. MaxCalls]
    /\ answers \in [Clients -> SUBSET Msg]

(* A response that wakes a Result was produced by the service the caller   *)
(* asked: the server's own for a local request, else a client of that      *)
(* name, even when clients crash and come back under the same name         *)
(* (HandleRequestMessage, HandleResponseMessage, router).                  *)
AnswerComesFromProvider ==
    \A c \in Clients : \A m \in answers[c] :
        IF m.asked \in {EmptyName, SvcMgr}
        THEN m.by = Server
        ELSE m.by \in Clients /\ NameOf[m.by] = m.asked

(* No other client has the name of c.                                      *)
HasOwnName(c) == \A d \in Clients : NameOf[d] = NameOf[c] => d = c

(* A response that wakes a Result answers a request of this very client,   *)
(* if its name is its own: responses are routed by the caller's name and   *)
(* matched by an id that every client counts from 1.                       *)
AnswerIsToOwnRequest ==
    \A c \in Clients : HasOwnName(c) => \A m \in answers[c] : m.origin = c

(* A call is answered once: of several responses with its id, as after an  *)
(* overlapping Send, only the first finds an entry in waitings_            *)
(* (HandleResponseMessage; the ids of an invoker are not reused).          *)
AnsweredOnce == \A c \in Clients : \A m, r \in answers[c] : m.id = r.id => m = r

(* Who answers whom, and that one does, whatever crashes and comes back    *)
(* under an old name, and whatever messages the transport repeats or loses *)
(* (HandleRequestMessage, HandleResponseMessage).                          *)
AnswersMatchRequests == AnswerComesFromProvider /\ AnswerIsToOwnRequest /\ AnsweredOnce

(* Where the request with id i of client o, or its response, is in flight. *)
Copies(o, i) ==
    LET Places(q) == {k \in DOMAIN q : q[k].origin = o /\ q[k].id = i}
    IN  UNION {({c} \X {"c2s"} \X Places(c2s[c])) \cup ({c} \X {"s2c"} \X Places(s2c[c])) :
               c \in Clients}

(* No Send on the bus overlapped the writing of an earlier one.            *)
Serial == overlaps = 0

(* A call is carried out at most once as far as the handlers go: while     *)
(* Sends are serial there is never more than one copy of its request or    *)
(* response on the bus, and then a caller with a name of its own still     *)
(* waits for it (forwarding and answering consume the message they handle).*)
AtMostOneCopy ==
    Serial =>
        \A o \in Clients : \A i \in Ids :
            /\ Cardinality(Copies(o, i)) <= 1
            /\ (HasOwnName(o) /\ Copies(o, i) # {}) => i \in waiting[o]

(* The call with id i of client o was made after o's Start, under a name   *)
(* of its own.                                                             *)
MadeAfterStart(o, i) == HasOwnName(o) /\ regid[o] # 0 /\ regid[o] < i

Forwarded(m) == \E c \in Clients : m.req /\ m \in Range(s2c[c])
AnsweredByClient(m) == \E c \in Clients : ~m.req /\ m \in Range(c2s[c])

(* A call that a client makes after Start has its way back: by the time    *)
(* its request has passed the server, and as long as the client is         *)
(* connected, the server routes its caller's name to it (RegisterService   *)
(* precedes it on the same connection, and Sends were serial, so that it   *)
(* was not lost).                                                          *)
ReturnPathExists ==
    Serial =>
        \A c \in Clients : \A m \in Range(s2c[c]) \cup Range(c2s[c]) :
            (/\ MadeAfterStart(m.origin, m.id) /\ link[m.origin] = "up"
             /\ Forwarded(m) \/ AnsweredByClient(m))
                => router[m.caller] = m.origin

(* A call made after Start gets its answer, unless some connection breaks  *)
(* or two messages share a connection, if its provider is known to the     *)
(* server when, or before, the request gets there: only a request for a    *)
(* provider that never registered is dropped (HandleRequestMessage).       *)
KnownProviderAnswers ==
    \A o \in {c \in Clients : HasOwnName(c)} : \A i \in Ids :
        (MadeAfterStart(o, i) /\ \E c \in Clients : \E m \in Range(c2s[c]) \cup Range(s2c[c]) :
                                    /\ m.req /\ m.origin = o /\ m.id = i
                                    /\ IsLocal(m) \/ router[m.provider] # nullconn)
            ~> (i \notin waiting[o] \/ ~lockstep \/ \E c \in Clients : link[c] = "closed")

(* docs/bus.drawio, Service Manager and BusRouter: the server maintains    *)
(* the map from services to clients, with Add and Remove.  A route leads   *)
(* to a connection that is up.                                             *)
RoutesAreConnected ==
    \A n \in Names : router[n] # nullconn => link[router[n]] = "up"
=============================================================================
