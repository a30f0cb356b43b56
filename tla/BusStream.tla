----------------------------- MODULE BusStream -----------------------------
(***************************************************************************)
(* The framing of the bus: SendMessageToConnection (adv/bus/msg.cc) writes *)
(* a header and a body per message, TCP delivers the bytes in chunks of    *)
(* any size, and after each chunk the receive callback                     *)
(* (BusClient::OnTransportReadCallback, BusServer::OnReceive) makes one    *)
(* call of BusContext::Parse (context.cc) on the input buffer.             *)
(*                                                                         *)
(* A byte is known by its position in the stream: message k occupies       *)
(* HeaderSize + lens[k] bytes from position starts[k] on.  The input       *)
(* buffer is the positions consumed .. arrived - 1 (Buffer models it).     *)
(***************************************************************************)
EXTENDS Integers, Sequences

CONSTANTS
    HeaderSize,     \* sizeof(MsgHeader): 8 in the code
    BodyLens,       \* lengths a packed body may have, its NUL included
    Kinds,          \* what the peer sends, out of AllKinds
    MaxChunk,       \* bytes of one receive callback: 8192 in the code
    MaxMsgs         \* bound: messages the peer sends

AllKinds == {"good", "badmagic", "badbody"}

ASSUME StreamAssumption ==
    /\ HeaderSize \in Nat \ {0} /\ BodyLens \subseteq Nat \ {0}
    /\ MaxChunk \in Nat /\ MaxMsgs \in Nat
    /\ Kinds \subseteq AllKinds

VARIABLES
    isServer,   \* the receiver is a BusServer, otherwise a BusClient
    lens, kinds, starts,    \* the messages sent: body length, kind, first byte
    sent,       \* bytes the peer has written
    arrived,    \* bytes that reached the input buffer
    consumed,   \* bytes retrieved from it
    state,      \* BusContext::state_
    length,     \* BusContext::header_.length
    current,    \* the message header_ belongs to
    handled,    \* messages given to HandleMessage, in order
    bad,        \* Parse has returned kBad
    open,       \* the receiver has not stopped the connection
    lockstep    \* history: each message was sent after the one before it was handled

peerVars == <<lens, kinds, starts, sent, lockstep>>
parserVars == <<arrived, consumed, state, length, current>>
streamVars == <<isServer, peerVars, parserVars, handled, bad, open>>

StreamInit ==
    /\ isServer \in BOOLEAN /\ lockstep = TRUE
    /\ lens = <<>> /\ kinds = <<>> /\ starts = <<>> /\ sent = 0
    /\ arrived = 0 /\ consumed = 0
    /\ state = "kHeader" /\ length = 0 /\ current = 0
    /\ handled = <<>> /\ bad = FALSE /\ open = TRUE

-----------------------------------------------------------------------------
(* A bug: the header counts the body without its NUL.                      *)
SendMessageShort(l, kind) ==
    /\ open
    /\ Len(lens) < MaxMsgs
    /\ lens' = Append(lens, l - 1)
    /\ kinds' = Append(kinds, kind)
    /\ starts' = Append(starts, sent)
    /\ sent' = sent + HeaderSize + l
    /\ lockstep' = (lockstep /\ Len(lens) = Len(handled))
    /\ UNCHANGED <<isServer, parserVars, handled, bad, open>>

(* SendMessageToConnection of a body of l bytes; a peer that is no bus     *)
(* process may send another magic number or a body that does not unpack.   *)
SendMessage(l, kind) ==
    /\ open
    /\ Len(lens) < MaxMsgs
    /\ lens' = Append(lens, l)
    /\ kinds' = Append(kinds, kind)
    /\ starts' = Append(starts, sent)
    /\ sent' = sent + HeaderSize + l
    /\ lockstep' = (lockstep /\ Len(lens) = Len(handled))
    /\ UNCHANGED <<isServer, parserVars, handled, bad, open>>

(* The message whose header starts at position p; 0 if none does, and then *)
(* the bytes there are no header.                                          *)
MessageAt(p) ==
    IF \E k \in DOMAIN starts : starts[k] = p
    THEN CHOOSE k \in DOMAIN starts : starts[k] = p ELSE 0

(* The parser's registers and the result of a call of Parse.               *)
Parsed(c, s, l, m, result) ==
    [consumed |-> c, state |-> s, length |-> l, current |-> m, result |-> result]

(* A bug: the body is parsed when its last byte is missing.                *)
ParseBodyTooEarly(c, l, m, arr) ==
    IF (arr - c) + 1 < l
    THEN Parsed(c, "kBody", l, m, "kContinue")
    ELSE Parsed(IF arr < c + l THEN arr ELSE c + l, "kHeader", l, m, "kGood")

(* Parse from state_ == kBody on.                                          *)
ParseBody(c, l, m, arr) ==
    IF arr - c < l
    THEN Parsed(c, "kBody", l, m, "kContinue")
    ELSE Parsed(c + l, "kHeader", l, m, IF kinds[m] = "badbody" THEN "kBad" ELSE "kGood")

(* A bug: having read a header, Parse waits for the next chunk.            *)
ParseHeaderOnly(c, l, m, arr) ==
    IF arr - c < HeaderSize
    THEN Parsed(c, "kHeader", l, m, "kContinue")
    ELSE Parsed(c + HeaderSize, "kBody", lens[MessageAt(c)], MessageAt(c), "kContinue")

(* Parse from state_ == kHeader on.  A header with a wrong magic number    *)
(* leaves state_ at kBody.  Bytes that are no header are taken for one     *)
(* with a wrong magic number; ParserInStep says this does not happen.      *)
ParseHeader(c, l, m, arr) ==
    IF arr - c < HeaderSize
    THEN Parsed(c, "kHeader", l, m, "kContinue")
    ELSE LET k == MessageAt(c) IN
         IF k = 0
         THEN Parsed(c + HeaderSize, "kBody", l, m, "kBad")
         ELSE IF kinds[k] = "badmagic"
         THEN Parsed(c + HeaderSize, "kBody", lens[k], k, "kBad")
         ELSE ParseBody(c + HeaderSize, lens[k], k, arr)

Parse(arr) ==
    IF state = "kHeader"
    THEN ParseHeader(consumed, length, current, arr)
    ELSE ParseBody(consumed, length, current, arr)

(* A bug: the client goes on after a bad message.                          *)
StopOnBadNever(result) == open

(* kBad: a client stops its transport; BusServer::Stop is empty.           *)
StopOnBad(result) == open /\ (result = "kBad" => isServer)

(* A chunk of n bytes arrives: append it, call the receive callback, which *)
(* parses once and handles the message if there is one.                    *)
Receive(n) ==
    /\ open
    /\ arrived + n <= sent
    /\ arrived' = arrived + n
    /\ LET p == Parse(arrived + n) IN
        /\ consumed' = p.consumed /\ state' = p.state
        /\ length' = p.length /\ current' = p.current
        /\ handled' = IF p.result = "kGood" THEN Append(handled, p.current) ELSE handled
        /\ bad' = (bad \/ p.result = "kBad")
        /\ open' = StopOnBad(p.result)
    /\ UNCHANGED <<isServer, peerVars>>

StreamNext ==
    \/ \E l \in BodyLens, kind \in Kinds : SendMessage(l, kind)
    \/ \E n \in 1 .. MaxChunk : Receive(n)

StreamSpec == StreamInit /\ [][StreamNext]_streamVars

(* TCP delivers what was written, in chunks of its own choice.             *)
FairStreamSpec == StreamSpec /\ WF_streamVars(\E n \in 1 .. MaxChunk : Receive(n))

-----------------------------------------------------------------------------
(* Positions and lengths are numbers, registers hold their types.          *)
StreamTypeOK ==
    /\ lens \in Seq(BodyLens) /\ kinds \in Seq(Kinds) /\ starts \in Seq(Nat)
    /\ sent \in Nat /\ arrived \in Nat /\ consumed \in Nat
    /\ state \in {"kHeader", "kBody"}
    /\ length \in BodyLens \cup {0} /\ current \in Nat
    /\ handled \in Seq(Nat) /\ bad \in BOOLEAN /\ open \in BOOLEAN
    /\ isServer \in BOOLEAN /\ lockstep \in BOOLEAN

(* Whatever the chunks, messages are handled in the order they were sent,  *)
(* each at most once, and none of a bus process's is skipped, not even     *)
(* after a server has seen a bad one (Parse, HandleMessage).               *)
HandledInOrder ==
    /\ \A i, j \in DOMAIN handled : i < j => handled[i] < handled[j]
    /\ \A i \in DOMAIN handled : \A k \in 1 .. handled[i] :
          kinds[k] = "good" => \E j \in DOMAIN handled : handled[j] = k

(* A stream of messages of a bus process is never rejected, wherever it is *)
(* cut: Parse returns kBad only if the peer sent a bad message.            *)
BadOnlyIfSent == bad => \E k \in DOMAIN kinds : kinds[k] # "good"

(* The parser never retrieves a byte that has not arrived, and what it has *)
(* retrieved are whole messages, or whole messages and a header.           *)
ParserInStep ==
    /\ consumed <= arrived /\ arrived <= sent
    /\ state = "kHeader" => consumed \in {starts[k] : k \in DOMAIN starts} \cup {sent}
    /\ state = "kBody" => current \in DOMAIN starts /\ consumed = starts[current] + HeaderSize

(* A message with a wrong magic number or a body that does not unpack is   *)
(* the last thing a client looks at: nothing behind it is handled, although*)
(* it may have arrived already (OnTransportReadCallback).                  *)
NothingHandledAfterBad ==
    ~isServer => \A i \in DOMAIN handled : \A k \in 1 .. handled[i] : kinds[k] = "good"

(* What the receiver makes of the stream: the messages sent, in order and  *)
(* without gaps, up to a bad one (Parse, HandleMessage,                    *)
(* OnTransportReadCallback).                                               *)
MessagesHandledAsSent == HandledInOrder /\ BadOnlyIfSent /\ NothingHandledAfterBad

(* A peer that sends a message only after the one before it was handled    *)
(* gets every message handled, unless it sends a bad one.                  *)
LockstepIsHandled ==
    \A k \in 1 .. MaxMsgs : (k <= Len(lens)) ~> (k <= Len(handled) \/ ~lockstep \/ bad)
=============================================================================
