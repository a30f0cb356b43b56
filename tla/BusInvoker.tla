----------------------------- MODULE BusInvoker -----------------------------
(***************************************************************************)
(* The calling side of the bus: BusInvoker (adv/bus/invoker.h, invoker.cc) *)
(* and the Result a caller waits on (adv/bus/method.h).                    *)
(*                                                                         *)
(* Caller threads run Call / ACall; the thread that runs the transport's   *)
(* io_context runs HandleResponseMessage.  They share waitings_ (guarded   *)
(* by mutex_) and the Result objects, each with its own mutex and          *)
(* condition variable.  A step of this module is a maximal piece of code   *)
(* between two points where the other threads can interfere.               *)
(*                                                                         *)
(* A caller c owns one Result, the local variable of Call (or the object a *)
(* user of ACall hands in and later waits on), so the Result's address is  *)
(* written c.  Consecutive calls of c reuse the address, as consecutive    *)
(* frames of one thread do.  A payload is the id of the request it         *)
(* answers.                                                                *)
(***************************************************************************)
EXTENDS Integers

CONSTANTS
    Callers,    \* caller threads, and the addresses of their Results
    nullptr,    \* no Result
    IdSpace,    \* number of message ids: 2^32 in the code (typedef uint32_t MsgId)
    MaxCalls,   \* bound: number of calls made during the life of the invoker
    NullOut     \* the callers that may pass out == NULL, as BusClient::Start does

(* The ids of one invoker are distinct as long as it makes fewer than      *)
(* IdSpace calls.                                                          *)
ASSUME IdAssumption ==
    /\ IdSpace \in Nat /\ MaxCalls \in Nat
    /\ 0 < MaxCalls /\ MaxCalls < IdSpace
ASSUME NullAssumption == nullptr \notin Callers
ASSUME NullOutAssumption == NullOut \subseteq Callers

MsgIds == 0 .. (IdSpace - 1)
NoId == -1      \* a Result that holds no answer
CallIds == 1 .. MaxCalls

VARIABLES
    next_id,    \* next_id_, the atomic counter
    waitings,   \* waitings_: MsgId -> Result*, nullptr where there is no entry
    pc,         \* where each caller thread is
    id,         \* the MsgId of the caller's current (or last) call
    status,     \* the Status the caller's last call returned
    alive,      \* the caller's Result object exists
    ok,         \* Result::ok_
    out,        \* Result::out_: the request its content answers
    got,        \* what Call copied into the caller's *out
    wire,       \* requests that reached the peer (the bus server)
    inbox,      \* responses the peer sent and the io thread has not read
    connected,  \* the transport is connected
    singly,     \* history: no message arrived behind one that was still unread
    hpc,        \* where the io thread is in HandleResponseMessage
    hmsg,       \* the id of the response it handles
    hresult     \* its local variable `result`

callerVars == <<next_id, pc, id, status, alive, got>>
resultVars == <<ok, out>>
netVars == <<wire, inbox, connected, singly>>
ioVars == <<hpc, hmsg, hresult>>
vars == <<callerVars, waitings, resultVars, netVars, ioVars>>

CallerPc == {"idle", "packed", "registered", "wait", "blocked", "copy"}
IoPc == {"idle", "fill", "setok", "notify", "crashed"}

Init ==
    /\ next_id = 1
    /\ waitings = [i \in MsgIds |-> nullptr]
    /\ pc = [c \in Callers |-> "idle"]
    /\ id = [c \in Callers |-> NoId]
    /\ status = [c \in Callers |-> "ok"]
    /\ alive = [c \in Callers |-> FALSE]
    /\ ok = [c \in Callers |-> FALSE]
    /\ out = [c \in Callers |-> NoId]
    /\ got = [c \in Callers |-> NoId]
    /\ wire = {} /\ inbox = {} /\ connected = TRUE /\ singly = TRUE
    /\ hpc = "idle" /\ hmsg = NoId /\ hresult = nullptr

-----------------------------------------------------------------------------
(* Caller threads.                                                         *)

(* A bug: a counter wider than the id.                                     *)
NextMsgIdUnbounded == next_id + 1

(* next_id_.fetch_add(1) on a uint32_t: the value it leaves behind.        *)
NextMsgId == (next_id + 1) % IdSpace

(* Call constructs its Result and enters ACall, which takes the next id    *)
(* and packs the message.                                                  *)
PackRequest(c) ==
    /\ pc[c] = "idle"
    /\ next_id \in CallIds
    /\ id' = [id EXCEPT ![c] = next_id]
    /\ next_id' = NextMsgId
    /\ alive' = [alive EXCEPT ![c] = TRUE]
    /\ ok' = [ok EXCEPT ![c] = FALSE]
    /\ out' = [out EXCEPT ![c] = NoId]
    /\ pc' = [pc EXCEPT ![c] = "packed"]
    /\ UNCHANGED <<waitings, status, got, netVars, ioVars>>

(* ACall(method, in, NULL) is refused before it takes an id.               *)
ACallWithoutResult(c) ==
    /\ pc[c] = "idle"
    /\ status' = [status EXCEPT ![c] = "invalid_argument"]
    /\ UNCHANGED <<next_id, pc, id, alive, got, waitings, resultVars, netVars, ioVars>>

(* A bug the comment in ACall warns of: the request is on the wire before  *)
(* its Result is in waitings_.                                             *)
RegisterResultLate(c) ==
    /\ pc[c] = "packed"
    /\ waitings[id[c]] = nullptr
    /\ wire' = wire \cup {id[c]}
    /\ pc' = [pc EXCEPT ![c] = "registered"]
    /\ UNCHANGED <<next_id, id, status, alive, got, waitings, resultVars, inbox,
                   connected, singly, ioVars>>

(* waitings_[msg->id()] = result, under mutex_.                            *)
RegisterResult(c) ==
    /\ pc[c] = "packed"
    /\ waitings' = [waitings EXCEPT ![id[c]] = c]
    /\ pc' = [pc EXCEPT ![c] = "registered"]
    /\ UNCHANGED <<next_id, id, status, alive, got, resultVars, netVars, ioVars>>

(* msg_writer_(msg): the transport takes the request; on a transport that  *)
(* is disconnected it is lost.  ACall returns OK.  Then a Call with an out *)
(* parameter goes on to Result::Wait; a Call with out == NULL returns and  *)
(* its Result is destroyed.                                                *)
WriteRequest(c) ==
    /\ pc[c] = "registered"
    /\ wire' = IF connected THEN wire \cup {id[c]} ELSE wire
    /\ status' = [status EXCEPT ![c] = "ok"]
    /\ \/ /\ pc' = [pc EXCEPT ![c] = "wait"]
          /\ UNCHANGED alive
       \/ /\ c \in NullOut
          /\ pc' = [pc EXCEPT ![c] = "idle"]
          /\ alive' = [alive EXCEPT ![c] = FALSE]
    /\ UNCHANGED <<next_id, id, got, waitings, resultVars, inbox, connected, singly,
                   ioVars>>

(* A bug: waiting without a test of ok_.                                   *)
WaitUntested(c) ==
    /\ pc[c] = "wait"
    /\ pc' = [pc EXCEPT ![c] = "blocked"]
    /\ UNCHANGED <<next_id, id, status, alive, got, waitings, resultVars, netVars, ioVars>>

(* Result::Wait under the Result's mutex: return if ok_, else join the     *)
(* condition's wait set and release the mutex in one step.                 *)
Wait(c) ==
    /\ pc[c] = "wait"
    /\ pc' = [pc EXCEPT ![c] = IF ok[c] THEN "copy" ELSE "blocked"]
    /\ UNCHANGED <<next_id, id, status, alive, got, waitings, resultVars, netVars, ioVars>>

(* A bug: a wake-up taken for the answer, as with a wait without predicate.*)
SpuriousReturn(c) ==
    /\ pc[c] = "blocked"
    /\ pc' = [pc EXCEPT ![c] = "copy"]
    /\ UNCHANGED <<next_id, id, status, alive, got, waitings, resultVars, netVars, ioVars>>

(* cond_.wait may return without a notification; its predicate is then     *)
(* tested again.                                                           *)
SpuriousWakeup(c) ==
    /\ pc[c] = "blocked"
    /\ pc' = [pc EXCEPT ![c] = "wait"]
    /\ UNCHANGED <<next_id, id, status, alive, got, waitings, resultVars, netVars, ioVars>>

(* *out = result.out(), then Call returns and destroys its Result.         *)
CopyOut(c) ==
    /\ pc[c] = "copy"
    /\ got' = [got EXCEPT ![c] = out[c]]
    /\ alive' = [alive EXCEPT ![c] = FALSE]
    /\ pc' = [pc EXCEPT ![c] = "idle"]
    /\ UNCHANGED <<next_id, id, status, waitings, resultVars, netVars, ioVars>>

-----------------------------------------------------------------------------
(* The io thread: BusInvoker::HandleResponseMessage and Result::WeakUp.    *)

(* A bug: the entry is found but not erased.                               *)
FindResultKeepEntry(i) ==
    /\ hpc = "idle"
    /\ i \in inbox /\ waitings[i] # nullptr
    /\ inbox' = inbox \ {i}
    /\ hmsg' = i /\ hresult' = waitings[i] /\ hpc' = "fill"
    /\ UNCHANGED <<callerVars, resultVars, waitings, wire, connected, singly>>

(* Read a response whose id has an entry: find and erase it under mutex_.  *)
FindResult(i) ==
    /\ hpc = "idle"
    /\ i \in inbox /\ waitings[i] # nullptr
    /\ inbox' = inbox \ {i}
    /\ waitings' = [waitings EXCEPT ![i] = nullptr]
    /\ hmsg' = i /\ hresult' = waitings[i] /\ hpc' = "fill"
    /\ UNCHANGED <<callerVars, resultVars, wire, connected, singly>>

(* Read a response nobody waits for: it is ignored.                        *)
IgnoreResponse(i) ==
    /\ hpc = "idle"
    /\ i \in inbox /\ waitings[i] = nullptr
    /\ inbox' = inbox \ {i}
    /\ UNCHANGED <<callerVars, resultVars, waitings, wire, connected, singly, ioVars>>

(* A bug: the Result is woken without its content.                         *)
FillNothing ==
    /\ hpc = "fill"
    /\ hpc' = "setok"
    /\ UNCHANGED <<callerVars, resultVars, waitings, netVars, hmsg, hresult>>

(* Copy the parameters of the response into result->out(), without a lock. *)
FillResult ==
    /\ hpc = "fill"
    /\ out' = [out EXCEPT ![hresult] = hmsg]
    /\ hpc' = "setok"
    /\ UNCHANGED <<callerVars, ok, waitings, netVars, hmsg, hresult>>

(* WeakUp, first half: ok_ = true under the Result's mutex.                *)
SetOk ==
    /\ hpc = "setok"
    /\ ok' = [ok EXCEPT ![hresult] = TRUE]
    /\ hpc' = "notify"
    /\ UNCHANGED <<callerVars, out, waitings, netVars, hmsg, hresult>>

(* A bug: ok_ is set and nobody is notified.                               *)
NotifyNobody ==
    /\ hpc = "notify"
    /\ hpc' = "idle"
    /\ UNCHANGED <<callerVars, resultVars, waitings, netVars, hmsg, hresult>>

(* WeakUp, second half: cond_.notify_all() after the mutex is released.    *)
NotifyAll ==
    /\ hpc = "notify"
    /\ pc' = [pc EXCEPT ![hresult] = IF pc[hresult] = "blocked" THEN "wait" ELSE pc[hresult]]
    /\ hpc' = "idle"
    /\ UNCHANGED <<next_id, id, status, alive, got, resultVars, waitings, netVars, hmsg, hresult>>

(* Undefined behaviour: each of the three steps above may touch a Result   *)
(* that was destroyed.  Either the memory still looks like a Result and    *)
(* the step goes as usual, or the process is corrupted; the io thread is   *)
(* then not followed further.                                              *)
CorruptMemory ==
    /\ hpc \in {"fill", "setok", "notify"}
    /\ ~alive[hresult]
    /\ hpc' = "crashed"
    /\ UNCHANGED <<callerVars, resultVars, waitings, netVars, hmsg, hresult>>

-----------------------------------------------------------------------------
(* The environment: the rest of the bus and the transport.                 *)

(* The peer (BusServer, and the BusClient that serves the method) answers  *)
(* a request it received, in any order; a request that the transport wrote *)
(* twice is answered twice.  It may also never answer: a request or a      *)
(* response without a route is dropped.  The response may arrive behind an *)
(* unread response, or behind a request for this client's own service,     *)
(* which share the connection.                                             *)
PeerAnswer(i) ==
    /\ connected
    /\ i \in wire /\ i \notin inbox
    /\ inbox' = inbox \cup {i}
    /\ singly' \in {FALSE, singly /\ inbox = {}}
    /\ UNCHANGED <<callerVars, resultVars, waitings, wire, connected, ioVars>>

(* The transport breaks: what is in flight is lost.  The disconnected case *)
(* of BusClient::OnTransportConnection does nothing.                       *)
Disconnect ==
    /\ connected
    /\ connected' = FALSE
    /\ wire' = {} /\ inbox' = {}
    /\ UNCHANGED <<callerVars, resultVars, waitings, singly, ioVars>>

-----------------------------------------------------------------------------
CallerStep(c) ==
    \/ RegisterResult(c) \/ WriteRequest(c) \/ Wait(c) \/ CopyOut(c)

IoStep == FillResult \/ SetOk \/ NotifyAll

Read(i) == FindResult(i) \/ IgnoreResponse(i)

Next ==
    \/ \E c \in Callers :
        PackRequest(c) \/ ACallWithoutResult(c) \/ CallerStep(c) \/ SpuriousWakeup(c)
    \/ \E i \in MsgIds : Read(i) \/ PeerAnswer(i)
    \/ IoStep
    \/ CorruptMemory
    \/ Disconnect

Spec == Init /\ [][Next]_vars

(* Threads that can run do run.  OnTransportReadCallback parses one        *)
(* message per callback, so only a message that arrives with nothing       *)
(* unread before it is sure to be read; nothing is assumed of the peer.    *)
Fairness ==
    /\ \A c \in Callers : WF_vars(CallerStep(c))
    /\ WF_vars(IoStep)
    /\ \A i \in MsgIds : WF_vars(singly /\ Read(i))

FairSpec == Spec /\ Fairness

-----------------------------------------------------------------------------
(* Every variable holds a value of its C++ type; an id fits its width.     *)
TypeOK ==
    /\ next_id \in MsgIds
    /\ waitings \in [MsgIds -> Callers \cup {nullptr}]
    /\ pc \in [Callers -> CallerPc]
    /\ id \in [Callers -> CallIds \cup {NoId}]
    /\ status \in [Callers -> {"ok", "invalid_argument"}]
    /\ alive \in [Callers -> BOOLEAN]
    /\ ok \in [Callers -> BOOLEAN]
    /\ out \in [Callers -> CallIds \cup {NoId}]
    /\ got \in [Callers -> CallIds \cup {NoId}]
    /\ wire \subseteq CallIds /\ inbox \subseteq CallIds
    /\ connected \in BOOLEAN /\ singly \in BOOLEAN
    /\ hpc \in IoPc
    /\ hmsg \in CallIds \cup {NoId}
    /\ hresult \in Callers \cup {nullptr}

Waiting(c) == pc[c] \in {"registered", "wait", "blocked"}

(* The io thread is between taking c's Result out of waitings_ and setting *)
(* its ok_.                                                                *)
BeingAnswered(c) == hpc \in {"fill", "setok"} /\ hresult = c

(* A caller that always passes an out parameter gets the answer to its own *)
(* request, whole: never another call's, never an empty Out (Call,         *)
(* HandleResponseMessage, WeakUp), whatever the other callers pass.        *)
CallReturnsItsOwnAnswer ==
    \A c \in Callers \ NullOut : pc[c] = "copy" => out[c] = id[c]

(* A call that is not answered yet can be found by its response: its       *)
(* Result is in waitings_ under its id from before the request is on the   *)
(* wire until the io thread has taken it (the comment in ACall).           *)
UnansweredIsRegistered ==
    \A c \in Callers \ NullOut :
        (Waiting(c) /\ ~ok[c]) => (waitings[id[c]] = c \/ BeingAnswered(c))

(* No lost wake-up: a thread that sleeps in Result::Wait although ok_ is   *)
(* set still has its notify_all to come (Wait against WeakUp).             *)
SleeperWillBeNotified ==
    \A c \in Callers :
        (pc[c] = "blocked" /\ ok[c]) => (hpc = "notify" /\ hresult = c)

(* waitings_ never holds two entries for one Result, nor an entry for a    *)
(* call that is over: nothing accumulates in the map for a caller that     *)
(* always passes an out parameter.                                         *)
EntriesAreOutstandingCalls ==
    \A i \in MsgIds :
        LET c == waitings[i] IN
        c \notin NullOut \cup {nullptr} => (Waiting(c) /\ id[c] = i /\ ~ok[c])

(* invoker.h, on waitings_: a Result must be woken before it is destroyed. *)
(* The Result the io thread is about to write is alive and belongs to the  *)
(* call that the response answers, unless its caller passed out == NULL.   *)
ResponseReachesItsOwnResult ==
    (hpc \in {"fill", "setok"} /\ hresult \notin NullOut) =>
        (alive[hresult] /\ id[hresult] = hmsg)

(* notify_all runs after the Result's mutex is released, when its Result   *)
(* may be gone or its memory may hold the Result of the thread's next      *)
(* call.  That does no harm to a caller that always passes an out          *)
(* parameter: either the Result is still there with its answer in it, or   *)
(* its call has returned that very answer (WeakUp, Call).                  *)
NotifiedHasItsAnswer ==
    (hpc = "notify" /\ hresult \notin NullOut) =>
        \/ id[hresult] = hmsg /\ alive[hresult] /\ ok[hresult] /\ out[hresult] = hmsg
        \/ got[hresult] = hmsg

(* waitings_ and the calls agree: a response finds the call it answers,    *)
(* and finds nothing that is not a call (ACall, HandleResponseMessage).    *)
WaitingsMatchCalls == UnansweredIsRegistered /\ EntriesAreOutstandingCalls

(* From the erase of its entry to the end of WeakUp, what the io thread    *)
(* does with a Result concerns the call the response answers.              *)
WokenWithItsAnswer == ResponseReachesItsOwnResult /\ NotifiedHasItsAnswer

(* A caller whose response has arrived gets it, however Wait, WeakUp and   *)
(* the other calls interleave, as long as the transport stays connected,   *)
(* messages arrive one by one and no destroyed Result was touched (Call,   *)
(* HandleResponseMessage).                                                 *)
ArrivedAnswerReturns ==
    \A c \in Callers \ NullOut :
        (pc[c] \in {"wait", "blocked"} /\ id[c] \in inbox)
            ~> (pc[c] = "copy" \/ ~connected \/ ~singly \/ hpc = "crashed")

(* docs/bus.drawio, result_waiting_list: waiters are also woken when the   *)
(* connection is lost.                                                     *)
WokenOnDisconnect ==
    \A c \in Callers :
        (pc[c] \in {"wait", "blocked"} /\ ~connected) ~> (pc[c] \notin {"wait", "blocked"})
=============================================================================
