--------------------------- MODULE BusPeerProofs ---------------------------
(***************************************************************************)
(* Proofs about the two things a process does at its end of a bus          *)
(* connection.  The two specifications share no variable and are not       *)
(* combined; each theorem is about one of them.                            *)
(*                                                                         *)
(* BusInvoker: for every set of callers, every id width and every number   *)
(* of calls below it, type correctness, no lost wake-up, and, for the      *)
(* callers that always pass an out parameter, that a call returns its own  *)
(* answer and is never lost between waitings_ and the io thread.           *)
(*                                                                         *)
(* BusStream: for every header size, every set of body lengths and every   *)
(* way the stream is cut into chunks, the parser stays in step with the    *)
(* messages.                                                               *)
(***************************************************************************)
EXTENDS BusInvoker, BusStream, TLAPS

(***************************************************************************)
(* The invoker.                                                            *)
(***************************************************************************)

(* Taking an id advances the counter by one or, from the last id, wraps it *)
(* to 0: the uint32_t arithmetic of NextMsgId.                             *)
LEMMA NextMsgIdValue ==
    ASSUME next_id \in MsgIds
    PROVE  /\ NextMsgId \in MsgIds
           /\ NextMsgId = next_id + 1 \/ (NextMsgId = 0 /\ next_id = IdSpace - 1)
<1>1. CASE next_id + 1 < IdSpace
  <2>1. (next_id + 1) % IdSpace = next_id + 1
    BY <1>1, IdAssumption, Z3 DEF MsgIds
  <2> QED BY <1>1, <2>1, IdAssumption DEF MsgIds, NextMsgId
<1>2. CASE next_id + 1 = IdSpace
  <2>1. IdSpace % IdSpace = 0
    BY IdAssumption, Z3
  <2> QED BY <1>2, <2>1, IdAssumption DEF MsgIds, NextMsgId
<1> QED BY <1>1, <1>2, IdAssumption DEF MsgIds

(* Every id the spec quantifies over that a caller can own is a MsgId.     *)
LEMMA CallIdsAreMsgIds == CallIds \subseteq MsgIds /\ NoId \notin CallIds
BY IdAssumption DEF CallIds, MsgIds, NoId

(* TypeOK is inductive together with two facts: a caller inside a call has *)
(* an id, and the io thread works on a Result only when `result` is not    *)
(* null.                                                                   *)
ActiveHasId == \A c \in Callers : pc[c] # "idle" => id[c] \in CallIds

IoResult == hpc \in {"fill", "setok", "notify"} => hresult \in Callers

TypeInv == TypeOK /\ ActiveHasId /\ IoResult

(* The invoker starts well typed (the constructor).                        *)
LEMMA TypeInit == Init => TypeInv
BY IdAssumption DEF Init, TypeInv, TypeOK, ActiveHasId, IoResult, MsgIds, CallIds, NoId, CallerPc, IoPc

(* Every step of a caller, the io thread or the peer keeps it well typed.  *)
LEMMA TypeStep == TypeInv /\ [Next]_vars => TypeInv'
<1> SUFFICES ASSUME TypeInv, [Next]_vars PROVE TypeInv'
  OBVIOUS
<1> USE DEF TypeInv, TypeOK, ActiveHasId, IoResult, CallerPc, IoPc
<1>1. ASSUME NEW c \in Callers, PackRequest(c) PROVE TypeInv'
  BY <1>1, NextMsgIdValue DEF PackRequest, netVars, ioVars
<1>2. ASSUME NEW c \in Callers, ACallWithoutResult(c) PROVE TypeInv'
  BY <1>2 DEF ACallWithoutResult, resultVars, netVars, ioVars
<1>3. ASSUME NEW c \in Callers, RegisterResult(c) PROVE TypeInv'
  BY <1>3 DEF RegisterResult, resultVars, netVars, ioVars
<1>4. ASSUME NEW c \in Callers, WriteRequest(c) PROVE TypeInv'
  <2>1. id[c] \in CallIds
    BY <1>4 DEF WriteRequest
  <2>2. wire' \subseteq CallIds /\ status' \in [Callers -> {"ok", "invalid_argument"}]
    BY <1>4, <2>1 DEF WriteRequest
  <2>3. /\ pc' \in [Callers -> CallerPc] /\ alive' \in [Callers -> BOOLEAN]
        /\ \A x \in Callers : pc'[x] # "idle" => pc[x] # "idle"
    BY <1>4 DEF WriteRequest
  <2>4. UNCHANGED <<next_id, id, got, waitings, ok, out, inbox, connected, singly, hpc, hmsg, hresult>>
    BY <1>4 DEF WriteRequest, resultVars, ioVars
  <2> QED BY <2>2, <2>3, <2>4
<1>5. ASSUME NEW c \in Callers, Wait(c) PROVE TypeInv'
  BY <1>5 DEF Wait, resultVars, netVars, ioVars
<1>6. ASSUME NEW c \in Callers, CopyOut(c) PROVE TypeInv'
  BY <1>6 DEF CopyOut, resultVars, netVars, ioVars
<1>7. ASSUME NEW c \in Callers, SpuriousWakeup(c) PROVE TypeInv'
  BY <1>7 DEF SpuriousWakeup, resultVars, netVars, ioVars
<1>8. ASSUME NEW i \in MsgIds, FindResult(i) PROVE TypeInv'
  BY <1>8 DEF FindResult, callerVars, resultVars
<1>9. ASSUME NEW i \in MsgIds, IgnoreResponse(i) PROVE TypeInv'
  BY <1>9 DEF IgnoreResponse, callerVars, resultVars, ioVars
<1>10. ASSUME NEW i \in MsgIds, PeerAnswer(i) PROVE TypeInv'
  BY <1>10 DEF PeerAnswer, callerVars, resultVars, ioVars
<1>11. CASE FillResult
  BY <1>11 DEF FillResult, callerVars, netVars
<1>12. CASE SetOk
  BY <1>12 DEF SetOk, callerVars, netVars
<1>13. CASE NotifyAll
  BY <1>13 DEF NotifyAll, resultVars, netVars
<1>14. CASE CorruptMemory
  BY <1>14 DEF CorruptMemory, callerVars, resultVars, netVars
<1>15. CASE Disconnect
  BY <1>15 DEF Disconnect, callerVars, resultVars, ioVars
<1>16. CASE UNCHANGED vars
  BY <1>16 DEF vars, callerVars, resultVars, netVars, ioVars
<1> QED
  BY <1>1, <1>2, <1>3, <1>4, <1>5, <1>6, <1>7, <1>8, <1>9, <1>10, <1>11,
     <1>12, <1>13, <1>14, <1>15, <1>16 DEF Next, CallerStep, IoStep, Read

(* Every behaviour of the invoker keeps its variables in their types; in   *)
(* particular ids stay within their width, with or without null out        *)
(* parameters.                                                             *)
THEOREM TypeCorrect == Spec => []TypeOK
<1>1. TypeInv => TypeOK
  BY DEF TypeInv
<1> QED BY <1>1, TypeInit, TypeStep, PTL DEF Spec

-----------------------------------------------------------------------------
(* No lost wake-up, whatever callers pass.                                 *)

(* A Result exists exactly while its call is running.                      *)
AliveWhileCalling == \A c \in Callers : alive[c] <=> pc[c] # "idle"

WakeInv == TypeInv /\ AliveWhileCalling /\ SleeperWillBeNotified

(* Every step keeps WakeInv: the only steps that could strand a sleeper    *)
(* are Wait, SetOk and NotifyAll.                                          *)
LEMMA WakeStep == WakeInv /\ [Next]_vars => WakeInv'
<1> SUFFICES ASSUME WakeInv, [Next]_vars PROVE AliveWhileCalling' /\ SleeperWillBeNotified'
  BY TypeStep DEF WakeInv
<1> USE DEF WakeInv, TypeInv, TypeOK, IoResult, AliveWhileCalling, SleeperWillBeNotified, CallerPc
<1> DEFINE Goal == AliveWhileCalling' /\ SleeperWillBeNotified'
<1>1. ASSUME NEW c \in Callers, PackRequest(c) PROVE Goal
  BY <1>1 DEF PackRequest, ioVars
<1>2. ASSUME NEW c \in Callers, ACallWithoutResult(c) PROVE Goal
  BY <1>2 DEF ACallWithoutResult, resultVars, ioVars
<1>3. ASSUME NEW c \in Callers, RegisterResult(c) PROVE Goal
  BY <1>3 DEF RegisterResult, resultVars, ioVars
<1>4. ASSUME NEW c \in Callers, WriteRequest(c) PROVE Goal
  BY <1>4 DEF WriteRequest, resultVars, ioVars
<1>5. ASSUME NEW c \in Callers, Wait(c) PROVE Goal
  BY <1>5 DEF Wait, resultVars, ioVars
<1>6. ASSUME NEW c \in Callers, CopyOut(c) PROVE Goal
  BY <1>6 DEF CopyOut, resultVars, ioVars
<1>7. ASSUME NEW c \in Callers, SpuriousWakeup(c) PROVE Goal
  BY <1>7 DEF SpuriousWakeup, resultVars, ioVars
<1>8. ASSUME NEW i \in MsgIds, FindResult(i) PROVE Goal
  BY <1>8 DEF FindResult, callerVars, resultVars
<1>9. ASSUME NEW i \in MsgIds, IgnoreResponse(i) PROVE Goal
  BY <1>9 DEF IgnoreResponse, callerVars, resultVars, ioVars
<1>10. ASSUME NEW i \in MsgIds, PeerAnswer(i) PROVE Goal
  BY <1>10 DEF PeerAnswer, callerVars, resultVars, ioVars
<1>11. CASE FillResult
  BY <1>11 DEF FillResult, callerVars
<1>12. CASE SetOk
  BY <1>12 DEF SetOk, callerVars
<1>13. CASE NotifyAll
  BY <1>13 DEF NotifyAll, resultVars
<1>14. CASE CorruptMemory
  BY <1>14 DEF CorruptMemory, callerVars, resultVars
<1>15. CASE Disconnect
  BY <1>15 DEF Disconnect, callerVars, resultVars, ioVars
<1>16. CASE UNCHANGED vars
  BY <1>16 DEF vars, callerVars, resultVars, ioVars
<1> QED
  BY <1>1, <1>2, <1>3, <1>4, <1>5, <1>6, <1>7, <1>8, <1>9, <1>10, <1>11,
     <1>12, <1>13, <1>14, <1>15, <1>16 DEF Next, CallerStep, IoStep, Read

(* No caller sleeps in Result::Wait with ok_ set and no notify_all to      *)
(* come: the test of ok_ under the mutex in Wait closes the window between *)
(* the two halves of WeakUp.                                               *)
THEOREM NoLostWakeup == Spec => []SleeperWillBeNotified
<1>1. Init => WakeInv
  BY TypeInit DEF Init, WakeInv, AliveWhileCalling, SleeperWillBeNotified
<1>2. WakeInv => SleeperWillBeNotified
  BY DEF WakeInv
<1> QED BY <1>1, <1>2, WakeStep, PTL DEF Spec

-----------------------------------------------------------------------------
(* Answers, for the callers that always pass an out parameter.             *)

(* Two running calls have different ids.                                   *)
DistinctIds ==
    \A c, d \in Callers :
        (c # d /\ pc[c] # "idle" /\ pc[d] # "idle") => id[c] # id[d]

(* The counter is ahead of every id in use, until it wraps and calls end.  *)
CounterAhead ==
    next_id # 0 =>
        /\ \A c \in Callers : id[c] < next_id
        /\ \A i \in wire \cup inbox : i < next_id

(* A request is answered only after it was written.                        *)
UnsentIsUnanswered ==
    \A c \in Callers : pc[c] \in {"packed", "registered"} => id[c] \notin wire \cup inbox

(* The Result in the io thread's hands belongs to a waiting call with the  *)
(* response's id, and is no longer in waitings_.                           *)
IoHoldsWaiter ==
    (hpc \in {"fill", "setok"} /\ hresult \notin NullOut) =>
        /\ id[hresult] = hmsg
        /\ pc[hresult] \in {"wait", "blocked"}
        /\ ~ok[hresult]
        /\ \A i \in MsgIds : waitings[i] # hresult
        /\ hpc = "setok" => out[hresult] = hmsg

(* ok_ is set only on a Result that holds its call's answer.               *)
OkMeansAnswered ==
    \A c \in Callers \ NullOut :
        /\ (pc[c] # "idle" /\ ok[c]) =>
              (out[c] = id[c] /\ pc[c] \in {"wait", "blocked", "copy"})
        /\ pc[c] = "copy" => ok[c]

(* From SetOk to notify_all the answer is in the Result of the call, or    *)
(* that call has returned it; a next call of the thread is then unanswered.*)
NotifyHoldsAnswer ==
    (hpc = "notify" /\ hresult \notin NullOut) =>
        \/ /\ id[hresult] = hmsg /\ ok[hresult] /\ out[hresult] = hmsg
           /\ pc[hresult] \in {"wait", "blocked", "copy"}
        \/ got[hresult] = hmsg /\ (pc[hresult] = "idle" \/ ~ok[hresult])

AnswerInv ==
    /\ DistinctIds /\ CounterAhead /\ UnsentIsUnanswered
    /\ IoHoldsWaiter /\ OkMeansAnswered /\ NotifyHoldsAnswer
    /\ UnansweredIsRegistered /\ EntriesAreOutstandingCalls

(* Every step keeps the answers of these callers apart.                    *)
LEMMA AnswerStep ==
    ASSUME WakeInv, AnswerInv, [Next]_vars
    PROVE  AnswerInv'
<1> USE CallIdsAreMsgIds, IdAssumption, NullAssumption
    DEF WakeInv, TypeInv, TypeOK, ActiveHasId, IoResult, AliveWhileCalling, CallerPc, IoPc,
        AnswerInv, DistinctIds, CounterAhead, UnsentIsUnanswered, IoHoldsWaiter, OkMeansAnswered,
        NotifyHoldsAnswer, UnansweredIsRegistered, EntriesAreOutstandingCalls, Waiting, BeingAnswered,
        callerVars, resultVars, netVars, ioVars
<1>1. ASSUME NEW c \in Callers, PackRequest(c) PROVE AnswerInv'
  BY <1>1, NextMsgIdValue DEF PackRequest, CallIds, MsgIds, NoId
<1>2. ASSUME NEW c \in Callers, ACallWithoutResult(c) PROVE AnswerInv'
  BY <1>2 DEF ACallWithoutResult
<1>3. ASSUME NEW c \in Callers, RegisterResult(c) PROVE AnswerInv'
  BY <1>3 DEF RegisterResult
<1>4. ASSUME NEW c \in Callers, WriteRequest(c) PROVE AnswerInv'
  BY <1>4 DEF WriteRequest
<1>5. ASSUME NEW c \in Callers, Wait(c) PROVE AnswerInv'
  BY <1>5 DEF Wait
<1>6. ASSUME NEW c \in Callers, CopyOut(c) PROVE AnswerInv'
  BY <1>6 DEF CopyOut
<1>7. ASSUME NEW c \in Callers, SpuriousWakeup(c) PROVE AnswerInv'
  BY <1>7 DEF SpuriousWakeup
<1>8. ASSUME NEW i \in MsgIds, FindResult(i) PROVE AnswerInv'
  BY <1>8 DEF FindResult
<1>9. ASSUME NEW i \in MsgIds, IgnoreResponse(i) PROVE AnswerInv'
  BY <1>9 DEF IgnoreResponse
<1>10. ASSUME NEW i \in MsgIds, PeerAnswer(i) PROVE AnswerInv'
  BY <1>10 DEF PeerAnswer
<1>11. CASE FillResult
  BY <1>11 DEF FillResult
<1>12. CASE SetOk
  BY <1>12 DEF SetOk
<1>13. CASE NotifyAll
  BY <1>13 DEF NotifyAll
<1>14. CASE CorruptMemory
  BY <1>14 DEF CorruptMemory
<1>15. CASE Disconnect
  BY <1>15 DEF Disconnect
<1>16. CASE UNCHANGED vars
  BY <1>16 DEF vars
<1> QED
  BY <1>1, <1>2, <1>3, <1>4, <1>5, <1>6, <1>7, <1>8, <1>9, <1>10, <1>11,
     <1>12, <1>13, <1>14, <1>15, <1>16 DEF Next, CallerStep, IoStep, Read

(* The strengthened invariant holds in every state.                        *)
LEMMA AnswerInvariant == Spec => [](WakeInv /\ AnswerInv)
<1>1. Init => WakeInv
  BY TypeInit DEF Init, WakeInv, AliveWhileCalling, SleeperWillBeNotified
<1>2. Init => AnswerInv
  BY NullAssumption, IdAssumption
  DEF Init, AnswerInv, DistinctIds, CounterAhead, UnsentIsUnanswered, IoHoldsWaiter,
      OkMeansAnswered, NotifyHoldsAnswer, UnansweredIsRegistered,
      EntriesAreOutstandingCalls, Waiting,
      NoId, MsgIds
<1>3. WakeInv /\ AnswerInv /\ [Next]_vars => (WakeInv /\ AnswerInv)'
  BY WakeStep, AnswerStep
<1> QED BY <1>1, <1>2, <1>3, PTL DEF Spec

(* A Call of a caller that always passes an out parameter returns with the *)
(* answer to its own request in its Result: not another's, not an empty    *)
(* one, whatever the interleaving, the order of the answers, duplicates,   *)
(* disconnections and the other callers' null out parameters.              *)
THEOREM OwnAnswer == Spec => []CallReturnsItsOwnAnswer
<1>1. AnswerInv => CallReturnsItsOwnAnswer
  BY DEF AnswerInv, OkMeansAnswered, CallReturnsItsOwnAnswer
<1> QED BY <1>1, AnswerInvariant, PTL

(* An unanswered call of such a caller is always in waitings_ or in the io *)
(* thread's hands, so its response cannot miss it (the reason ACall        *)
(* registers before it writes), and waitings_ holds no other entry of      *)
(* theirs: none dangles and none is left behind.                           *)
THEOREM ResponseCannotMiss == Spec => []WaitingsMatchCalls
<1>1. AnswerInv => WaitingsMatchCalls
  BY DEF AnswerInv, WaitingsMatchCalls
<1> QED BY <1>1, AnswerInvariant, PTL

(* The io thread writes into a Result of such a caller only while it is    *)
(* alive and its call is the one the response answers; and when it runs    *)
(* notify_all the call has its answer or has returned it, although the     *)
(* Result may be gone by then.                                             *)
THEOREM NoStaleWakeUp == Spec => []WokenWithItsAnswer
<1>1. WakeInv /\ AnswerInv => ResponseReachesItsOwnResult
  BY DEF WakeInv, TypeInv, IoResult, AliveWhileCalling, AnswerInv, IoHoldsWaiter,
         ResponseReachesItsOwnResult
<1>2. WakeInv /\ AnswerInv => NotifiedHasItsAnswer
  BY DEF WakeInv, TypeInv, IoResult, AliveWhileCalling, AnswerInv, NotifyHoldsAnswer,
         NotifiedHasItsAnswer
<1> QED BY <1>1, <1>2, AnswerInvariant, PTL DEF WokenWithItsAnswer

(***************************************************************************)
(* The stream.                                                             *)
(***************************************************************************)

(* The first byte after message k.                                         *)
EndOf(k) == starts[k] + HeaderSize + lens[k]

(* The messages lie one after the other in the stream.                     *)
Layout ==
    /\ Len(kinds) = Len(lens) /\ Len(starts) = Len(lens)
    /\ Len(lens) = 0 => sent = 0
    /\ Len(lens) # 0 => starts[1] = 0 /\ EndOf(Len(lens)) = sent
    /\ \A k \in 1 .. Len(lens) : k < Len(lens) => starts[k + 1] = EndOf(k)
    /\ \A j, k \in 1 .. Len(lens) : j < k => starts[j] < starts[k]

(* Where the parser is: behind message `current`, or behind its header.    *)
InStep ==
    /\ consumed <= arrived /\ arrived <= sent
    /\ current \in 0 .. Len(lens)
    /\ state = "kHeader" => consumed = IF current = 0 THEN 0 ELSE EndOf(current)
    /\ state = "kBody" => /\ current # 0
                          /\ consumed = starts[current] + HeaderSize
                          /\ length = lens[current]

StreamInv == StreamTypeOK /\ Layout /\ InStep

-----------------------------------------------------------------------------
(* Where the parser expects a header, the next message starts, or nothing  *)
(* has been sent yet.                                                      *)
LEMMA NextHeader ==
    ASSUME StreamInv, state = "kHeader"
    PROVE  /\ current < Len(lens) => MessageAt(consumed) = current + 1
           /\ current = Len(lens) => consumed = sent
<1> USE StreamAssumption DEF StreamInv
<1>1. lens \in Seq(BodyLens) /\ starts \in Seq(Nat) /\ Len(starts) = Len(lens) /\ Len(lens) \in Nat
  BY DEF StreamTypeOK, Layout
<1>2. ASSUME current < Len(lens) PROVE MessageAt(consumed) = current + 1
  <2>1. current + 1 \in 1 .. Len(lens) /\ current \in Nat
    BY <1>1, <1>2 DEF InStep
  <2>2. consumed = starts[current + 1]
    BY <1>1, <1>2, <2>1 DEF InStep, Layout
  <2>3. ASSUME NEW k \in DOMAIN starts, starts[k] = consumed PROVE k = current + 1
    <3>1. k \in 1 .. Len(lens)
      BY <1>1, <2>3
    <3>2. starts[k] \in Nat /\ starts[current + 1] \in Nat
      BY <1>1, <2>1, <3>1
    <3> QED BY <1>1, <2>1, <2>2, <2>3, <3>1, <3>2 DEF Layout
  <2>4. current + 1 \in DOMAIN starts
    BY <1>1, <2>1
  <2> QED BY <2>2, <2>3, <2>4 DEF MessageAt
<1>3. ASSUME current = Len(lens) PROVE consumed = sent
  <2>1. CASE current = 0
    BY <1>1, <1>3, <2>1 DEF InStep, Layout
  <2>2. CASE current # 0
    BY <1>1, <1>3, <2>2 DEF InStep, Layout
  <2> QED BY <2>1, <2>2
<1> QED BY <1>2, <1>3

(* Sending a message extends the layout.                                   *)
LEMMA SendKeeps ==
    ASSUME StreamInv, NEW l \in BodyLens, NEW kind \in Kinds, SendMessage(l, kind)
    PROVE  StreamInv'
<1> USE StreamAssumption
<1>1. /\ lens \in Seq(BodyLens) /\ starts \in Seq(Nat) /\ kinds \in Seq(Kinds)
      /\ sent \in Nat /\ l \in Nat \ {0} /\ Len(lens) \in Nat
      /\ Len(starts) = Len(lens) /\ Len(kinds) = Len(lens)
  BY DEF StreamInv, StreamTypeOK, Layout
<1>2. /\ lens' = Append(lens, l) /\ kinds' = Append(kinds, kind)
      /\ starts' = Append(starts, sent) /\ sent' = sent + HeaderSize + l
      /\ lockstep' \in BOOLEAN /\ UNCHANGED <<isServer, parserVars, handled, bad, open>>
  BY DEF SendMessage, StreamInv, StreamTypeOK
<1>3. /\ Len(lens') = Len(lens) + 1 /\ Len(starts') = Len(lens) + 1 /\ Len(kinds') = Len(lens) + 1
      /\ lens'[Len(lens) + 1] = l /\ starts'[Len(lens) + 1] = sent
      /\ \A k \in 1 .. Len(lens) : lens'[k] = lens[k] /\ starts'[k] = starts[k]
  BY <1>1, <1>2
<1>4. StreamTypeOK'
  BY <1>1, <1>2 DEF StreamInv, StreamTypeOK, parserVars
<1>5. \A k \in 1 .. Len(lens) : starts[k] \in Nat /\ lens[k] \in Nat \ {0} /\ starts[k] < sent
  <2>1. ASSUME NEW k \in 1 .. Len(lens) PROVE starts[k] \in Nat /\ lens[k] \in Nat \ {0}
    <3>1. lens[k] \in BodyLens
      BY <1>1
    <3>2. starts[k] \in Nat
      BY <1>1
    <3> QED BY <3>1, <3>2
  <2>2. ASSUME NEW k \in 1 .. Len(lens) PROVE starts[k] < sent
    <3>1. Len(lens) # 0 /\ Len(lens) \in 1 .. Len(lens)
      BY <1>1
    <3>2. starts[Len(lens)] < sent
      BY <2>1, <3>1 DEF StreamInv, Layout, EndOf
    <3>3. k = Len(lens) \/ starts[k] < starts[Len(lens)]
      BY <1>1, <3>1 DEF StreamInv, Layout
    <3> QED BY <1>1, <2>1, <3>1, <3>2, <3>3
  <2> QED BY <2>1, <2>2
<1>6. Layout'
  <2>1. Len(kinds') = Len(lens') /\ Len(starts') = Len(lens') /\ Len(lens') # 0
    BY <1>1, <1>3
  <2>2. starts'[1] = 0 /\ starts'[Len(lens')] + HeaderSize + lens'[Len(lens')] = sent'
    BY <1>1, <1>2, <1>3 DEF StreamInv, Layout, EndOf
  <2>3. ASSUME NEW k \in 1 .. Len(lens'), k < Len(lens')
        PROVE  starts'[k + 1] = starts'[k] + HeaderSize + lens'[k]
    <3>1. k \in 1 .. Len(lens) /\ starts'[k] = starts[k] /\ lens'[k] = lens[k]
      BY <1>1, <1>3, <2>3
    <3>2. CASE k = Len(lens)
      BY <1>1, <1>3, <3>1, <3>2 DEF StreamInv, Layout, EndOf
    <3>3. CASE k < Len(lens)
      <4>1. k + 1 \in 1 .. Len(lens)
        BY <1>1, <3>1, <3>3
      <4>2. starts[k + 1] = EndOf(k)
        BY <3>1, <3>3 DEF StreamInv, Layout
      <4> QED BY <1>3, <3>1, <4>1, <4>2 DEF EndOf
    <3> QED BY <1>1, <3>1, <3>2, <3>3
  <2>4. ASSUME NEW j \in 1 .. Len(lens'), NEW k \in 1 .. Len(lens'), j < k
        PROVE  starts'[j] < starts'[k]
    <3>1. j \in 1 .. Len(lens) /\ starts'[j] = starts[j]
      BY <1>1, <1>3, <2>4
    <3>2. CASE k = Len(lens) + 1
      BY <1>3, <1>5, <3>1, <3>2
    <3>3. CASE k # Len(lens) + 1
      <4>1. k \in 1 .. Len(lens)
        BY <1>1, <1>3, <3>3
      <4> QED BY <1>3, <2>4, <3>1, <4>1 DEF StreamInv, Layout
    <3> QED BY <3>2, <3>3
  <2> QED BY <2>1, <2>2, <2>3, <2>4 DEF Layout, EndOf
<1>7. InStep'
  <2>1. UNCHANGED <<arrived, consumed, state, length, current>> /\ sent <= sent'
    BY <1>1, <1>2 DEF parserVars
  <2>2. current \in 0 .. Len(lens) /\ consumed <= arrived /\ arrived <= sent /\ arrived \in Nat
    BY DEF StreamInv, StreamTypeOK, InStep
  <2>3. current \in 0 .. Len(lens') /\ arrived <= sent'
    BY <1>1, <1>2, <1>3, <2>1, <2>2
  <2>4. CASE current = 0
    BY <2>1, <2>2, <2>3, <2>4 DEF StreamInv, InStep
  <2>5. CASE current # 0
    <3>1. starts'[current] = starts[current] /\ lens'[current] = lens[current]
      BY <1>1, <1>3, <2>2, <2>5
    <3> QED BY <2>1, <2>2, <2>3, <2>5, <3>1 DEF StreamInv, InStep, EndOf
  <2> QED BY <2>4, <2>5
<1> QED BY <1>4, <1>6, <1>7 DEF StreamInv

-----------------------------------------------------------------------------
(* How many messages have been parsed to the end.                          *)
Done(s, m) == IF s = "kHeader" THEN m ELSE m - 1

(* What is true of the registers p after a call of Parse on an input       *)
(* buffer that ends at arr.                                                *)
AfterParse(p, arr) ==
    /\ p.consumed \in Nat /\ p.consumed <= arr
    /\ p.state \in {"kHeader", "kBody"} /\ p.length \in BodyLens \cup {0}
    /\ p.current \in 0 .. Len(lens)
    /\ p.state = "kHeader" =>
           p.consumed = IF p.current = 0 THEN 0 ELSE EndOf(p.current)
    /\ p.state = "kBody" => /\ p.current # 0
                            /\ p.consumed = starts[p.current] + HeaderSize
                            /\ p.length = lens[p.current]
    /\ p.result = "kGood" => /\ p.state = "kHeader"
                             /\ p.current = Done(state, current) + 1
    /\ p.result = "kContinue" => Done(p.state, p.current) = Done(state, current)
    /\ p.result \in {"kGood", "kContinue", "kBad"}
    /\ p.result = "kBad" =>
           /\ Done(p.state, p.current) \in {Done(state, current), Done(state, current) + 1}
           /\ p.current = Done(state, current) + 1 /\ kinds[p.current] # "good"

(* The body half of Parse, entered behind the header of message k.         *)
LEMMA ParseBodyInStep ==
    ASSUME StreamInv, NEW k \in 1 .. Len(lens), NEW arr \in Nat,
           starts[k] + HeaderSize <= arr, Done(state, current) = k - 1
    PROVE  AfterParse(ParseBody(starts[k] + HeaderSize, lens[k], k, arr), arr)
<1> DEFINE c == starts[k] + HeaderSize
           p == ParseBody(c, lens[k], k, arr)
<1>1. /\ lens \in Seq(BodyLens) /\ starts \in Seq(Nat) /\ kinds \in Seq(Kinds)
      /\ Len(kinds) = Len(lens) /\ Len(starts) = Len(lens) /\ Len(lens) \in Nat
  BY DEF StreamInv, StreamTypeOK, Layout
<1>2. lens[k] \in BodyLens /\ kinds[k] \in Kinds /\ starts[k] \in Nat
  BY <1>1
<1>3. lens[k] \in Nat /\ c \in Nat /\ HeaderSize \in Nat
  <2>1. HeaderSize \in Nat /\ BodyLens \subseteq Nat
    BY StreamAssumption
  <2>2. lens[k] \in Nat
    BY <1>2, <2>1
  <2>3. starts[k] + HeaderSize \in Nat
    BY <1>2, <2>1
  <2> QED BY <2>1, <2>2, <2>3
<1>4. CASE arr - c < lens[k]
  <2>1. p = [consumed |-> c, state |-> "kBody", length |-> lens[k], current |-> k,
             result |-> "kContinue"]
    BY <1>4 DEF ParseBody, Parsed
  <2> QED BY <1>1, <1>2, <1>3, <2>1, SMTT(30) DEF AfterParse, Done
<1>5. CASE ~(arr - c < lens[k])
  <2> DEFINE r == IF kinds[k] = "badbody" THEN "kBad" ELSE "kGood"
  <2>1. p = [consumed |-> c + lens[k], state |-> "kHeader", length |-> lens[k], current |-> k,
             result |-> r]
    BY <1>5 DEF ParseBody, Parsed
  <2>2. c + lens[k] \in Nat /\ c + lens[k] <= arr /\ c + lens[k] = EndOf(k)
    BY <1>2, <1>3, <1>5, SMTT(30) DEF EndOf
  <2>3. /\ r \in {"kGood", "kBad"}
        /\ r = "kBad" => kinds[k] # "good"
    BY <1>2
  <2>4. k - 1 + 1 = k /\ k # 0 /\ k \in 0 .. Len(lens)
    BY <1>1
  <2>5. p.consumed = EndOf(k) /\ p.consumed \in Nat /\ p.consumed <= arr
    BY <2>1, <2>2
  <2>6. p.state = "kHeader" /\ p.length = lens[k] /\ p.current = k /\ p.result = r
    BY <2>1
  <2> HIDE DEF r, p
  <2>7. AfterParse(p, arr)
    BY <1>1, <1>2, <2>3, <2>4, <2>5, <2>6 DEF AfterParse, Done
  <2> QED BY <2>7 DEF p
<1> QED BY <1>4, <1>5

(* A call of Parse keeps the parser in step, wherever the input ends.      *)
LEMMA ParseInStep ==
    ASSUME StreamInv, NEW arr \in Nat, arrived <= arr, arr <= sent
    PROVE  AfterParse(Parse(arr), arr)
<1> USE StreamAssumption
<1>1. /\ lens \in Seq(BodyLens) /\ starts \in Seq(Nat) /\ kinds \in Seq(Kinds)
      /\ Len(kinds) = Len(lens) /\ Len(starts) = Len(lens) /\ Len(lens) \in Nat
      /\ consumed \in Nat /\ arrived \in Nat /\ sent \in Nat /\ current \in 0 .. Len(lens)
      /\ state \in {"kHeader", "kBody"} /\ length \in BodyLens \cup {0}
      /\ consumed <= arr
  BY DEF StreamInv, StreamTypeOK, Layout, InStep
<1>2. CASE state = "kHeader" /\ arr - consumed < HeaderSize
  <2>1. Parse(arr) = [consumed |-> consumed, state |-> "kHeader", length |-> length,
                      current |-> current, result |-> "kContinue"]
    BY <1>2 DEF Parse, ParseHeader, Parsed
  <2>2. consumed = IF current = 0 THEN 0 ELSE EndOf(current)
    BY <1>2 DEF StreamInv, InStep
  <2> QED BY <1>1, <1>2, <2>1, <2>2 DEF AfterParse, Done
<1>3. CASE state = "kHeader" /\ ~(arr - consumed < HeaderSize)
  <2> DEFINE k == current + 1
  <2>1. current < Len(lens)
    <3>1. consumed < sent
      BY <1>1, <1>3
    <3> QED BY <1>1, <1>3, <3>1, NextHeader
  <2>2. k \in 1 .. Len(lens) /\ k # 0 /\ k - 1 = current
    BY <1>1, <2>1
  <2>3. MessageAt(consumed) = k
    BY <1>3, <2>1, NextHeader
  <2>4. consumed = starts[k]
    <3>1. CASE current = 0
      BY <1>1, <1>3, <2>1, <3>1 DEF StreamInv, InStep, Layout
    <3>2. CASE current # 0
      BY <1>1, <1>3, <2>1, <3>2 DEF StreamInv, InStep, Layout
    <3> QED BY <3>1, <3>2
  <2>5. starts[k] + HeaderSize <= arr /\ starts[k] + HeaderSize \in Nat
    BY <1>1, <1>3, <2>4
  <2>6. Done(state, current) = k - 1
    BY <1>3, <2>2 DEF Done
  <2>7. lens[k] \in BodyLens /\ kinds[k] \in Kinds
    BY <1>1, <2>2
  <2> HIDE DEF k
  <2>8. CASE kinds[k] = "badmagic"
    <3>1. Parse(arr) = [consumed |-> starts[k] + HeaderSize, state |-> "kBody",
                        length |-> lens[k], current |-> k, result |-> "kBad"]
      BY <1>3, <2>2, <2>3, <2>4, <2>8 DEF Parse, ParseHeader, Parsed
    <3> QED BY <1>1, <2>2, <2>5, <2>6, <2>7, <2>8, <3>1 DEF AfterParse, Done
  <2>9. CASE kinds[k] # "badmagic"
    <3>1. Parse(arr) = ParseBody(starts[k] + HeaderSize, lens[k], k, arr)
      BY <1>3, <2>2, <2>3, <2>4, <2>9 DEF Parse, ParseHeader
    <3> QED BY <2>2, <2>5, <2>6, <3>1, ParseBodyInStep
  <2> QED BY <2>8, <2>9
<1>4. CASE state = "kBody"
  <2>1. current \in 1 .. Len(lens) /\ consumed = starts[current] + HeaderSize /\ length = lens[current]
    BY <1>1, <1>4 DEF StreamInv, InStep
  <2>2. Parse(arr) = ParseBody(starts[current] + HeaderSize, lens[current], current, arr)
    BY <1>4, <2>1 DEF Parse
  <2>3. Done(state, current) = current - 1
    BY <1>4 DEF Done
  <2> QED BY <1>1, <2>1, <2>2, <2>3, ParseBodyInStep
<1> QED BY <1>1, <1>2, <1>3, <1>4

(* The receive callback keeps the invariant.                               *)
LEMMA ReceiveKeeps ==
    ASSUME StreamInv, NEW n \in 1 .. MaxChunk, Receive(n)
    PROVE  /\ StreamInv'
           /\ \E p : /\ AfterParse(p, arrived + n)
                     /\ state' = p.state /\ current' = p.current
                     /\ handled' = IF p.result = "kGood"
                                   THEN Append(handled, p.current) ELSE handled
                     /\ bad' = (bad \/ p.result = "kBad")
<1> DEFINE p == Parse(arrived + n)
<1>1. /\ arrived \in Nat /\ sent \in Nat /\ n \in Nat
      /\ arrived + n \in Nat /\ arrived <= arrived + n /\ arrived + n <= sent
  BY StreamAssumption DEF StreamInv, StreamTypeOK, Receive
<1>2. AfterParse(p, arrived + n)
  BY <1>1, ParseInStep
<1>3. /\ arrived' = arrived + n /\ consumed' = p.consumed /\ state' = p.state
      /\ length' = p.length /\ current' = p.current
      /\ handled' = IF p.result = "kGood" THEN Append(handled, p.current) ELSE handled
      /\ bad' = (bad \/ p.result = "kBad")
      /\ open' = StopOnBad(p.result)
      /\ UNCHANGED <<lens, kinds, starts, sent, lockstep, isServer>>
  BY DEF Receive, peerVars
<1> HIDE DEF p
<1>4. Layout'
  BY <1>3 DEF StreamInv, Layout, EndOf
<1>5. InStep'
  BY <1>1, <1>2, <1>3 DEF InStep, AfterParse, EndOf
<1>6. StreamTypeOK'
  <2>1. p.current \in Nat
    BY <1>2 DEF AfterParse
  <2>2. handled' \in Seq(Nat)
    BY <1>3, <2>1 DEF StreamInv, StreamTypeOK
  <2>3. bad' \in BOOLEAN /\ open' \in BOOLEAN
    BY <1>3 DEF StopOnBad, StreamInv, StreamTypeOK
  <2> QED BY <1>1, <1>2, <1>3, <2>1, <2>2, <2>3 DEF StreamInv, StreamTypeOK, AfterParse
<1> QED BY <1>2, <1>3, <1>4, <1>5, <1>6 DEF StreamInv

(* Before anything is sent the parser waits for the first header.          *)
LEMMA StreamInvInit == StreamInit => StreamInv
<1> SUFFICES ASSUME StreamInit PROVE StreamInv
  OBVIOUS
<1>1. StreamTypeOK
  <2>1. \A S : <<>> \in Seq(S)
    OBVIOUS
  <2>2. /\ lens \in Seq(BodyLens) /\ kinds \in Seq(Kinds) /\ starts \in Seq(Nat)
        /\ handled \in Seq(Nat)
    BY <2>1 DEF StreamInit
  <2> QED BY <2>2 DEF StreamInit, StreamTypeOK
<1>2. Layout
  BY DEF StreamInit, Layout
<1>3. InStep
  BY DEF StreamInit, InStep
<1> QED BY <1>1, <1>2, <1>3 DEF StreamInv

(* Every step keeps the layout of the stream and the parser in step.       *)
LEMMA StreamStep == StreamInv /\ [StreamNext]_streamVars => StreamInv'
<1> SUFFICES ASSUME StreamInv, [StreamNext]_streamVars PROVE StreamInv'
  OBVIOUS
<1>1. ASSUME NEW l \in BodyLens, NEW kind \in Kinds, SendMessage(l, kind) PROVE StreamInv'
  BY <1>1, SendKeeps
<1>2. ASSUME NEW n \in 1 .. MaxChunk, Receive(n) PROVE StreamInv'
  BY <1>2, ReceiveKeeps
<1>3. CASE UNCHANGED streamVars
  BY <1>3 DEF streamVars, peerVars, parserVars, StreamInv, StreamTypeOK, Layout, InStep, EndOf
<1> QED BY <1>1, <1>2, <1>3 DEF StreamNext

(* The invariant the theorems rest on.                                     *)
LEMMA StreamInvariant == StreamSpec => []StreamInv
BY StreamInvInit, StreamStep, PTL DEF StreamSpec

(* Positions, lengths and registers keep their types.                      *)
THEOREM StreamTypeCorrect == StreamSpec => []StreamTypeOK
<1>1. StreamInv => StreamTypeOK
  BY DEF StreamInv
<1> QED BY <1>1, StreamInvariant, PTL

(* Whatever the sizes of bodies and chunks, and whatever messages are bad, *)
(* the parser reads a header only where a message begins and a body only   *)
(* behind its own header (BusContext::Parse).                              *)
THEOREM StaysInStep == StreamSpec => []ParserInStep
<1>1. StreamInv => ParserInStep
  <2> SUFFICES ASSUME StreamInv PROVE ParserInStep
    OBVIOUS
  <2>1. Len(starts) = Len(lens) /\ starts \in Seq(Nat) /\ Len(lens) \in Nat /\ lens \in Seq(BodyLens)
    BY DEF StreamInv, StreamTypeOK, Layout
  <2>2. ASSUME state = "kHeader"
        PROVE  consumed \in {starts[k] : k \in DOMAIN starts} \cup {sent}
    <3>1. current \in 0 .. Len(lens)
      BY DEF StreamInv, InStep
    <3>2. CASE current = Len(lens)
      BY <2>2, <3>2, NextHeader
    <3>3. CASE current < Len(lens)
      <4>1. MessageAt(consumed) # 0
        BY <2>1, <2>2, <3>1, <3>3, NextHeader
      <4>2. \E k \in DOMAIN starts : starts[k] = consumed
        BY <4>1 DEF MessageAt
      <4> QED BY <4>2
    <3> QED BY <2>1, <3>1, <3>2, <3>3
  <2>3. ASSUME state = "kBody"
        PROVE  current \in DOMAIN starts /\ consumed = starts[current] + HeaderSize
    BY <2>1, <2>3 DEF StreamInv, InStep
  <2> QED BY <2>2, <2>3 DEF ParserInStep, StreamInv, InStep
<1> QED BY <1>1, StreamInvariant, PTL

-----------------------------------------------------------------------------
(* What has been handled, when D messages have been parsed to the end:     *)
(* numbers up to D in increasing order, all good messages among them.      *)
HandledUpTo(h, D) ==
    /\ \A i \in 1 .. Len(h) : h[i] \in 1 .. D
    /\ \A i, j \in 1 .. Len(h) : i < j => h[i] < h[j]
    /\ \A k \in 1 .. D : kinds[k] = "good" => \E j \in 1 .. Len(h) : h[j] = k

OrderInv == StreamInv /\ BadOnlyIfSent /\ HandledUpTo(handled, Done(state, current))

(* One more message parsed to the end: it is handled, or it is bad.        *)
LEMMA HandleNext ==
    ASSUME StreamInv, NEW D \in Nat, HandledUpTo(handled, D)
    PROVE  /\ HandledUpTo(Append(handled, D + 1), D + 1)
           /\ kinds[D + 1] # "good" => HandledUpTo(handled, D + 1)
<1> DEFINE h == Append(handled, D + 1)
           n == Len(handled)
<1>1. handled \in Seq(Nat) /\ n \in Nat
  BY DEF StreamInv, StreamTypeOK
<1>2. Len(h) = n + 1 /\ h[n + 1] = D + 1 /\ \A i \in 1 .. n : h[i] = handled[i]
  BY <1>1
<1> HIDE DEF h, n
<1>3. \A k \in 1 .. (D + 1) : k \in 1 .. D \/ k = D + 1
  OBVIOUS
<1>4. \A i \in 1 .. (n + 1) : i \in 1 .. n \/ i = n + 1
  BY <1>1
<1>5. /\ \A i \in 1 .. n : handled[i] \in 1 .. D
      /\ \A i, j \in 1 .. n : i < j => handled[i] < handled[j]
      /\ \A k \in 1 .. D : kinds[k] = "good" => \E j \in 1 .. n : handled[j] = k
  BY DEF HandledUpTo, n
<1>6. ASSUME NEW i \in 1 .. (n + 1) PROVE h[i] \in 1 .. (D + 1)
  BY <1>2, <1>4, <1>5
<1>7. ASSUME NEW i \in 1 .. (n + 1), NEW j \in 1 .. (n + 1), i < j PROVE h[i] < h[j]
  <2>1. i \in 1 .. n /\ h[i] = handled[i] /\ handled[i] \in 1 .. D
    BY <1>1, <1>2, <1>5, <1>7
  <2>2. CASE j \in 1 .. n
    BY <1>2, <1>5, <1>7, <2>1, <2>2
  <2>3. CASE j = n + 1
    BY <1>2, <2>1, <2>3
  <2> QED BY <1>4, <2>2, <2>3
<1>8. ASSUME NEW k \in 1 .. (D + 1), kinds[k] = "good" PROVE \E j \in 1 .. (n + 1) : h[j] = k
  <2>1. CASE k \in 1 .. D
    <3>1. PICK j \in 1 .. n : handled[j] = k
      BY <1>5, <1>8, <2>1
    <3>2. j \in 1 .. (n + 1) /\ h[j] = k
      BY <1>1, <1>2, <3>1
    <3> QED BY <3>2
  <2>2. CASE k = D + 1
    <3>1. n + 1 \in 1 .. (n + 1)
      BY <1>1
    <3> QED BY <1>2, <2>2, <3>1
  <2> QED BY <1>3, <2>1, <2>2
<1>9. HandledUpTo(h, D + 1)
  BY <1>2, <1>6, <1>7, <1>8 DEF HandledUpTo
<1>10. ASSUME kinds[D + 1] # "good" PROVE HandledUpTo(handled, D + 1)
  BY <1>3, <1>5, <1>10 DEF HandledUpTo, n
<1> QED BY <1>9, <1>10 DEF h

(* The numbers of the messages parsed to the end are numbers of messages.  *)
LEMMA DoneRange ==
    ASSUME StreamInv
    PROVE  Done(state, current) \in 0 .. Len(kinds) /\ Len(kinds) \in Nat
BY DEF StreamInv, StreamTypeOK, Layout, InStep, Done

(* Sending, receiving and parsing keep the order.                          *)
LEMMA OrderStep == OrderInv /\ [StreamNext]_streamVars => OrderInv'
<1> SUFFICES ASSUME OrderInv, [StreamNext]_streamVars PROVE OrderInv'
  OBVIOUS
<1>1. StreamInv /\ StreamInv' /\ handled \in Seq(Nat) /\ Len(handled) \in Nat
  BY StreamStep DEF OrderInv, StreamInv, StreamTypeOK
<1> DEFINE D == Done(state, current)
<1>2. D \in 0 .. Len(kinds) /\ Len(kinds) \in Nat /\ HandledUpTo(handled, D)
  BY <1>1, DoneRange DEF OrderInv
<1>3. ASSUME NEW l \in BodyLens, NEW kind \in Kinds, SendMessage(l, kind) PROVE OrderInv'
  <2>1. kinds' = Append(kinds, kind) /\ UNCHANGED <<state, current, handled, bad>>
    BY <1>3 DEF SendMessage, parserVars
  <2>2. kinds \in Seq(Kinds)
    BY <1>1 DEF StreamInv, StreamTypeOK
  <2>3. /\ Len(kinds') = Len(kinds) + 1
        /\ \A k \in 1 .. Len(kinds) : kinds'[k] = kinds[k]
        /\ DOMAIN kinds = 1 .. Len(kinds) /\ DOMAIN kinds' = 1 .. (Len(kinds) + 1)
    BY <2>1, <2>2
  <2>4. BadOnlyIfSent'
    BY <1>2, <2>1, <2>3 DEF OrderInv, BadOnlyIfSent
  <2>5. Done(state', current') = D
    BY <2>1 DEF Done
  <2>6. \A k \in 1 .. D : kinds'[k] = kinds[k]
    BY <1>2, <2>3
  <2> HIDE DEF D
  <2>7. HandledUpTo(handled, D)'
    BY <1>2, <2>1, <2>5, <2>6 DEF HandledUpTo, D, Done
  <2> QED BY <1>1, <2>4, <2>7 DEF OrderInv, D
<1>4. ASSUME NEW n \in 1 .. MaxChunk, Receive(n) PROVE OrderInv'
  <2>1. PICK p : /\ AfterParse(p, arrived + n)
                 /\ state' = p.state /\ current' = p.current
                 /\ handled' = IF p.result = "kGood"
                               THEN Append(handled, p.current) ELSE handled
                 /\ bad' = (bad \/ p.result = "kBad")
    BY <1>1, <1>4, ReceiveKeeps
  <2>2. kinds' = kinds /\ p.result \in {"kGood", "kContinue", "kBad"}
    BY <1>4, <2>1 DEF Receive, peerVars, AfterParse
  <2> DEFINE E == Done(p.state, p.current)
  <2>3. Done(state', current') = E
    BY <2>1
  <2>4. /\ p.result = "kGood" => p.current = D + 1 /\ E = D + 1
        /\ p.result = "kContinue" => E = D
        /\ p.result = "kBad" => E \in {D, D + 1} /\ p.current = D + 1 /\ kinds[D + 1] # "good"
    BY <2>1 DEF AfterParse, Done
  <2>5. p.result = "kBad" => D + 1 \in DOMAIN kinds
    <3>1. p.current \in 0 .. Len(lens) /\ Len(lens) = Len(kinds) /\ kinds \in Seq(Kinds)
      BY <1>1, <2>1 DEF AfterParse, StreamInv, StreamTypeOK, Layout
    <3> QED BY <1>2, <2>4, <3>1
  <2> HIDE DEF D, E
  <2>6. BadOnlyIfSent'
    BY <2>1, <2>2, <2>4, <2>5 DEF OrderInv, BadOnlyIfSent
  <2>7. D \in Nat
    BY <1>2
  <2>8. /\ HandledUpTo(Append(handled, D + 1), D + 1)
        /\ kinds[D + 1] # "good" => HandledUpTo(handled, D + 1)
    BY <1>1, <1>2, <2>7, HandleNext
  <2>9. HandledUpTo(handled', E)
    <3>1. CASE p.result = "kGood"
      BY <2>1, <2>4, <2>8, <3>1
    <3>2. CASE p.result = "kContinue"
      BY <1>2, <2>1, <2>4, <3>2
    <3>3. CASE p.result = "kBad"
      BY <1>2, <2>1, <2>4, <2>8, <3>3
    <3> QED BY <2>2, <3>1, <3>2, <3>3
  <2>10. HandledUpTo(handled, Done(state, current))'
    BY <2>2, <2>3, <2>9 DEF HandledUpTo
  <2> QED BY <1>1, <2>6, <2>10 DEF OrderInv
<1>5. CASE UNCHANGED streamVars
  BY <1>1, <1>5 DEF streamVars, peerVars, parserVars, OrderInv, BadOnlyIfSent, HandledUpTo, Done
<1> QED BY <1>3, <1>4, <1>5 DEF StreamNext

(* It holds of every stream.                                               *)
LEMMA OrderInvariant == StreamSpec => []OrderInv
<1>1. StreamInit => OrderInv
  BY StreamInvInit DEF StreamInit, OrderInv, BadOnlyIfSent, HandledUpTo, Done
<1> QED BY <1>1, OrderStep, PTL DEF StreamSpec

(* A client that has not stopped has parsed good messages only.            *)
ClientInv ==
    ~isServer =>
        /\ bad => ~open
        /\ ~bad => /\ \A k \in 1 .. Done(state, current) : kinds[k] = "good"
                   /\ state = "kBody" => kinds[current] # "badmagic"
        /\ \A i \in 1 .. Len(handled) : \A k \in 1 .. handled[i] : kinds[k] = "good"

(* Behind a header with the right magic number only a body that unpacks is *)
(* a good message.                                                         *)
LEMMA ParseGood ==
    ASSUME NEW arr, state \in {"kHeader", "kBody"},
           state = "kBody" => kinds[current] # "badmagic",
           Parse(arr).result # "kBad"
    PROVE  /\ Parse(arr).result = "kGood" =>
                  kinds[Parse(arr).current] \notin {"badmagic", "badbody"}
           /\ Parse(arr).state = "kBody" => kinds[Parse(arr).current] # "badmagic"
BY DEF Parse, ParseHeader, ParseBody, Parsed

(* A client stops at the first bad message.                                *)
LEMMA ClientStep == OrderInv /\ ClientInv /\ [StreamNext]_streamVars => ClientInv'
<1> SUFFICES ASSUME OrderInv, ClientInv, ~isServer, [StreamNext]_streamVars PROVE ClientInv'
  BY DEF ClientInv, StreamNext, SendMessage, Receive, streamVars
<1> DEFINE D == Done(state, current)
<1>1. /\ StreamInv /\ HandledUpTo(handled, D)
      /\ D \in 0 .. Len(kinds) /\ Len(kinds) \in Nat
      /\ kinds \in Seq(Kinds) /\ handled \in Seq(Nat) /\ Len(handled) \in Nat
      /\ state \in {"kHeader", "kBody"} /\ current \in 0 .. Len(kinds)
      /\ state = "kBody" => current # 0
  BY DoneRange DEF OrderInv, StreamInv, StreamTypeOK, Layout, InStep
<1>2. \A i \in 1 .. Len(handled) : handled[i] \in 1 .. D
  BY <1>1 DEF HandledUpTo
<1>3. ASSUME NEW l \in BodyLens, NEW kind \in Kinds, SendMessage(l, kind) PROVE ClientInv'
  <2>1. kinds' = Append(kinds, kind) /\ UNCHANGED <<isServer, state, current, handled, bad, open>>
    BY <1>3 DEF SendMessage, parserVars
  <2>2. \A k \in 1 .. Len(kinds) : kinds'[k] = kinds[k]
    BY <1>1, <2>1
  <2>3. Done(state', current') = D
    BY <2>1 DEF Done
  <2>4. \A k \in 1 .. D : kinds'[k] = kinds[k]
    BY <1>1, <2>2
  <2>5. state = "kBody" => kinds'[current] = kinds[current]
    BY <1>1, <2>2
  <2>6. \A i \in 1 .. Len(handled) : \A k \in 1 .. handled[i] : k \in 1 .. D
    BY <1>1, <1>2
  <2> HIDE DEF D
  <2> QED BY <2>1, <2>3, <2>4, <2>5, <2>6 DEF ClientInv, D
<1>4. ASSUME NEW n \in 1 .. MaxChunk, Receive(n) PROVE ClientInv'
  <2> DEFINE p == Parse(arrived + n)
  <2>1. /\ state' = p.state /\ current' = p.current
        /\ handled' = IF p.result = "kGood" THEN Append(handled, p.current) ELSE handled
        /\ bad' = (bad \/ p.result = "kBad")
        /\ open' = (open /\ (p.result = "kBad" => isServer))
        /\ open /\ UNCHANGED <<isServer, kinds>>
    BY <1>4 DEF Receive, StopOnBad, peerVars
  <2>2. ~bad
    BY <2>1 DEF ClientInv
  <2>3. /\ \A k \in 1 .. D : kinds[k] = "good"
        /\ state = "kBody" => kinds[current] # "badmagic"
        /\ \A i \in 1 .. Len(handled) : \A k \in 1 .. handled[i] : kinds[k] = "good"
    BY <2>2 DEF ClientInv
  <2>4. AfterParse(p, arrived + n)
    <3>1. /\ arrived \in Nat /\ sent \in Nat /\ n \in Nat
          /\ arrived + n \in Nat /\ arrived <= arrived + n /\ arrived + n <= sent
      BY <1>1, <1>4, StreamAssumption DEF StreamInv, StreamTypeOK, Receive
    <3> QED BY <1>1, <3>1, ParseInStep
  <2>5. p.result # "kBad" =>
            /\ p.result = "kGood" => kinds[p.current] \notin {"badmagic", "badbody"}
            /\ p.state = "kBody" => kinds[p.current] # "badmagic"
    BY <1>1, <2>3, ParseGood
  <2>6. /\ p.result \in {"kGood", "kContinue", "kBad"} /\ p.current \in 0 .. Len(kinds)
        /\ p.result = "kGood" => p.current = D + 1 /\ Done(p.state, p.current) = D + 1
        /\ p.result = "kContinue" => Done(p.state, p.current) = D
    BY <1>1, <2>4 DEF AfterParse, Done, StreamInv, Layout
  <2> HIDE DEF p, D
  <2>7. CASE p.result = "kBad"
    BY <2>1, <2>3, <2>7 DEF ClientInv
  <2>8. CASE p.result = "kContinue"
    <3>1. Done(state', current') = D
      BY <2>1, <2>6, <2>8
    <3> QED BY <2>1, <2>2, <2>3, <2>5, <2>8, <3>1 DEF ClientInv
  <2>9. CASE p.result = "kGood"
    <3>1. Done(state', current') = D + 1 /\ p.current = D + 1 /\ p.current \in 1 .. Len(kinds)
      BY <1>1, <2>1, <2>6, <2>9
    <3>2. kinds[D + 1] = "good"
      <4>1. kinds[p.current] \in AllKinds
        BY <1>1, <3>1, StreamAssumption
      <4> QED BY <2>5, <2>9, <3>1, <4>1 DEF AllKinds
    <3>3. \A k \in 1 .. (D + 1) : kinds[k] = "good"
      BY <1>1, <2>3, <3>2
    <3>4. /\ handled' = Append(handled, D + 1) /\ Len(handled') = Len(handled) + 1
          /\ handled'[Len(handled) + 1] = D + 1
          /\ \A i \in 1 .. Len(handled) : handled'[i] = handled[i]
      BY <1>1, <2>1, <2>9, <3>1
    <3>5. \A i \in 1 .. Len(handled') : \A k \in 1 .. handled'[i] : kinds[k] = "good"
      BY <1>1, <2>3, <3>3, <3>4
    <3> QED BY <2>1, <2>2, <2>5, <2>9, <3>1, <3>3, <3>5 DEF ClientInv
  <2> QED BY <2>6, <2>7, <2>8, <2>9
<1>5. CASE UNCHANGED streamVars
  BY <1>5 DEF streamVars, peerVars, parserVars, ClientInv, Done
<1> QED BY <1>3, <1>4, <1>5 DEF StreamNext

(* Messages are handled in the order sent, each at most once, and no good  *)
(* one is skipped or rejected, however the stream is cut; a client handles *)
(* nothing behind a bad message (BusContext::Parse, the read callbacks).   *)
THEOREM InOrderOnce == StreamSpec => []MessagesHandledAsSent
<1>1. ASSUME OrderInv PROVE HandledInOrder
  <2> DEFINE D == Done(state, current)
  <2>1. DOMAIN handled = 1 .. Len(handled) /\ D \in Nat
    BY <1>1, DoneRange DEF OrderInv, StreamInv, StreamTypeOK
  <2>2. HandledUpTo(handled, D)
    BY <1>1 DEF OrderInv
  <2> HIDE DEF D
  <2>3. ASSUME NEW i \in DOMAIN handled, NEW k \in 1 .. handled[i], kinds[k] = "good"
        PROVE  \E j \in DOMAIN handled : handled[j] = k
    <3>1. handled[i] \in 1 .. D
      BY <2>1, <2>2 DEF HandledUpTo
    <3>2. k \in 1 .. D
      BY <2>1, <3>1
    <3> QED BY <2>1, <2>2, <2>3, <3>2 DEF HandledUpTo
  <2> QED BY <2>1, <2>2, <2>3 DEF HandledUpTo, HandledInOrder
<1>2. OrderInv /\ ClientInv => MessagesHandledAsSent
  <2>1. OrderInv => DOMAIN handled = 1 .. Len(handled)
    BY DEF OrderInv, StreamInv, StreamTypeOK
  <2>2. OrderInv /\ ClientInv => NothingHandledAfterBad
    BY <2>1 DEF ClientInv, NothingHandledAfterBad
  <2>3. OrderInv => BadOnlyIfSent
    BY DEF OrderInv
  <2> QED BY <1>1, <2>2, <2>3 DEF MessagesHandledAsSent
<1>3. StreamInit => ClientInv
  BY DEF StreamInit, ClientInv, Done
<1> QED BY <1>2, <1>3, ClientStep, OrderInvariant, PTL DEF StreamSpec
=============================================================================
