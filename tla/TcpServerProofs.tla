-------------------------- MODULE TcpServerProofs --------------------------
(***************************************************************************)
(* Proofs about TcpServer for every number of connections, of broadcasts   *)
(* and of calls of Listen: type correctness, that the accept loop is one   *)
(* loop, that connections are served, and that broadcasts reach them.      *)
(***************************************************************************)
EXTENDS TcpServer, SequenceTheorems, FiniteSetTheorems, TLAPS

(***************************************************************************)
(* The invariant, in the parts the properties need.                        *)
(***************************************************************************)

Handlers == [op : {"accept", "read", "write", "wrote"}, c : 0 .. MaxConns,
             ec : {"ok", "error", "aborted"}]
Queue == Seq(Handlers)

(* Accepts under way are called for by Listen, one each, and while Listen  *)
(* has not overlapped the last loop there is one at most.  Only an         *)
(* acceptor that listens has accepts that wait.                            *)
LoopInv ==
    /\ acceptor # "listening" => accepting = 0
    /\ AcceptsUnderWay <= listens
    /\ ~overlapped => AcceptsUnderWay <= 1
    /\ OneAcceptUnderWay

(* Nothing has started late unless the acceptor is closed and the handler  *)
(* that was past its check is through.                                     *)
LateInv ==
    /\ late <= 1
    /\ (acceptor # "closed" \/ accepted # "none") => late = 0

AcceptInv == LoopInv /\ LateInv

(* Handler h belongs to one of the first m connections; the socket of a    *)
(* failed write is not open (sk), its bytes are still there (un).          *)
Fits(h, m, sk, un) ==
    /\ h.op # "accept" => h.c \in 1 .. m
    /\ h.op = "wrote" => sk[h.c] # "open" /\ h.c \in un

AllFit(q, m, sk, un) == \A i \in DOMAIN q : Fits(q[i], m, sk, un)

HasRead(q, c) == \E i \in DOMAIN q : q[i].op = "read" /\ q[i].c = c
ReadsApart(q) ==
    \A i, j \in DOMAIN q : q[i].op = "read" /\ q[j].op = "read" /\ q[i].c = q[j].c => i = j

(* A read of c waits, or its handler is ready, or its callback runs: never *)
(* two of these; none on a socket that TcpConn::Stop has closed; one on a  *)
(* socket that is open while the io thread runs.                           *)
OneRead(q, rd, rcv, sk, run, c) ==
    /\ c \in rd => ~HasRead(q, c) /\ rcv # c
    /\ rcv = c => ~HasRead(q, c)
    /\ sk[c] = "closed" => c \notin rd /\ rcv # c /\ ~HasRead(q, c)
    /\ (run = "running" /\ sk[c] \in {"open", "reset"}) => c \in rd \/ rcv = c \/ HasRead(q, c)

ConnInv ==
    /\ connections = 1 .. made
    /\ reading \subseteq connections /\ receiver \in 0 .. made
    /\ \A c \in Conns : c > made => sock[c] = "bad"
    /\ \A k \in Casters : todo[k] \subseteq connections
    /\ receiver = 0 => todo["io"] = {}
    /\ AllFit(ready, made, sock, unwritten)
    /\ ReadsApart(ready)
    /\ \A c \in Conns : OneRead(ready, reading, receiver, sock, io, c)
    /\ OnlyTheseAreFatal

(* The number of broadcasts is bounded with the reads that will make one;  *)
(* a connection joined in the past, and before the broadcast it is waiting *)
(* to be visited by; one not yet started has been given nothing.           *)
CastInv ==
    /\ casts["io"] + DataReady <= MaxCasts
    /\ \A c \in connections, k \in Casters : joined[c][k] <= casts[k]
    /\ ~raced => /\ \A k \in Casters : \A c \in todo[k] : joined[c][k] < casts[k]
                 /\ \A c \in Conns \ connections : got[c] = Nothing[c]
                 /\ BroadcastReachesEach

ServerInv == TypeOK /\ AcceptInv /\ ConnInv /\ CastInv

(***************************************************************************)
(* What the ends of a queue do to it.                                      *)
(***************************************************************************)

(* The handlers of queue q that are in F, by their place.                  *)
Places(q, F) == {i \in DOMAIN q : q[i] \in F}
Count(q, F) == Cardinality(Places(q, F))

(* There are finitely many.                                                *)
LEMMA PlacesFinite ==
    ASSUME NEW q \in Queue, NEW F
    PROVE  /\ Places(q, F) \subseteq 1 .. Len(q) /\ IsFiniteSet(Places(q, F))
           /\ Count(q, F) \in Nat
<1>1. Len(q) \in Nat /\ DOMAIN q = 1 .. Len(q)
  OBVIOUS
<1>2. IsFiniteSet(1 .. Len(q))
  BY <1>1, FS_Interval
<1>3. Places(q, F) \subseteq 1 .. Len(q)
  BY <1>1 DEF Places
<1>4. IsFiniteSet(Places(q, F))
  BY <1>2, <1>3, FS_Subset
<1> QED BY <1>3, <1>4, FS_CardinalityType DEF Count

(* A handler that becomes ready counts if it is in F.                      *)
LEMMA CountAppend ==
    ASSUME NEW q \in Queue, NEW h \in Handlers, NEW F
    PROVE  Count(Append(q, h), F) = Count(q, F) + (IF h \in F THEN 1 ELSE 0)
<1> DEFINE n == Len(q)
           r == Append(q, h)
<1>1. /\ n \in Nat /\ DOMAIN q = 1 .. n /\ DOMAIN r = 1 .. n + 1
      /\ r[n + 1] = h /\ \A i \in 1 .. n : r[i] = q[i]
  OBVIOUS
<1>a. IsFiniteSet(Places(q, F)) /\ Count(q, F) \in Nat
  BY PlacesFinite
<1> HIDE DEF n, r
<1>b. n + 1 \notin Places(q, F)
  BY <1>1 DEF Places
<1>2. n + 1 \notin Places(q, F) /\ IsFiniteSet(Places(q, F)) /\ Count(q, F) \in Nat
  BY <1>a, <1>b
<1>3. CASE h \in F
  <2>1. Places(r, F) = Places(q, F) \cup {n + 1}
    BY <1>1, <1>3 DEF Places
  <2>2. Cardinality(Places(q, F) \cup {n + 1}) = Cardinality(Places(q, F)) + 1
    BY <1>2, FS_AddElement
  <2> QED BY <1>3, <2>1, <2>2 DEF Count, r
<1>4. CASE h \notin F
  <2>1. Places(r, F) = Places(q, F)
    BY <1>1, <1>4 DEF Places
  <2> QED BY <1>2, <1>4, <2>1 DEF Count, r
<1> QED BY <1>3, <1>4

(* The handler that runs leaves the count if it is in F.                   *)
LEMMA CountTail ==
    ASSUME NEW q \in Queue, q # <<>>, NEW F
    PROVE  /\ Tail(q) \in Queue /\ Head(q) \in Handlers
           /\ Count(q, F) = Count(Tail(q), F) + (IF Head(q) \in F THEN 1 ELSE 0)
<1> DEFINE n == Len(q)
           r == Tail(q)
           S == Places(r, F)
           T == Places(q, F) \ {1}
           f == [i \in S |-> i + 1]
<1>1. /\ n \in Nat \ {0} /\ DOMAIN q = 1 .. n /\ DOMAIN r = 1 .. n - 1
      /\ q[1] = Head(q) /\ \A i \in 1 .. n - 1 : r[i] = q[i + 1]
      /\ r \in Queue /\ Head(q) \in Handlers
  BY HeadTailProperties DEF Queue
<1>2. IsFiniteSet(S) /\ IsFiniteSet(Places(q, F)) /\ Count(q, F) \in Nat /\ Count(r, F) \in Nat
  BY <1>1, PlacesFinite
<1>3. IsFiniteSet(T)
  BY <1>2, FS_RemoveElement
<1> HIDE DEF n, r
<1>4. \A i \in S : i \in Nat /\ i + 1 \in T
  BY <1>1 DEF Places
<1>5. \A j \in T : j - 1 \in S /\ (j - 1) + 1 = j
  BY <1>1 DEF Places
<1> HIDE DEF S, T
<1>6. f \in Injection(S, T)
  <2>1. f \in [S -> T]
    BY <1>4
  <2>2. \A a, b \in S : f[a] = f[b] => a = b
    BY <1>4
  <2> QED BY <2>1, <2>2 DEF Injection, IsInjective
<1>7. f \in Surjection(S, T)
  <2>1. f \in [S -> T]
    BY <1>4
  <2>2. \A t \in T : \E s \in S : f[s] = t
    BY <1>5
  <2> QED BY <2>1, <2>2 DEF Surjection
<1>8. Cardinality(S) = Cardinality(T)
  BY <1>3, <1>6, <1>7, FS_Injection
<1>9. 1 \in Places(q, F) <=> Head(q) \in F
  BY <1>1 DEF Places
<1>10. Cardinality(T) = IF 1 \in Places(q, F) THEN Count(q, F) - 1 ELSE Count(q, F)
  BY <1>2, FS_RemoveElement DEF T, Count
<1> QED BY <1>1, <1>2, <1>8, <1>9, <1>10 DEF S, Count, r

(* A batch of handlers in F counts in full.                                *)
LEMMA CountConcat ==
    ASSUME NEW q \in Queue, NEW s \in Queue, NEW F, \A i \in 1 .. Len(s) : s[i] \in F
    PROVE  Count(q \o s, F) = Count(q, F) + Len(s)
<1> DEFINE n == Len(q)
           m == Len(s)
           r == q \o s
           N == (n + 1) .. (n + m)
<1>1. /\ n \in Nat /\ m \in Nat /\ DOMAIN q = 1 .. n /\ DOMAIN r = 1 .. n + m
      /\ \A i \in 1 .. n : r[i] = q[i]
      /\ \A j \in 1 .. m : r[n + j] = s[j]
  OBVIOUS
<1>2. IsFiniteSet(Places(q, F)) /\ Count(q, F) \in Nat /\ Places(q, F) \subseteq 1 .. n
  BY PlacesFinite
<1> HIDE DEF n, m, r
<1>3. IsFiniteSet(N) /\ Cardinality(N) = m
  <2>1. n + 1 \in Int /\ n + m \in Int
    BY <1>1
  <2>2. IsFiniteSet(N) /\ Cardinality(N) = IF n + 1 > n + m THEN 0 ELSE (n + m) - (n + 1) + 1
    BY <2>1, FS_Interval
  <2> QED BY <1>1, <2>2
<1>4. \A i \in N : i - n \in 1 .. m /\ n + (i - n) = i
  BY <1>1
<1>5. \A i \in N : r[i] \in F
  BY <1>1, <1>4 DEF m
<1>6. Places(r, F) = Places(q, F) \cup N
  BY <1>1, <1>5 DEF Places
<1>7. Places(q, F) \cap N = {}
  BY <1>1, <1>2
<1> HIDE DEF N
<1>8. Cardinality(Places(q, F) \cup N) = Cardinality(Places(q, F)) + Cardinality(N) - Cardinality({})
  BY <1>2, <1>3, <1>7, FS_Union
<1>9. Cardinality({}) = 0
  BY FS_EmptySet
<1> QED BY <1>1, <1>2, <1>3, <1>6, <1>8, <1>9 DEF Count, r, m

(* A batch of others does not count.                                       *)
LEMMA CountConcatNone ==
    ASSUME NEW q \in Queue, NEW s \in Queue, NEW F, \A i \in 1 .. Len(s) : s[i] \notin F
    PROVE  Count(q \o s, F) = Count(q, F)
<1> DEFINE n == Len(q)
           r == q \o s
<1>1. /\ n \in Nat /\ Len(s) \in Nat /\ DOMAIN q = 1 .. n /\ DOMAIN r = 1 .. n + Len(s)
      /\ \A i \in 1 .. n : r[i] = q[i]
      /\ \A i \in 1 .. Len(s) : r[n + i] = s[i]
  OBVIOUS
<1> HIDE DEF n, r
<1>2. \A i \in 1 .. n + Len(s) : i \in 1 .. n \/ (i - n \in 1 .. Len(s) /\ n + (i - n) = i)
  BY <1>1
<1>3. \A i \in 1 .. n + Len(s) : i \in 1 .. n \/ r[i] \notin F
  BY <1>1, <1>2
<1>4. \A i \in 1 .. n : i \in 1 .. n + Len(s)
  BY <1>1
<1>5. Places(r, F) = Places(q, F)
  BY <1>1, <1>3, <1>4 DEF Places
<1> QED BY <1>5 DEF Count, r

(* A handler that becomes ready.                                           *)
LEMMA AppendKeeps ==
    ASSUME NEW q \in Queue, NEW h \in Handlers
    PROVE  /\ Append(q, h) \in Queue
           /\ \A c : HasRead(Append(q, h), c) <=> HasRead(q, c) \/ (h.op = "read" /\ h.c = c)
           /\ (ReadsApart(q) /\ (h.op = "read" => ~HasRead(q, h.c))) => ReadsApart(Append(q, h))
           /\ \A m, sk, un : AllFit(q, m, sk, un) /\ Fits(h, m, sk, un) => AllFit(Append(q, h), m, sk, un)
<1> DEFINE n == Len(q)
           r == Append(q, h)
<1>1. /\ n \in Nat /\ DOMAIN q = 1 .. n /\ DOMAIN r = 1 .. n + 1 /\ r \in Queue
      /\ r[n + 1] = h /\ \A i \in 1 .. n : r[i] = q[i]
  BY DEF Queue
<1> HIDE DEF n, r
<1>2. ASSUME NEW c
      PROVE  HasRead(r, c) <=> HasRead(q, c) \/ (h.op = "read" /\ h.c = c)
  <2>1. ASSUME HasRead(r, c) PROVE HasRead(q, c) \/ (h.op = "read" /\ h.c = c)
    BY <1>1, <2>1 DEF HasRead
  <2>2. ASSUME HasRead(q, c) PROVE HasRead(r, c)
    <3>1. PICK i \in 1 .. n : q[i].op = "read" /\ q[i].c = c
      BY <1>1, <2>2 DEF HasRead
    <3>2. i \in DOMAIN r /\ r[i] = q[i]
      BY <1>1
    <3> QED BY <3>1, <3>2 DEF HasRead
  <2>3. ASSUME h.op = "read", h.c = c PROVE HasRead(r, c)
    <3>1. n + 1 \in DOMAIN r
      BY <1>1
    <3> QED BY <1>1, <2>3, <3>1 DEF HasRead
  <2> QED BY <2>1, <2>2, <2>3
<1>3. ASSUME ReadsApart(q), h.op = "read" => ~HasRead(q, h.c)
      PROVE  ReadsApart(r)
  <2> SUFFICES ASSUME NEW i \in 1 .. n + 1, NEW j \in 1 .. n + 1, r[i].op = "read", r[j].op = "read",
                      r[i].c = r[j].c
               PROVE  i = j
    BY <1>1 DEF ReadsApart
  <2>1. CASE i \in 1 .. n /\ j \in 1 .. n
    BY <1>1, <1>3, <2>1 DEF ReadsApart
  <2>2. CASE i = n + 1 /\ j \in 1 .. n
    BY <1>1, <1>3, <2>2 DEF HasRead
  <2>3. CASE j = n + 1 /\ i \in 1 .. n
    BY <1>1, <1>3, <2>3 DEF HasRead
  <2>4. CASE i = n + 1 /\ j = n + 1
    BY <2>4
  <2> QED BY <1>1, <2>1, <2>2, <2>3, <2>4
<1>4. ASSUME NEW m, NEW sk, NEW un, AllFit(q, m, sk, un), Fits(h, m, sk, un)
      PROVE  AllFit(r, m, sk, un)
  BY <1>1, <1>4 DEF AllFit
<1> QED BY <1>1, <1>2, <1>3, <1>4 DEF r

(* The handler at the head runs.                                           *)
LEMMA TailKeeps ==
    ASSUME NEW q \in Queue, q # <<>>
    PROVE  /\ Tail(q) \in Queue /\ Head(q) \in Handlers
           /\ \A c : HasRead(Tail(q), c) => HasRead(q, c)
           /\ \A c : HasRead(q, c) => HasRead(Tail(q), c) \/ (Head(q).op = "read" /\ Head(q).c = c)
           /\ Head(q).op = "read" => HasRead(q, Head(q).c)
           /\ ReadsApart(q) =>
                ReadsApart(Tail(q)) /\ (Head(q).op = "read" => ~HasRead(Tail(q), Head(q).c))
           /\ \A m, sk, un : AllFit(q, m, sk, un) => AllFit(Tail(q), m, sk, un) /\ Fits(Head(q), m, sk, un)
<1> DEFINE n == Len(q)
           r == Tail(q)
           h == Head(q)
<1>1. /\ n \in Nat \ {0} /\ DOMAIN q = 1 .. n /\ DOMAIN r = 1 .. n - 1
      /\ q[1] = h /\ \A i \in 1 .. n - 1 : r[i] = q[i + 1]
  BY HeadTailProperties DEF Queue
<1>a. r \in Queue /\ h \in Handlers
  BY HeadTailProperties DEF Queue
<1> HIDE DEF n, r, h
<1>b. \A i \in 1 .. n - 1 : i + 1 \in 1 .. n /\ i \in Nat
  BY <1>1
<1>c. \A i \in 1 .. n : i # 1 => i - 1 \in 1 .. n - 1 /\ (i - 1) + 1 = i
  BY <1>1
<1>d. 1 \in 1 .. n
  BY <1>1
<1>2. ASSUME NEW c, HasRead(r, c) PROVE HasRead(q, c)
  BY <1>1, <1>2, <1>b DEF HasRead
<1>3. ASSUME NEW c, HasRead(q, c) PROVE HasRead(r, c) \/ (h.op = "read" /\ h.c = c)
  <2>1. PICK i \in 1 .. n : q[i].op = "read" /\ q[i].c = c
    BY <1>1, <1>3 DEF HasRead
  <2>2. CASE i = 1
    BY <1>1, <2>1, <2>2
  <2>3. CASE i # 1
    <3>1. i - 1 \in DOMAIN r /\ r[i - 1] = q[i]
      BY <1>1, <1>c, <2>3
    <3> QED BY <2>1, <3>1 DEF HasRead
  <2> QED BY <2>2, <2>3
<1>4. h.op = "read" => HasRead(q, h.c)
  BY <1>1, <1>d DEF HasRead
<1>5. ASSUME ReadsApart(q)
      PROVE  ReadsApart(r) /\ (h.op = "read" => ~HasRead(r, h.c))
  <2>1. ASSUME NEW i \in 1 .. n - 1, NEW j \in 1 .. n - 1, r[i].op = "read", r[j].op = "read",
               r[i].c = r[j].c
        PROVE  i = j
    <3>1. i + 1 = j + 1
      BY <1>1, <1>5, <1>b, <2>1 DEF ReadsApart
    <3> QED BY <1>b, <3>1
  <2>2. ASSUME NEW i \in 1 .. n - 1, h.op = "read", r[i].op = "read", r[i].c = h.c
        PROVE  FALSE
    <3>1. i + 1 = 1
      BY <1>1, <1>5, <1>b, <1>d, <2>2 DEF ReadsApart
    <3> QED BY <1>b, <3>1
  <2> QED BY <1>1, <2>1, <2>2 DEF ReadsApart, HasRead
<1>6. ASSUME NEW m, NEW sk, NEW un, AllFit(q, m, sk, un)
      PROVE  AllFit(r, m, sk, un) /\ Fits(h, m, sk, un)
  BY <1>1, <1>6, <1>b, <1>d DEF AllFit
<1> QED BY <1>a, <1>2, <1>3, <1>4, <1>5, <1>6 DEF r, h

(* A batch of accept handlers.                                             *)
LEMMA ConcatKeeps ==
    ASSUME NEW q \in Queue, NEW s \in Queue, \A i \in 1 .. Len(s) : s[i].op = "accept"
    PROVE  /\ q \o s \in Queue
           /\ \A c : HasRead(q \o s, c) <=> HasRead(q, c)
           /\ ReadsApart(q) => ReadsApart(q \o s)
           /\ \A m, sk, un : AllFit(q, m, sk, un) => AllFit(q \o s, m, sk, un)
<1> DEFINE n == Len(q)
           r == q \o s
<1>1. /\ n \in Nat /\ Len(s) \in Nat /\ DOMAIN q = 1 .. n /\ DOMAIN r = 1 .. n + Len(s) /\ r \in Queue
      /\ \A i \in 1 .. n : r[i] = q[i]
      /\ \A i \in 1 .. Len(s) : r[n + i] = s[i]
  BY DEF Queue
<1> HIDE DEF n, r
<1>2. \A i \in 1 .. n + Len(s) : i \in 1 .. n \/ (i - n \in 1 .. Len(s) /\ n + (i - n) = i)
  BY <1>1
<1>3. \A i \in 1 .. n + Len(s) : (i \in 1 .. n /\ r[i] = q[i]) \/ r[i].op = "accept"
  <2> SUFFICES ASSUME NEW i \in 1 .. n + Len(s), i \notin 1 .. n PROVE r[i].op = "accept"
    BY <1>1
  <2>1. i - n \in 1 .. Len(s) /\ n + (i - n) = i
    BY <1>2
  <2>2. r[n + (i - n)] = s[i - n]
    BY <1>1, <2>1
  <2> QED BY <2>1, <2>2
<1>4. \A i \in 1 .. n : i \in 1 .. n + Len(s)
  BY <1>1
<1>5. ASSUME NEW c PROVE HasRead(r, c) <=> HasRead(q, c)
  <2>1. ASSUME HasRead(r, c) PROVE HasRead(q, c)
    BY <1>1, <1>3, <2>1 DEF HasRead
  <2>2. ASSUME HasRead(q, c) PROVE HasRead(r, c)
    BY <1>1, <1>4, <2>2 DEF HasRead
  <2> QED BY <2>1, <2>2
<1>6. ReadsApart(q) => ReadsApart(r)
  BY <1>1, <1>3 DEF ReadsApart
<1>7. ASSUME NEW m, NEW sk, NEW un, AllFit(q, m, sk, un) PROVE AllFit(r, m, sk, un)
  BY <1>1, <1>3, <1>7 DEF AllFit, Fits
<1> QED BY <1>1, <1>5, <1>6, <1>7 DEF r

(* Handlers still fit when connections are added, and no failed write's    *)
(* socket opens or buffer empties.                                         *)
LEMMA FitsKept ==
    ASSUME NEW q, NEW m \in Nat, NEW m2 \in Nat, m <= m2, NEW sk, NEW un, NEW sk2, NEW un2,
           \A c \in 1 .. m : sk[c] # "open" /\ c \in un => sk2[c] # "open" /\ c \in un2,
           AllFit(q, m, sk, un)
    PROVE  AllFit(q, m2, sk2, un2)
<1>1. \A c \in 1 .. m : c \in 1 .. m2
  OBVIOUS
<1> QED BY <1>1 DEF AllFit, Fits

(* The two counts of the model are counts of these.                        *)
AcceptHandlers == {h \in Handlers : h.op = "accept"}
DataHandlers == {h \in Handlers : IsData(h)}

Yes(b) == IF b THEN 1 ELSE 0

(* They are such counts, and numbers.                                      *)
LEMMA CountsAre ==
    ASSUME ready \in Queue
    PROVE  /\ AcceptsReady = Count(ready, AcceptHandlers) /\ DataReady = Count(ready, DataHandlers)
           /\ AcceptsReady \in Nat /\ DataReady \in Nat
<1>1. \A i \in DOMAIN ready : ready[i] \in Handlers
  BY DEF Queue
<1>2. {i \in DOMAIN ready : ready[i].op = "accept"} = Places(ready, AcceptHandlers)
  BY <1>1 DEF Places, AcceptHandlers
<1>3. {i \in DOMAIN ready : IsData(ready[i])} = Places(ready, DataHandlers)
  BY <1>1 DEF Places, DataHandlers
<1> QED BY <1>2, <1>3, PlacesFinite DEF AcceptsReady, DataReady, Count

(* The same of the next state.                                             *)
LEMMA CountsAreNext ==
    ASSUME ready' \in Queue
    PROVE  /\ AcceptsReady' = Count(ready', AcceptHandlers) /\ DataReady' = Count(ready', DataHandlers)
           /\ AcceptsReady' \in Nat /\ DataReady' \in Nat
<1>1. \A i \in DOMAIN ready' : ready'[i] \in Handlers
  BY DEF Queue
<1>2. {i \in DOMAIN ready' : ready'[i].op = "accept"} = Places(ready', AcceptHandlers)
  BY <1>1 DEF Places, AcceptHandlers
<1>3. {i \in DOMAIN ready' : IsData(ready'[i])} = Places(ready', DataHandlers)
  BY <1>1 DEF Places, DataHandlers
<1> QED BY <1>2, <1>3, PlacesFinite DEF AcceptsReady, DataReady, Count

(* An operation completes: its handler becomes ready.                      *)
LEMMA ReadyAppend ==
    ASSUME ready \in Queue, NEW h \in Handlers, ready' = Append(ready, h)
    PROVE  /\ AcceptsReady' = AcceptsReady + Yes(h.op = "accept")
           /\ DataReady' = DataReady + Yes(IsData(h))
           /\ ready' \in Queue /\ AcceptsReady \in Nat /\ DataReady \in Nat
<1>1. ready' \in Queue
  BY AppendKeeps
<1>2. h \in AcceptHandlers <=> h.op = "accept"
  BY DEF AcceptHandlers
<1>3. h \in DataHandlers <=> IsData(h)
  BY DEF DataHandlers
<1>4. Count(ready', AcceptHandlers) = Count(ready, AcceptHandlers) + Yes(h \in AcceptHandlers)
  BY CountAppend DEF Yes
<1>5. Count(ready', DataHandlers) = Count(ready, DataHandlers) + Yes(h \in DataHandlers)
  BY CountAppend DEF Yes
<1> QED BY <1>1, <1>2, <1>3, <1>4, <1>5, CountsAre, CountsAreNext DEF Yes

(* The io thread takes a handler.                                          *)
LEMMA ReadyTail ==
    ASSUME ready \in Queue, ready # <<>>, ready' = Tail(ready)
    PROVE  /\ AcceptsReady' = AcceptsReady - Yes(Head(ready).op = "accept")
           /\ DataReady' = DataReady - Yes(IsData(Head(ready)))
           /\ ready' \in Queue /\ AcceptsReady' \in Nat /\ DataReady' \in Nat
<1>1. ready' \in Queue /\ Head(ready) \in Handlers
  BY TailKeeps
<1>2. Head(ready) \in AcceptHandlers <=> Head(ready).op = "accept"
  BY <1>1 DEF AcceptHandlers
<1>3. Head(ready) \in DataHandlers <=> IsData(Head(ready))
  BY <1>1 DEF DataHandlers
<1>4. Count(ready, AcceptHandlers) = Count(ready', AcceptHandlers) + Yes(Head(ready) \in AcceptHandlers)
  BY CountTail DEF Yes
<1>5. Count(ready, DataHandlers) = Count(ready', DataHandlers) + Yes(Head(ready) \in DataHandlers)
  BY CountTail DEF Yes
<1> QED BY <1>1, <1>2, <1>3, <1>4, <1>5, CountsAre, CountsAreNext DEF Yes

(* It takes one and starts the next operation of the same kind.            *)
LEMMA ReadyCycle ==
    ASSUME ready \in Queue, ready # <<>>, NEW h \in Handlers, h.op # "accept", ~IsData(h),
           Head(ready).op # "accept", ~IsData(Head(ready)), ready' = Append(Tail(ready), h)
    PROVE  AcceptsReady' = AcceptsReady /\ DataReady' = DataReady /\ ready' \in Queue
<1>1. Tail(ready) \in Queue /\ Head(ready) \in Handlers
  BY TailKeeps
<1>2. ready' \in Queue
  BY <1>1, AppendKeeps
<1>3. /\ h \notin AcceptHandlers /\ Head(ready) \notin AcceptHandlers
      /\ h \notin DataHandlers /\ Head(ready) \notin DataHandlers
  BY DEF AcceptHandlers, DataHandlers
<1>4. /\ Count(ready, AcceptHandlers) = Count(Tail(ready), AcceptHandlers) + 0
      /\ Count(ready, DataHandlers) = Count(Tail(ready), DataHandlers) + 0
  BY <1>3, CountTail
<1>5. /\ Count(ready', AcceptHandlers) = Count(Tail(ready), AcceptHandlers) + 0
      /\ Count(ready', DataHandlers) = Count(Tail(ready), DataHandlers) + 0
  BY <1>1, <1>3, CountAppend
<1> QED BY <1>2, <1>4, <1>5, CountsAre, CountsAreNext

(* Accepts are aborted, n of them.                                         *)
LEMMA ReadyAborts ==
    ASSUME ready \in Queue, NEW n \in Nat, NEW h \in Handlers, h.op = "accept",
           ready' = ready \o [i \in 1 .. n |-> h]
    PROVE  /\ AcceptsReady' = AcceptsReady + n /\ DataReady' = DataReady /\ ready' \in Queue
           /\ \A c : HasRead(ready', c) <=> HasRead(ready, c)
           /\ ReadsApart(ready) => ReadsApart(ready')
           /\ \A m, sk, un : AllFit(ready, m, sk, un) => AllFit(ready', m, sk, un)
<1> DEFINE s == [i \in 1 .. n |-> h]
<1>1. s \in Queue /\ Len(s) = n /\ \A i \in 1 .. Len(s) : s[i] = h
  BY DEF Queue
<1> HIDE DEF s
<1>2. ready' = ready \o s
  BY DEF s
<1>3. h \in AcceptHandlers /\ h \notin DataHandlers
  BY DEF AcceptHandlers, DataHandlers, IsData
<1>a. \A i \in 1 .. Len(s) : s[i].op = "accept"
  BY <1>1
<1>b. \A i \in 1 .. Len(s) : s[i] \in AcceptHandlers
  BY <1>1, <1>3
<1>c. \A i \in 1 .. Len(s) : s[i] \notin DataHandlers
  BY <1>1, <1>3
<1>4. /\ ready' \in Queue
      /\ \A c : HasRead(ready', c) <=> HasRead(ready, c)
      /\ ReadsApart(ready) => ReadsApart(ready')
      /\ \A m, sk, un : AllFit(ready, m, sk, un) => AllFit(ready', m, sk, un)
  <2>1. /\ ready \o s \in Queue
        /\ \A c : HasRead(ready \o s, c) <=> HasRead(ready, c)
        /\ ReadsApart(ready) => ReadsApart(ready \o s)
        /\ \A m, sk, un : AllFit(ready, m, sk, un) => AllFit(ready \o s, m, sk, un)
    BY <1>1, <1>a, ConcatKeeps, Zenon
  <2> QED BY <1>2, <2>1
<1>5. Count(ready', AcceptHandlers) = Count(ready, AcceptHandlers) + n
  BY <1>1, <1>2, <1>b, CountConcat
<1>6. Count(ready', DataHandlers) = Count(ready, DataHandlers)
  <2>1. Count(ready \o s, DataHandlers) = Count(ready, DataHandlers)
    BY <1>1, <1>c, CountConcatNone, Zenon
  <2> QED BY <1>2, <2>1
<1> QED BY <1>4, <1>5, <1>6, CountsAre, CountsAreNext

(* A new connection: the handler of its first read if the socket is bad,   *)
(* then that of the next accept if the acceptor does not listen.           *)
LEMMA ReadyStart ==
    ASSUME ready \in Queue, NEW h \in Handlers, NEW g \in Handlers, NEW bad, NEW again,
           bad \in BOOLEAN, again \in BOOLEAN,
           h.op = "read", ~IsData(h), g.op = "accept", ~IsData(g),
           ready' = ready \o (IF bad THEN <<h>> ELSE <<>>) \o (IF again THEN <<g>> ELSE <<>>)
    PROVE  /\ ready' \in Queue
           /\ AcceptsReady' = AcceptsReady + Yes(again) /\ DataReady' = DataReady /\ AcceptsReady \in Nat
           /\ \A c : HasRead(ready', c) <=> HasRead(ready, c) \/ (bad /\ h.c = c)
           /\ (ReadsApart(ready) /\ ~HasRead(ready, h.c)) => ReadsApart(ready')
           /\ \A m, sk, un : AllFit(ready, m, sk, un) /\ Fits(h, m, sk, un) => AllFit(ready', m, sk, un)
<1> DEFINE q == IF bad THEN Append(ready, h) ELSE ready
<1>1. /\ Append(ready, h) \in Queue /\ ready \o <<h>> = Append(ready, h) /\ ready \o <<>> = ready
  BY AppendKeeps, AppendIsConcat, ConcatEmptySeq DEF Queue
<1>2. q \in Queue /\ ready \o (IF bad THEN <<h>> ELSE <<>>) = q
  BY <1>1
<1> HIDE DEF q
<1>3. q \o <<g>> = Append(q, g) /\ q \o <<>> = q /\ Append(q, g) \in Queue
  BY <1>2, AppendKeeps, AppendIsConcat, ConcatEmptySeq DEF Queue
<1>4. ready' = IF again THEN Append(q, g) ELSE q
  BY <1>2, <1>3
<1>5. ready' \in Queue
  BY <1>2, <1>3, <1>4
<1>6. /\ h \notin AcceptHandlers /\ h \notin DataHandlers
      /\ g \in AcceptHandlers /\ g \notin DataHandlers
  BY DEF AcceptHandlers, DataHandlers
<1>a. /\ Count(ready, AcceptHandlers) \in Nat /\ Count(ready, DataHandlers) \in Nat
      /\ Count(q, AcceptHandlers) \in Nat /\ Count(q, DataHandlers) \in Nat
  BY <1>2, PlacesFinite
<1>7. Count(q, AcceptHandlers) = Count(ready, AcceptHandlers) /\ Count(q, DataHandlers) = Count(ready, DataHandlers)
  <2>1. CASE bad
    <3>1. /\ Count(Append(ready, h), AcceptHandlers) = Count(ready, AcceptHandlers) + 0
          /\ Count(Append(ready, h), DataHandlers) = Count(ready, DataHandlers) + 0
      BY <1>6, CountAppend
    <3> QED BY <1>a, <2>1, <3>1 DEF q
  <2>2. CASE ~bad
    BY <2>2 DEF q
  <2> QED BY <2>1, <2>2
<1>8. /\ Count(Append(q, g), AcceptHandlers) = Count(q, AcceptHandlers) + 1
      /\ Count(Append(q, g), DataHandlers) = Count(q, DataHandlers) + 0
  BY <1>2, <1>6, CountAppend
<1>9. AcceptsReady' = AcceptsReady + Yes(again) /\ DataReady' = DataReady /\ AcceptsReady \in Nat
  <2>1. /\ AcceptsReady = Count(ready, AcceptHandlers) /\ DataReady = Count(ready, DataHandlers)
        /\ AcceptsReady' = Count(ready', AcceptHandlers) /\ DataReady' = Count(ready', DataHandlers)
    BY <1>5, CountsAre, CountsAreNext
  <2>2. CASE again
    BY <1>4, <1>a, <1>7, <1>8, <2>1, <2>2 DEF Yes
  <2>3. CASE ~again
    BY <1>4, <1>a, <1>7, <2>1, <2>3 DEF Yes
  <2> QED BY <2>2, <2>3
<1>10. ASSUME NEW c PROVE HasRead(ready', c) <=> HasRead(ready, c) \/ (bad /\ h.c = c)
  <2>1. HasRead(q, c) <=> HasRead(ready, c) \/ (bad /\ h.c = c)
    BY AppendKeeps DEF q
  <2>2. HasRead(Append(q, g), c) <=> HasRead(q, c)
    BY <1>2, AppendKeeps
  <2> QED BY <1>4, <2>1, <2>2
<1>11. ASSUME ReadsApart(ready), ~HasRead(ready, h.c) PROVE ReadsApart(ready')
  <2>1. ReadsApart(q)
    BY <1>11, AppendKeeps DEF q
  <2>2. ReadsApart(Append(q, g))
    BY <1>2, <2>1, AppendKeeps
  <2> QED BY <1>4, <2>1, <2>2
<1>12. ASSUME NEW m, NEW sk, NEW un, AllFit(ready, m, sk, un), Fits(h, m, sk, un)
       PROVE  AllFit(ready', m, sk, un)
  <2>1. AllFit(q, m, sk, un)
    BY <1>12, AppendKeeps DEF q
  <2>2. Fits(g, m, sk, un)
    BY DEF Fits
  <2>3. AllFit(Append(q, g), m, sk, un)
    BY <1>2, <2>1, <2>2, AppendKeeps
  <2> QED BY <1>4, <2>1, <2>3
<1> QED BY <1>5, <1>9, <1>10, <1>11, <1>12

(***************************************************************************)
(* What the invariant says of the numbers, and what keeps its parts.       *)
(***************************************************************************)

(* Counters are numbers, and the queue is one.                             *)
LEMMA Numbers ==
    ASSUME TypeOK
    PROVE  /\ ready \in Queue /\ AcceptsReady \in Nat /\ DataReady \in Nat
           /\ accepting \in Nat /\ made \in Nat /\ made <= MaxConns /\ listens \in Nat /\ late \in Nat
           /\ MaxConns \in Nat /\ MaxCasts \in Nat /\ MaxListens \in Nat
           /\ \A k \in Casters : casts[k] \in Nat
           /\ \A c \in Conns, k \in Casters : joined[c][k] \in Nat
<1>1. ready \in Queue
  BY DEF TypeOK, Queue, Handlers
<1>2. accepting \in 0 .. MaxListens /\ made \in 0 .. MaxConns /\ listens \in 0 .. MaxListens /\ late \in Nat
  BY DEF TypeOK
<1>3. casts \in [Casters -> 0 .. MaxCasts] /\ joined \in [Conns -> [Casters -> 0 .. MaxCasts]]
  BY DEF TypeOK
<1> QED BY <1>1, <1>2, <1>3, CountsAre, TcpServerAssumption

(* The acceptor and its handlers are as before.                            *)
LEMMA AcceptFrame ==
    ASSUME AcceptInv, UNCHANGED accVars, AcceptsReady' = AcceptsReady, io' = "running" => io = "running"
    PROVE  AcceptInv'
BY DEF AcceptInv, LoopInv, LateInv, OneAcceptUnderWay, AcceptsUnderWay, accVars

(* Connections are as before, and the handlers that concern them.          *)
LEMMA ConnFrame ==
    ASSUME ConnInv, UNCHANGED <<connections, made, sock, reading, unwritten, receiver, todo, io>>,
           AllFit(ready', made, sock, unwritten), ReadsApart(ready'),
           \A c : HasRead(ready', c) <=> HasRead(ready, c)
    PROVE  ConnInv'
<1>1. \A c \in Conns : OneRead(ready', reading, receiver, sock, io, c)
  BY DEF ConnInv, OneRead
<1> QED BY <1>1 DEF ConnInv, OnlyTheseAreFatal

(* Broadcasts are as before.                                               *)
LEMMA CastFrame ==
    ASSUME TypeOK, CastInv, UNCHANGED <<connections, casts, joined, todo, got, raced>>,
           DataReady' \in Nat, DataReady' <= DataReady
    PROVE  CastInv'
<1>1. casts["io"] \in Nat /\ DataReady \in Nat /\ MaxCasts \in Nat
  BY Numbers DEF Casters
<1>2. casts'["io"] + DataReady' <= MaxCasts
  BY <1>1 DEF CastInv
<1>3. BroadcastReachesEach => BroadcastReachesEach'
  BY DEF BroadcastReachesEach
<1> QED BY <1>2, <1>3 DEF CastInv

(* The server is made.                                                     *)
LEMMA ServerInit == Init => ServerInv
<1> SUFFICES ASSUME Init PROVE ServerInv
  OBVIOUS
<1> USE TcpServerAssumption
<1>0. ready = <<>> /\ ready \in Queue /\ DOMAIN ready = {}
  BY DEF Init, Queue
<1>1. TypeOK
  <2>1. /\ sock \in [Conns -> {"open", "reset", "bad", "closed"}]
        /\ todo \in [Casters -> SUBSET Conns] /\ casts \in [Casters -> 0 .. MaxCasts]
        /\ got \in [Conns -> [Casters -> Seq(1 .. MaxCasts)]]
        /\ joined \in [Conns -> [Casters -> 0 .. MaxCasts]]
    BY DEF Init, NoSockets, Nothing, NoneBefore
  <2>2. ready \in Seq([op : {"accept", "read", "write", "wrote"}, c : 0 .. MaxConns,
                       ec : {"ok", "error", "aborted"}])
    BY <1>0 DEF Queue, Handlers
  <2>3. /\ accepting \in 0 .. MaxListens /\ made \in 0 .. MaxConns /\ receiver \in 0 .. MaxConns
        /\ listens \in 0 .. MaxListens /\ late \in Nat
    BY DEF Init
  <2>4. connections \subseteq 1 .. made /\ reading \subseteq Conns /\ unwritten \subseteq Conns
    BY DEF Init
  <2> QED BY <2>1, <2>2, <2>3, <2>4 DEF Init, TypeOK
<1>2. AcceptsReady = 0 /\ DataReady = 0
  BY <1>0, FS_EmptySet DEF AcceptsReady, DataReady
<1>3. AcceptInv
  BY <1>2 DEF Init, AcceptInv, LoopInv, LateInv, OneAcceptUnderWay, AcceptsUnderWay
<1>4. ConnInv
  <2>1. connections = 1 .. made
    BY DEF Init
  <2>2. AllFit(ready, made, sock, unwritten) /\ ReadsApart(ready) /\ \A c : ~HasRead(ready, c)
    BY <1>0 DEF AllFit, ReadsApart, HasRead
  <2>3. \A c \in Conns : OneRead(ready, reading, receiver, sock, io, c)
    BY <2>2 DEF Init, NoSockets, OneRead, Conns
  <2> QED BY <2>1, <2>2, <2>3 DEF Init, NoSockets, ConnInv, OnlyTheseAreFatal, Casters
<1>5. CastInv
  BY <1>2 DEF Init, CastInv, BroadcastReachesEach, Casters
<1> QED BY <1>1, <1>3, <1>4, <1>5 DEF ServerInv

(***************************************************************************)
(* One lemma per action.                                                   *)
(***************************************************************************)

(* A peer connects or accept fails: one accept goes from waiting to ready. *)
LEMMA AcceptReadyKeeps ==
    ASSUME ServerInv, NEW ec \in {"ok", "error"}, AcceptReady(ec)
    PROVE  ServerInv'
<1> DEFINE h == H("accept", 0, ec)
<1>0. TypeOK /\ AcceptInv /\ ConnInv /\ CastInv
  BY DEF ServerInv
<1>1. h \in Handlers /\ h.op = "accept" /\ ~IsData(h)
  BY <1>0, Numbers DEF H, Handlers, IsData
<1> HIDE DEF h
<1>2. /\ ready' = Append(ready, h) /\ accepting > 0 /\ accepting' = accepting - 1
      /\ UNCHANGED <<acceptor, accepted, overlapped, late, listens, connVars, castVars, reading, receiver, raced, io>>
  BY DEF AcceptReady, h
<1>3. AcceptsReady' = AcceptsReady + 1 /\ DataReady' = DataReady + 0 /\ ready' \in Queue
  BY <1>0, <1>1, <1>2, Numbers, ReadyAppend DEF Yes
<1>4. AcceptsUnderWay' = AcceptsUnderWay
  BY <1>0, <1>2, <1>3, Numbers DEF AcceptsUnderWay
<1>5. AcceptInv'
  BY <1>0, <1>2, <1>4, Numbers DEF AcceptInv, LoopInv, LateInv, OneAcceptUnderWay, AcceptReady
<1>6. ConnInv'
  <2>1. Fits(h, made, sock, unwritten)
    BY <1>1 DEF Fits
  <2>2. /\ AllFit(ready', made, sock, unwritten) /\ ReadsApart(ready')
        /\ \A c : HasRead(ready', c) <=> HasRead(ready, c)
    BY <1>0, <1>1, <1>2, <2>1, Numbers, AppendKeeps DEF ConnInv
  <2> QED BY <1>0, <1>2, <2>2, ConnFrame DEF connVars, castVars
<1>7. CastInv'
  <2>1. DataReady' \in Nat /\ DataReady' <= DataReady
    BY <1>0, <1>3, Numbers
  <2> QED BY <1>0, <1>2, <2>1, CastFrame DEF connVars, castVars
<1>8. TypeOK'
  <2>1. accepting' \in 0 .. MaxListens
    BY <1>0, <1>2, Numbers DEF TypeOK
  <2> QED BY <1>0, <1>2, <1>3, <2>1 DEF TypeOK, connVars, castVars, Queue, Handlers
<1> QED BY <1>5, <1>6, <1>7, <1>8 DEF ServerInv

(* A read completes.                                                       *)
LEMMA ReadReadyKeeps ==
    ASSUME ServerInv, NEW c \in Conns, NEW ec \in {"ok", "error"}, ReadReady(c, ec)
    PROVE  ServerInv'
<1> DEFINE h == H("read", c, ec)
<1>0. TypeOK /\ AcceptInv /\ ConnInv /\ CastInv
  BY DEF ServerInv
<1>1. h \in Handlers /\ h.op = "read" /\ h.c = c /\ (IsData(h) <=> ec = "ok")
  BY <1>0, Numbers DEF H, Handlers, IsData, Conns
<1> HIDE DEF h
<1>2. /\ ready' = Append(ready, h) /\ reading' = reading \ {c} /\ c \in reading
      /\ ec = "ok" => casts["io"] + DataReady < MaxCasts
      /\ sock[c] \in {"open", "reset"}
      /\ UNCHANGED <<accVars, connVars, castVars, receiver, raced, io>>
  BY DEF ReadReady, h
<1>3. /\ AcceptsReady' = AcceptsReady + 0 /\ DataReady' = DataReady + Yes(ec = "ok") /\ ready' \in Queue
  BY <1>0, <1>1, <1>2, Numbers, ReadyAppend DEF Yes
<1>4. AcceptInv'
  BY <1>0, <1>2, <1>3, Numbers, AcceptFrame
<1>5. ConnInv'
  <2>0. OneRead(ready, reading, receiver, sock, io, c)
    BY <1>0 DEF ConnInv
  <2>1. ~HasRead(ready, c) /\ receiver # c /\ c \in 1 .. made
    BY <1>0, <1>2, <2>0 DEF ConnInv, OneRead
  <2>2. Fits(h, made, sock, unwritten)
    BY <1>1, <2>1 DEF Fits
  <2>3. /\ AllFit(ready', made, sock, unwritten) /\ ReadsApart(ready')
        /\ \A d : HasRead(ready', d) <=> HasRead(ready, d) \/ c = d
    BY <1>0, <1>1, <1>2, <2>1, <2>2, Numbers, AppendKeeps DEF ConnInv
  <2>4. ASSUME NEW d \in Conns PROVE OneRead(ready', reading', receiver, sock, io, d)
    <3>1. OneRead(ready, reading, receiver, sock, io, d)
      BY <1>0 DEF ConnInv
    <3> QED BY <1>2, <2>1, <2>3, <3>1 DEF OneRead
  <2> QED BY <1>0, <1>2, <2>3, <2>4 DEF ConnInv, OnlyTheseAreFatal, connVars, castVars
<1>6. CastInv'
  <2>1. casts'["io"] + DataReady' <= MaxCasts
    <3>1. casts["io"] \in Nat /\ DataReady \in Nat /\ MaxCasts \in Nat /\ casts' = casts
      BY <1>0, <1>2, Numbers DEF Casters, castVars
    <3> QED BY <1>0, <1>2, <1>3, <3>1 DEF CastInv, Yes
  <2> QED BY <1>0, <1>2, <2>1 DEF CastInv, BroadcastReachesEach, connVars, castVars
<1>7. TypeOK'
  <2>1. reading' \subseteq Conns
    BY <1>0, <1>2 DEF TypeOK
  <2> QED BY <1>0, <1>2, <1>3, <2>1 DEF TypeOK, accVars, connVars, castVars, Queue, Handlers
<1> QED BY <1>4, <1>5, <1>6, <1>7 DEF ServerInv

(* A peer resets its connection.                                           *)
LEMMA PeerResetKeeps ==
    ASSUME ServerInv, NEW c \in Conns, PeerReset(c)
    PROVE  ServerInv'
<1>0. TypeOK /\ AcceptInv /\ ConnInv /\ CastInv
  BY DEF ServerInv
<1>1. /\ io = "running" /\ sock[c] = "open" /\ sock' = [sock EXCEPT ![c] = "reset"]
      /\ UNCHANGED <<accVars, connections, made, joined, castVars, ready, reading, receiver, raced, io>>
  BY DEF PeerReset
<1>2. sock' \in [Conns -> {"open", "reset", "bad", "closed"}] /\ sock'[c] = "reset"
      /\ \A d \in Conns : d # c => sock'[d] = sock[d]
  BY <1>0, <1>1 DEF TypeOK
<1>3. AcceptsReady' = AcceptsReady /\ DataReady' = DataReady
  BY <1>1 DEF AcceptsReady, DataReady
<1>4. AcceptInv'
  BY <1>0, <1>1, <1>3, AcceptFrame
<1>5. ConnInv'
  <2>1. \A d \in 1 .. made : sock[d] # "open" /\ d \in unwritten => sock'[d] # "open" /\ d \in unwritten
    BY <1>0, <1>1, <1>2, Numbers DEF Conns
  <2>2. AllFit(ready, made, sock', unwritten)
    BY <1>0, <2>1, Numbers, FitsKept DEF ConnInv
  <2>3. ASSUME NEW d \in Conns PROVE OneRead(ready, reading, receiver, sock', io, d)
    <3>1. OneRead(ready, reading, receiver, sock, io, d)
      BY <1>0 DEF ConnInv
    <3> QED BY <1>1, <1>2, <3>1 DEF OneRead
  <2>4. \A d \in Conns : d > made => sock'[d] = "bad"
    BY <1>0, <1>1, <1>2 DEF ConnInv
  <2> QED BY <1>0, <1>1, <2>2, <2>3, <2>4 DEF ConnInv, OnlyTheseAreFatal, castVars
<1>6. CastInv'
  BY <1>0, <1>1, <1>3, Numbers, CastFrame DEF castVars
<1>7. TypeOK'
  BY <1>0, <1>1, <1>2 DEF TypeOK, accVars, castVars
<1> QED BY <1>4, <1>5, <1>6, <1>7 DEF ServerInv

(* Listen: the first accept of a loop, or an acceptor left open.           *)
LEMMA ListenKeeps ==
    ASSUME ServerInv, Listen
    PROVE  ServerInv'
<1>0. TypeOK /\ AcceptInv /\ ConnInv /\ CastInv
  BY DEF ServerInv
<1>1. /\ acceptor \in {"none", "closed"} /\ listens < MaxListens
      /\ \/ acceptor' = "listening" /\ accepting' = accepting + 1
         \/ acceptor' = "open" /\ accepting' = accepting
      /\ listens' = listens + 1 /\ late' = 0
      /\ overlapped' = (overlapped \/ AcceptsReady > 0 \/ accepted # "none")
      /\ UNCHANGED <<accepted, connVars, castVars, ready, reading, receiver, raced, io>>
  BY DEF Listen
<1>2. AcceptsReady' = AcceptsReady /\ DataReady' = DataReady
  BY <1>1 DEF AcceptsReady, DataReady
<1>3. accepting = 0 /\ AcceptsUnderWay <= listens
  BY <1>0, <1>1 DEF AcceptInv, LoopInv
<1>4. AcceptInv'
  <2>1. /\ AcceptsUnderWay' = AcceptsUnderWay + accepting' /\ accepting' \in {0, 1}
        /\ AcceptsUnderWay \in Nat /\ AcceptsUnderWay' \in Nat
    BY <1>0, <1>1, <1>2, <1>3, Numbers DEF AcceptsUnderWay
  <2>a. ~overlapped' => ~(AcceptsReady > 0) /\ accepted = "none"
    BY <1>1
  <2>2. ~overlapped' => AcceptsUnderWay' = accepting'
    BY <1>0, <1>1, <1>2, <2>1, <2>a, Numbers DEF AcceptsUnderWay
  <2>3. acceptor' = "listening" => accepting' = 1
    BY <1>1, <1>3
  <2>4. LoopInv'
    <3>1. acceptor' # "listening" => accepting' = 0
      BY <1>1, <1>3
    <3>2. AcceptsUnderWay' <= listens'
      BY <1>0, <1>1, <1>3, <2>1, Numbers
    <3>a. accepting' <= 1
      BY <2>1
    <3>3. ~overlapped' => AcceptsUnderWay' <= 1
      BY <2>2, <3>a
    <3>4. OneAcceptUnderWay'
      BY <2>2, <2>3 DEF OneAcceptUnderWay
    <3> QED BY <3>1, <3>2, <3>3, <3>4 DEF LoopInv
  <2> QED BY <1>1, <2>4 DEF AcceptInv, LateInv
<1>5. ConnInv'
  BY <1>0, <1>1, ConnFrame DEF ConnInv, connVars, castVars
<1>6. CastInv'
  BY <1>0, <1>1, <1>2, Numbers, CastFrame DEF connVars, castVars
<1>7. TypeOK'
  <2>1. accepting' \in 0 .. MaxListens /\ listens' \in 0 .. MaxListens /\ late' \in Nat /\ overlapped' \in BOOLEAN
    BY <1>0, <1>1, <1>3, Numbers DEF TypeOK
  <2> QED BY <1>0, <1>1, <2>1 DEF TypeOK, connVars, castVars
<1> QED BY <1>4, <1>5, <1>6, <1>7 DEF ServerInv

(* Stop: what waits is aborted.                                            *)
LEMMA StopKeeps ==
    ASSUME ServerInv, Stop
    PROVE  ServerInv'
<1> DEFINE h == H("accept", 0, "aborted")
<1>0. TypeOK /\ AcceptInv /\ ConnInv /\ CastInv
  BY DEF ServerInv
<1>1. h \in Handlers /\ h.op = "accept"
  BY <1>0, Numbers DEF H, Handlers
<1>2. ready' = ready \o [i \in 1 .. accepting |-> h]
  BY DEF Stop
<1> HIDE DEF h
<1>3. /\ acceptor \in {"open", "listening"} /\ acceptor' = "closed" /\ accepting' = 0
      /\ UNCHANGED <<accepted, overlapped, late, listens, connVars, castVars, reading, receiver, raced, io>>
  BY DEF Stop
<1>4. /\ AcceptsReady' = AcceptsReady + accepting /\ DataReady' = DataReady /\ ready' \in Queue
      /\ \A c : HasRead(ready', c) <=> HasRead(ready, c)
      /\ ReadsApart(ready) => ReadsApart(ready')
      /\ \A m, sk, un : AllFit(ready, m, sk, un) => AllFit(ready', m, sk, un)
  BY <1>0, <1>1, <1>2, Numbers, ReadyAborts
<1>5. AcceptInv'
  <2>1. AcceptsUnderWay' = AcceptsUnderWay
    BY <1>0, <1>3, <1>4, Numbers DEF AcceptsUnderWay
  <2> QED BY <1>0, <1>3, <2>1 DEF AcceptInv, LoopInv, LateInv, OneAcceptUnderWay
<1>6. ConnInv'
  <2>1. AllFit(ready', made, sock, unwritten) /\ ReadsApart(ready')
    BY <1>0, <1>4 DEF ConnInv
  <2> QED BY <1>0, <1>3, <1>4, <2>1, ConnFrame DEF connVars, castVars
<1>7. CastInv'
  BY <1>0, <1>3, <1>4, Numbers, CastFrame DEF connVars, castVars
<1>8. TypeOK'
  <2>1. accepting' \in 0 .. MaxListens
    BY <1>0, <1>3, Numbers
  <2> QED BY <1>0, <1>3, <1>4, <2>1 DEF TypeOK, connVars, castVars, Queue, Handlers
<1> QED BY <1>5, <1>6, <1>7, <1>8 DEF ServerInv

(* ~TcpServer: nothing is left.                                            *)
LEMMA DestroyKeeps ==
    ASSUME ServerInv, Destroy
    PROVE  ServerInv'
<1>0. TypeOK /\ AcceptInv /\ ConnInv /\ CastInv
  BY DEF ServerInv
<1>1. /\ receiver = 0 /\ accepted = "none" /\ todo["user"] = {}
      /\ acceptor' = "gone" /\ accepting' = 0 /\ connections' = {} /\ made' = 0
      /\ sock' = NoSockets /\ reading' = {} /\ unwritten' = {} /\ got' = Nothing /\ joined' = NoneBefore
      /\ ready' = <<>> /\ io' = "stopped" /\ late' = 0
      /\ UNCHANGED <<accepted, overlapped, listens, todo, casts, receiver, raced>>
  BY DEF Destroy
<1>2. ready' \in Queue /\ DOMAIN ready' = {}
  BY <1>1 DEF Queue
<1>3. AcceptsReady' = 0 /\ DataReady' = 0
  BY <1>2, FS_EmptySet DEF AcceptsReady, DataReady
<1>4. \A k \in Casters : todo[k] = {}
  BY <1>0, <1>1 DEF ConnInv, Casters
<1>5. AcceptInv'
  <2>1. AcceptsUnderWay' = 0
    BY <1>1, <1>3 DEF AcceptsUnderWay
  <2> QED BY <1>0, <1>1, <2>1, Numbers DEF AcceptInv, LoopInv, LateInv, OneAcceptUnderWay
<1>6. ConnInv'
  <2>1. connections' = 1 .. made'
    BY <1>1
  <2>2. AllFit(ready', made', sock', unwritten') /\ ReadsApart(ready') /\ \A c : ~HasRead(ready', c)
    BY <1>2 DEF AllFit, ReadsApart, HasRead
  <2>3. \A c \in Conns : sock'[c] = "bad"
    BY <1>1 DEF NoSockets
  <2>4. \A c \in Conns : OneRead(ready', reading', receiver', sock', io', c)
    BY <1>0, <1>1, <2>2, <2>3, Numbers DEF OneRead, Conns
  <2>5. reading' \subseteq connections' /\ receiver' \in 0 .. made'
    BY <1>1
  <2>6. (\A k \in Casters : todo'[k] \subseteq connections') /\ todo'["io"] = {}
    BY <1>1, <1>4 DEF Casters
  <2>7. OnlyTheseAreFatal'
    BY <1>1 DEF OnlyTheseAreFatal
  <2> QED BY <2>1, <2>2, <2>3, <2>4, <2>5, <2>6, <2>7 DEF ConnInv
<1>7. CastInv'
  <2>1. casts'["io"] + DataReady' <= MaxCasts
    <3>1. casts["io"] \in Nat /\ DataReady \in Nat /\ MaxCasts \in Nat
      BY <1>0, Numbers DEF Casters
    <3> QED BY <1>0, <1>1, <1>3, <3>1 DEF CastInv
  <2> QED BY <1>1, <1>4, <2>1 DEF CastInv, BroadcastReachesEach
<1>8. TypeOK'
  <2>1. /\ sock' \in [Conns -> {"open", "reset", "bad", "closed"}]
        /\ got' \in [Conns -> [Casters -> Seq(1 .. MaxCasts)]]
    BY <1>1 DEF NoSockets, Nothing
  <2>2. joined' \in [Conns -> [Casters -> 0 .. MaxCasts]]
    BY <1>0, <1>1, Numbers DEF NoneBefore
  <2>3. accepting' \in 0 .. MaxListens /\ made' \in 0 .. MaxConns /\ connections' \subseteq 1 .. made' /\ late' \in Nat
    BY <1>0, <1>1, Numbers
  <2> QED BY <1>0, <1>1, <1>2, <2>1, <2>2, <2>3 DEF TypeOK, Queue, Handlers
<1> QED BY <1>5, <1>6, <1>7, <1>8 DEF ServerInv

(* The accept handler looks whether the server was stopped.                *)
LEMMA RunAcceptKeeps ==
    ASSUME ServerInv, RunAccept
    PROVE  ServerInv'
<1>0. TypeOK /\ AcceptInv /\ ConnInv /\ CastInv
  BY DEF ServerInv
<1>1. /\ accepted = "none" /\ ready # <<>> /\ Head(ready).op = "accept" /\ ready' = Tail(ready)
      /\ accepted' = IF acceptor \in {"open", "listening"} THEN Head(ready).ec ELSE "none"
      /\ UNCHANGED <<acceptor, accepting, overlapped, late, listens, connVars, castVars, reading, receiver, raced, io>>
  BY DEF RunAccept, Runs
<1>2. /\ AcceptsReady' = AcceptsReady - 1 /\ AcceptsReady' \in Nat
      /\ DataReady' = DataReady - 0 /\ DataReady' \in Nat
      /\ ready' \in Queue
  BY <1>0, <1>1, Numbers, ReadyTail DEF Yes, IsData
<1>3. /\ \A c : HasRead(ready', c) <=> HasRead(ready, c)
      /\ ReadsApart(ready) => ReadsApart(ready')
      /\ \A m, sk, un : AllFit(ready, m, sk, un) => AllFit(ready', m, sk, un)
      /\ Head(ready) \in Handlers
  BY <1>0, <1>1, Numbers, TailKeeps
<1>4. accepted' \in {"none", "ok", "error", "aborted"} /\ (accepted' = "none" <=> acceptor \notin {"open", "listening"})
  BY <1>1, <1>3 DEF Handlers
<1>5. AcceptInv'
  <2>1. AcceptsUnderWay' = AcceptsUnderWay \/ AcceptsUnderWay' = AcceptsUnderWay - 1
    BY <1>0, <1>1, <1>2, Numbers DEF AcceptsUnderWay
  <2>2. acceptor = "listening" => AcceptsUnderWay' = AcceptsUnderWay
    BY <1>0, <1>1, <1>2, <1>4, Numbers DEF AcceptsUnderWay
  <2>3. AcceptsUnderWay \in Nat
    BY <1>0, Numbers DEF AcceptsUnderWay
  <2>4. LoopInv'
    BY <1>0, <1>1, <2>1, <2>2, <2>3, Numbers DEF AcceptInv, LoopInv, OneAcceptUnderWay
  <2>5. LateInv'
    BY <1>0, <1>1, <1>4 DEF AcceptInv, LateInv
  <2> QED BY <2>4, <2>5 DEF AcceptInv
<1>6. ConnInv'
  <2>1. AllFit(ready', made, sock, unwritten) /\ ReadsApart(ready')
    BY <1>0, <1>3 DEF ConnInv
  <2> QED BY <1>0, <1>1, <1>3, <2>1, ConnFrame DEF connVars, castVars
<1>7. CastInv'
  <2>1. DataReady' <= DataReady
    BY <1>0, <1>2, Numbers
  <2> QED BY <1>0, <1>1, <1>2, <2>1, CastFrame DEF connVars, castVars
<1>8. TypeOK'
  BY <1>0, <1>1, <1>2, <1>4 DEF TypeOK, connVars, castVars, Queue, Handlers
<1> QED BY <1>5, <1>6, <1>7, <1>8 DEF ServerInv

(* The rest of the accept handler: a connection more, and the next accept. *)
LEMMA StartConnKeeps ==
    ASSUME ServerInv, StartConn
    PROVE  ServerInv'
<1> DEFINE c == made + 1
           bad == accepted # "ok"
           again == acceptor # "listening"
           h == H("read", c, "error")
           g == H("accept", 0, "error")
<1>0. TypeOK /\ AcceptInv /\ ConnInv /\ CastInv
  BY DEF ServerInv
<1>1. /\ io = "running" /\ accepted # "none" /\ made < MaxConns /\ accepted' = "none"
      /\ made' = c /\ connections' = connections \cup {c}
      /\ sock' = [sock EXCEPT ![c] = IF bad THEN "bad" ELSE "open"]
      /\ joined' = [joined EXCEPT ![c] = casts]
      /\ reading' = IF bad THEN reading ELSE reading \cup {c}
      /\ late' = IF acceptor = "closed" THEN late + 1 ELSE late
      /\ UNCHANGED <<overlapped, listens, casts, unwritten, receiver, io>>
  BY DEF StartConn
<1>2. ready' = ready \o (IF bad THEN <<h>> ELSE <<>>) \o (IF again THEN <<g>> ELSE <<>>)
  BY DEF StartConn
<1>3. acceptor' = acceptor /\ accepting' = IF again THEN accepting ELSE accepting + 1
  BY DEF StartConn, DoAccept
<1>4. \/ todo["user"] = {} /\ todo' = todo /\ raced' = raced /\ got' = got
      \/ /\ todo["user"] # {} /\ raced' = TRUE /\ got' = Nothing
         /\ \E left \in SUBSET connections' : todo' = [todo EXCEPT !["user"] = left]
  BY DEF StartConn
<1>5. c \in Conns /\ c \in Nat /\ c \in 1 .. MaxConns
  BY <1>0, <1>1, Numbers DEF Conns
<1>6. /\ h \in Handlers /\ h.op = "read" /\ h.c = c /\ ~IsData(h)
      /\ g \in Handlers /\ g.op = "accept" /\ ~IsData(g) /\ bad \in BOOLEAN /\ again \in BOOLEAN
  BY <1>0, <1>5, Numbers DEF H, Handlers, IsData
<1>7. c \notin connections /\ connections = 1 .. made /\ connections' = 1 .. c /\ connections \subseteq Conns
  BY <1>0, <1>1, <1>5, Numbers DEF ConnInv, Conns
<1> HIDE DEF c, bad, again, h, g
<1>8. /\ ready' \in Queue
      /\ AcceptsReady' = AcceptsReady + Yes(again) /\ DataReady' = DataReady /\ AcceptsReady \in Nat
      /\ \A d : HasRead(ready', d) <=> HasRead(ready, d) \/ (bad /\ c = d)
      /\ (ReadsApart(ready) /\ ~HasRead(ready, c)) => ReadsApart(ready')
      /\ \A m, sk, un : AllFit(ready, m, sk, un) /\ Fits(h, m, sk, un) => AllFit(ready', m, sk, un)
  BY <1>0, <1>2, <1>6, Numbers, ReadyStart
<1>9. /\ sock' \in [Conns -> {"open", "reset", "bad", "closed"}]
      /\ sock'[c] = (IF bad THEN "bad" ELSE "open") /\ \A d \in Conns : d # c => sock'[d] = sock[d]
  BY <1>0, <1>1, <1>5 DEF TypeOK
<1>10. AcceptInv'
  <2>1. AcceptsUnderWay' = AcceptsUnderWay
    BY <1>0, <1>1, <1>3, <1>8, Numbers DEF AcceptsUnderWay, Yes
  <2>2. LoopInv'
    BY <1>0, <1>1, <1>3, <2>1 DEF AcceptInv, LoopInv, OneAcceptUnderWay, again
  <2>3. late = 0
    BY <1>0, <1>1 DEF AcceptInv, LateInv
  <2>4. LateInv'
    BY <1>1, <1>3, <2>3 DEF LateInv
  <2> QED BY <2>2, <2>4 DEF AcceptInv
<1>11. \A k \in Casters : todo'[k] \subseteq connections' /\ (k = "io" => todo'[k] = todo[k])
  <2>1. \A k \in Casters : todo[k] \subseteq connections'
    BY <1>0, <1>1 DEF ConnInv
  <2>2. CASE todo' = todo
    BY <2>1, <2>2
  <2>3. CASE \E left \in SUBSET connections' : todo' = [todo EXCEPT !["user"] = left]
    BY <1>0, <2>1, <2>3 DEF TypeOK, Casters
  <2> QED BY <1>4, <2>2, <2>3
<1>12. ConnInv'
  <2>1. ~HasRead(ready, c)
    BY <1>0, <1>7 DEF ConnInv, AllFit, Fits, HasRead
  <2>2. \A d \in 1 .. made : sock[d] # "open" /\ d \in unwritten => sock'[d] # "open" /\ d \in unwritten
    BY <1>7, <1>9
  <2>3. made <= c
    BY <1>0, Numbers DEF c
  <2>4. AllFit(ready, c, sock', unwritten)
    BY <1>0, <1>5, <2>2, <2>3, Numbers, FitsKept DEF ConnInv
  <2>5. Fits(h, c, sock', unwritten)
    BY <1>5, <1>6 DEF Fits
  <2>6. AllFit(ready', c, sock', unwritten) /\ ReadsApart(ready')
    BY <1>0, <1>8, <2>1, <2>4, <2>5 DEF ConnInv
  <2>7. c \notin reading /\ receiver # c
    <3>1. reading \subseteq connections /\ receiver \in 0 .. made
      BY <1>0 DEF ConnInv
    <3> QED BY <1>0, <1>7, <3>1, Numbers DEF c
  <2>8. ASSUME NEW d \in Conns PROVE OneRead(ready', reading', receiver, sock', io, d)
    <3>1. OneRead(ready, reading, receiver, sock, io, d)
      BY <1>0 DEF ConnInv
    <3>2. CASE d = c
      BY <1>1, <1>8, <1>9, <2>1, <2>7, <3>2 DEF OneRead
    <3>3. CASE d # c
      BY <1>1, <1>8, <1>9, <3>1, <3>3 DEF OneRead
    <3> QED BY <3>2, <3>3
  <2>9. reading' \subseteq connections' /\ receiver' \in 0 .. c
    <3>1. reading \subseteq connections /\ receiver \in 0 .. made
      BY <1>0 DEF ConnInv
    <3> QED BY <1>0, <1>1, <3>1, Numbers DEF c
  <2>10. \A d \in Conns : d > c => sock'[d] = "bad"
    <3>1. \A d \in Conns : d > c => d > made /\ d # c
      BY <1>0, Numbers DEF Conns, c
    <3> QED BY <1>0, <1>9, <3>1 DEF ConnInv
  <2>11. receiver' = 0 => todo'["io"] = {}
    BY <1>0, <1>1, <1>11 DEF ConnInv, Casters
  <2> QED
    BY <1>1, <1>7, <1>11, <2>6, <2>8, <2>9, <2>10, <2>11 DEF ConnInv, OnlyTheseAreFatal
<1>13. joined' \in [Conns -> [Casters -> 0 .. MaxCasts]] /\ joined'[c] = casts
       /\ \A d \in Conns : d # c => joined'[d] = joined[d]
  BY <1>0, <1>1, <1>5 DEF TypeOK
<1>14. CastInv'
  <2>1. casts'["io"] + DataReady' <= MaxCasts
    BY <1>0, <1>1, <1>8 DEF CastInv
  <2>2. \A d \in connections', k \in Casters : joined'[d][k] <= casts'[k]
    <3>1. ASSUME NEW d \in connections', NEW k \in Casters PROVE joined'[d][k] <= casts'[k]
      <4>1. CASE d = c
        BY <1>0, <1>1, <1>13, <4>1, Numbers
      <4>2. CASE d # c
        BY <1>0, <1>1, <1>7, <1>13, <3>1, <4>2 DEF CastInv
      <4> QED BY <4>1, <4>2
    <3> QED BY <3>1
  <2>3. ASSUME ~raced'
        PROVE  /\ \A k \in Casters : \A d \in todo'[k] : joined'[d][k] < casts'[k]
               /\ \A d \in Conns \ connections' : got'[d] = Nothing[d]
               /\ BroadcastReachesEach'
    <3>1. ~raced /\ todo' = todo /\ got' = got
      BY <1>4, <2>3
    <3>2. \A k \in Casters : \A d \in todo[k] : d \in connections /\ d # c
      BY <1>0, <1>7 DEF ConnInv
    <3>3. \A k \in Casters : \A d \in todo'[k] : joined'[d][k] < casts'[k]
      BY <1>0, <1>1, <1>7, <1>13, <3>1, <3>2 DEF CastInv
    <3>4. \A d \in Conns \ connections' : got'[d] = Nothing[d]
      BY <1>0, <1>1, <3>1 DEF CastInv
    <3>5. ASSUME NEW d \in connections', NEW k \in Casters
          PROVE  got'[d][k] = [i \in 1 .. casts'[k] - joined'[d][k] - (IF d \in todo'[k] THEN 1 ELSE 0) |->
                                    joined'[d][k] + i]
      <4>1. CASE d = c
        <5>1. got'[d][k] = <<>>
          BY <1>0, <1>5, <1>7, <3>1, <4>1 DEF CastInv, Nothing
        <5>2. d \notin todo'[k]
          BY <3>1, <3>2, <4>1
        <5>3. casts'[k] - joined'[d][k] - 0 = 0
          BY <1>0, <1>1, <1>13, <4>1, Numbers
        <5> QED BY <5>1, <5>2, <5>3
      <4>2. CASE d # c
        <5>1. d \in connections /\ joined'[d] = joined[d]
          BY <1>1, <1>7, <1>13, <3>5, <4>2
        <5> QED BY <1>0, <1>1, <3>1, <5>1 DEF CastInv, BroadcastReachesEach
      <4> QED BY <4>1, <4>2
    <3>6. BroadcastReachesEach'
      BY <3>5 DEF BroadcastReachesEach
    <3> QED BY <3>3, <3>4, <3>6
  <2> QED BY <2>1, <2>2, <2>3 DEF CastInv
<1>15. TypeOK'
  <2>1. made' \in 0 .. MaxConns /\ connections' \subseteq 1 .. made'
    BY <1>0, <1>1, <1>5, <1>7, Numbers
  <2>2. accepting' \in 0 .. MaxListens
    <3>1. AcceptsUnderWay' <= listens'
      BY <1>10 DEF AcceptInv, LoopInv
    <3>2. accepting' \in Nat /\ AcceptsReady' \in Nat /\ MaxListens \in Nat
      BY <1>0, <1>3, <1>8, Numbers DEF Yes
    <3>3. accepting' + AcceptsReady' <= listens'
      BY <1>1, <3>1, <3>2 DEF AcceptsUnderWay
    <3>4. listens' \in 0 .. MaxListens
      BY <1>0, <1>1 DEF TypeOK
    <3>5. listens' \in Nat /\ listens' <= MaxListens
      BY <3>2, <3>4
    <3>6. \A a, r, n, m \in Nat : a + r <= n /\ n <= m => a \in 0 .. m
      OBVIOUS
    <3> QED BY <3>2, <3>3, <3>5, <3>6, Zenon
  <2>3. reading' \subseteq Conns
    BY <1>0, <1>1, <1>5 DEF TypeOK
  <2>4. todo' \in [Casters -> SUBSET Conns]
    <3>1. CASE todo' = todo
      BY <1>0, <3>1 DEF TypeOK
    <3>2. CASE \E left \in SUBSET connections' : todo' = [todo EXCEPT !["user"] = left]
      <4>1. PICK left \in SUBSET connections' : todo' = [todo EXCEPT !["user"] = left]
        BY <3>2
      <4>2. connections' \subseteq Conns
        BY <1>1, <1>5, <1>7
      <4>3. left \in SUBSET Conns /\ todo \in [Casters -> SUBSET Conns]
        BY <1>0, <4>2 DEF TypeOK
      <4> QED BY <4>1, <4>3
    <3> QED BY <1>4, <3>1, <3>2
  <2>5. got' \in [Conns -> [Casters -> Seq(1 .. MaxCasts)]] /\ raced' \in BOOLEAN
    <3>1. Nothing \in [Conns -> [Casters -> Seq(1 .. MaxCasts)]]
      BY DEF Nothing
    <3> QED BY <1>0, <1>4, <3>1 DEF TypeOK
  <2>6. late' \in Nat
    BY <1>0, <1>1, Numbers
  <2> QED BY <1>0, <1>1, <1>3, <1>8, <1>9, <1>13, <2>1, <2>2, <2>3, <2>4, <2>5, <2>6 DEF TypeOK, Queue, Handlers
<1> QED BY <1>10, <1>12, <1>14, <1>15 DEF ServerInv

(* A broadcast begins: everybody is to be visited.                         *)
LEMMA BoardcastKeeps ==
    ASSUME TypeOK, ConnInv, CastInv, NEW k \in Casters, todo[k] = {}, casts[k] < MaxCasts,
           Boardcast(k, connections), UNCHANGED <<connections, joined, got, raced>>,
           casts'["io"] + DataReady' <= MaxCasts
    PROVE  /\ CastInv'
           /\ todo' \in [Casters -> SUBSET Conns] /\ casts' \in [Casters -> 0 .. MaxCasts]
           /\ \A j \in Casters : todo'[j] \subseteq connections /\ (j # k => todo'[j] = todo[j])
<1>1. connections \subseteq Conns /\ \A j \in Casters : todo[j] \subseteq connections
  BY Numbers DEF ConnInv, Conns
<1>2. /\ todo \in [Casters -> SUBSET Conns] /\ casts \in [Casters -> 0 .. MaxCasts]
      /\ todo' = [todo EXCEPT ![k] = connections] /\ casts' = [casts EXCEPT ![k] = casts[k] + 1]
  BY DEF TypeOK, Boardcast
<1>3. casts[k] \in Nat /\ casts[k] + 1 \in 0 .. MaxCasts
  BY Numbers
<1>4. todo' \in [Casters -> SUBSET Conns] /\ casts' \in [Casters -> 0 .. MaxCasts]
  BY <1>1, <1>2, <1>3
<1>5. /\ todo'[k] = connections /\ casts'[k] = casts[k] + 1
      /\ \A j \in Casters : j # k => todo'[j] = todo[j] /\ casts'[j] = casts[j]
  BY <1>2
<1>6. ASSUME NEW c \in connections PROVE joined[c][k] \in Nat /\ joined[c][k] <= casts[k]
  BY <1>1, Numbers DEF CastInv
<1>7. ASSUME NEW c \in connections PROVE joined[c][k] < casts'[k] /\ joined[c][k] <= casts'[k]
  <2>1. joined[c][k] \in Nat /\ joined[c][k] <= casts[k]
    BY <1>6
  <2> QED BY <1>3, <1>5, <2>1
<1>8. \A c \in connections, j \in Casters : joined[c][j] <= casts'[j]
  BY <1>5, <1>7 DEF CastInv
<1>9. ASSUME ~raced
      PROVE  /\ \A j \in Casters : \A c \in todo'[j] : joined[c][j] < casts'[j]
             /\ \A c \in Conns \ connections : got[c] = Nothing[c]
             /\ BroadcastReachesEach'
  <2>1. ASSUME NEW j \in Casters, NEW c \in todo'[j] PROVE joined[c][j] < casts'[j]
    <3>1. CASE j = k
      BY <1>5, <1>7, <2>1, <3>1
    <3>2. CASE j # k
      BY <1>5, <1>9, <2>1, <3>2 DEF CastInv
    <3> QED BY <3>1, <3>2
  <2>2. \A c \in Conns \ connections : got[c] = Nothing[c]
    BY <1>9 DEF CastInv
  <2>3. ASSUME NEW c \in connections, NEW j \in Casters
        PROVE  got[c][j] = [i \in 1 .. casts'[j] - joined[c][j] - (IF c \in todo'[j] THEN 1 ELSE 0) |->
                                joined[c][j] + i]
    <3>0. got[c][j] = [i \in 1 .. casts[j] - joined[c][j] - (IF c \in todo[j] THEN 1 ELSE 0) |->
                                joined[c][j] + i]
      BY <1>9 DEF CastInv, BroadcastReachesEach
    <3>1. CASE j = k
      <4>1. /\ (IF c \in todo[k] THEN 1 ELSE 0) = 0
            /\ (IF c \in todo'[k] THEN 1 ELSE 0) = 1
        BY <1>5
      <4>2. casts'[k] - joined[c][k] - 1 = casts[k] - joined[c][k] - 0
        BY <1>3, <1>5, <1>6
      <4> QED BY <3>0, <3>1, <4>1, <4>2
    <3>2. CASE j # k
      <4>1. todo'[j] = todo[j] /\ casts'[j] = casts[j]
        BY <1>5, <3>2
      <4> QED BY <3>0, <4>1
    <3> QED BY <3>1, <3>2
  <2>4. BroadcastReachesEach'
    BY <2>3 DEF BroadcastReachesEach
  <2> QED BY <2>1, <2>2, <2>4
<1>10. CastInv'
  BY <1>8, <1>9 DEF CastInv
<1> QED BY <1>1, <1>4, <1>5, <1>10

(* A user thread calls Boardcast.                                          *)
LEMMA UserCastKeeps ==
    ASSUME ServerInv, UserCast
    PROVE  ServerInv'
<1>0. TypeOK /\ AcceptInv /\ ConnInv /\ CastInv
  BY DEF ServerInv
<1>1. /\ todo["user"] = {} /\ casts["user"] < MaxCasts /\ Boardcast("user", connections)
      /\ UNCHANGED <<accVars, connVars, got, unwritten, ready, reading, receiver, raced, io>>
  BY DEF UserCast
<1>2. AcceptsReady' = AcceptsReady /\ DataReady' = DataReady
  BY <1>1 DEF AcceptsReady, DataReady
<1>3. AcceptInv'
  BY <1>0, <1>1, <1>2, AcceptFrame
<1>4. casts'["io"] + DataReady' <= MaxCasts
  <2>1. casts'["io"] = casts["io"]
    BY <1>0, <1>1 DEF TypeOK, Boardcast, Casters
  <2> QED BY <1>0, <1>2, <2>1 DEF CastInv
<1>5. /\ CastInv'
      /\ todo' \in [Casters -> SUBSET Conns] /\ casts' \in [Casters -> 0 .. MaxCasts]
      /\ \A j \in Casters : todo'[j] \subseteq connections /\ (j # "user" => todo'[j] = todo[j])
  <2>1. "user" \in Casters /\ UNCHANGED <<connections, joined, got, raced>>
    BY <1>1 DEF Casters, connVars
  <2> QED BY <1>0, <1>1, <1>4, <2>1, BoardcastKeeps, Zenon
<1>6. ConnInv'
  <2>1. todo'["io"] = todo["io"]
    BY <1>5 DEF Casters
  <2> QED BY <1>0, <1>1, <1>5, <2>1 DEF ConnInv, OnlyTheseAreFatal, connVars
<1>7. TypeOK'
  BY <1>0, <1>1, <1>5 DEF TypeOK, accVars, connVars
<1> QED BY <1>3, <1>5, <1>6, <1>7 DEF ServerInv

(* The broadcasts given so far and the next one.                           *)
LEMMA NextGiven ==
    ASSUME NEW n \in Nat, NEW j \in Nat
    PROVE  Append([i \in 1 .. n |-> j + i], j + n + 1) = [i \in 1 .. n + 1 |-> j + i]
<1> DEFINE s == [i \in 1 .. n |-> j + i]
           t == [i \in 1 .. n + 1 |-> j + i]
           r == Append(s, j + n + 1)
<1>1. s \in Seq(Int) /\ Len(s) = n /\ j + n + 1 \in Int
  OBVIOUS
<1>2. r \in Seq(Int) /\ Len(r) = n + 1 /\ r[n + 1] = j + n + 1 /\ \A i \in 1 .. n : r[i] = s[i]
  BY <1>1
<1>3. t \in Seq(Int) /\ Len(t) = n + 1
  OBVIOUS
<1>4. \A i \in 1 .. n + 1 : r[i] = t[i]
  <2>1. \A i \in 1 .. n : s[i] = j + i
    OBVIOUS
  <2>2. \A i \in 1 .. n + 1 : t[i] = j + i
    OBVIOUS
  <2>3. \A i \in 1 .. n + 1 : i = n + 1 \/ i \in 1 .. n
    OBVIOUS
  <2> HIDE DEF r, s, t
  <2>4. \A i \in 1 .. n + 1 : r[i] = j + i
    BY <1>2, <2>1, <2>3
  <2> QED BY <2>2, <2>4
<1> HIDE DEF r, s, t
<1>5. r = t
  BY <1>2, <1>3, <1>4, SeqEqual
<1> QED BY <1>5 DEF r, s, t

(* One connection of a broadcast is visited.                               *)
LEMMA SendNextKeeps ==
    ASSUME ServerInv, NEW k \in Casters, SendNext(k)
    PROVE  ServerInv'
<1>0. TypeOK /\ AcceptInv /\ ConnInv /\ CastInv
  BY DEF ServerInv
<1>1. PICK c \in todo[k] :
        /\ todo' = [todo EXCEPT ![k] = todo[k] \ {c}]
        /\ got' = IF raced THEN got ELSE [got EXCEPT ![c][k] = Append(got[c][k], casts[k])]
        /\ unwritten' = unwritten \cup {c}
        /\ ready' = Append(ready, H("write", c, "ok"))
  BY DEF SendNext
<1>2. UNCHANGED <<accVars, connVars, casts, reading, receiver, raced, io>>
  BY DEF SendNext
<1> DEFINE h == H("write", c, "ok")
<1>3. c \in connections /\ c \in 1 .. made /\ c \in Conns
  BY <1>0, Numbers DEF ConnInv, Conns
<1>4. h \in Handlers /\ h.op = "write" /\ h.c = c /\ ~IsData(h)
  BY <1>0, <1>3, Numbers DEF H, Handlers, IsData, Conns
<1>a. ready' = Append(ready, h)
  BY <1>1
<1> HIDE DEF h
<1>5. AcceptsReady' = AcceptsReady + 0 /\ DataReady' = DataReady + 0 /\ ready' \in Queue
  BY <1>0, <1>4, <1>a, Numbers, ReadyAppend DEF Yes
<1>6. AcceptInv'
  BY <1>0, <1>2, <1>5, Numbers, AcceptFrame
<1>7. /\ todo' \in [Casters -> SUBSET Conns] /\ todo'[k] = todo[k] \ {c}
      /\ \A j \in Casters : todo'[j] \subseteq todo[j] /\ (j # k => todo'[j] = todo[j])
  BY <1>0, <1>1 DEF TypeOK
<1>8. ConnInv'
  <2>1. AllFit(ready, made, sock, unwritten')
    <3>1. \A d \in 1 .. made : sock[d] # "open" /\ d \in unwritten => sock[d] # "open" /\ d \in unwritten'
      BY <1>1
    <3> QED BY <1>0, <3>1, Numbers, FitsKept DEF ConnInv
  <2>2. Fits(h, made, sock, unwritten')
    BY <1>3, <1>4 DEF Fits
  <2>3. /\ AllFit(ready', made, sock, unwritten') /\ ReadsApart(ready')
        /\ \A d : HasRead(ready', d) <=> HasRead(ready, d)
    BY <1>0, <1>4, <1>a, <2>1, <2>2, Numbers, AppendKeeps DEF ConnInv
  <2>4. \A d \in Conns : OneRead(ready', reading, receiver, sock, io, d)
    BY <1>0, <2>3 DEF ConnInv, OneRead
  <2>5. \A j \in Casters : todo'[j] \subseteq connections
    BY <1>0, <1>7 DEF ConnInv
  <2>6. receiver = 0 => todo'["io"] = {}
    BY <1>0, <1>7 DEF ConnInv, Casters
  <2>7. OnlyTheseAreFatal'
    BY <1>0, <1>1, <1>2 DEF ConnInv, OnlyTheseAreFatal, connVars
  <2> QED BY <1>0, <1>2, <2>3, <2>4, <2>5, <2>6, <2>7 DEF ConnInv, connVars
<1>9. ~raced => casts[k] \in 1 .. MaxCasts /\ joined[c][k] < casts[k]
  <2>1. casts[k] \in 0 .. MaxCasts /\ joined[c][k] \in Nat
    BY <1>0, <1>3, Numbers DEF TypeOK
  <2>2. ~raced => joined[c][k] < casts[k]
    BY <1>0 DEF CastInv
  <2> QED BY <1>0, <2>1, <2>2, Numbers
<1>10. /\ got' \in [Conns -> [Casters -> Seq(1 .. MaxCasts)]]
       /\ ~raced => /\ got'[c][k] = Append(got[c][k], casts[k])
                    /\ \A d \in Conns, j \in Casters : d # c \/ j # k => got'[d][j] = got[d][j]
                    /\ \A d \in Conns : d # c => got'[d] = got[d]
  <2>1. got \in [Conns -> [Casters -> Seq(1 .. MaxCasts)]]
    BY <1>0 DEF TypeOK
  <2>2. CASE raced
    BY <1>1, <2>1, <2>2
  <2>3. CASE ~raced
    <3>1. Append(got[c][k], casts[k]) \in Seq(1 .. MaxCasts)
      BY <1>3, <1>9, <2>1, <2>3
    <3>2. got' = [got EXCEPT ![c][k] = Append(got[c][k], casts[k])]
      BY <1>1, <2>3
    <3> QED BY <1>3, <2>1, <3>1, <3>2
  <2> QED BY <2>2, <2>3
<1>11. CastInv'
  <2>1. casts'["io"] + DataReady' <= MaxCasts
    BY <1>0, <1>2, <1>5, Numbers DEF CastInv
  <2>2. ASSUME ~raced
        PROVE  /\ \A j \in Casters : \A d \in todo'[j] : joined[d][j] < casts[j]
               /\ \A d \in Conns \ connections : got'[d] = Nothing[d]
               /\ BroadcastReachesEach'
    <3>1. \A j \in Casters : \A d \in todo'[j] : joined[d][j] < casts[j]
      BY <1>0, <1>7, <2>2 DEF CastInv
    <3>2. \A d \in Conns \ connections : got'[d] = Nothing[d]
      BY <1>0, <1>3, <1>10, <2>2 DEF CastInv
    <3>3. ASSUME NEW d \in connections, NEW j \in Casters
          PROVE  got'[d][j] = [i \in 1 .. casts[j] - joined[d][j] - (IF d \in todo'[j] THEN 1 ELSE 0) |->
                                  joined[d][j] + i]
      <4>0. got[d][j] = [i \in 1 .. casts[j] - joined[d][j] - (IF d \in todo[j] THEN 1 ELSE 0) |->
                                  joined[d][j] + i]
        BY <1>0, <2>2 DEF CastInv, BroadcastReachesEach
      <4>1. CASE d = c /\ j = k
        <5> DEFINE p == joined[c][k]
                   n == casts[k] - p - 1
        <5>1. /\ p \in Nat /\ n \in Nat /\ casts[k] = p + n + 1
              /\ casts[k] - p - 1 = n /\ casts[k] - p - 0 = n + 1
          BY <1>0, <1>3, <1>9, <2>2, Numbers
        <5>2. /\ (IF c \in todo[k] THEN 1 ELSE 0) = 1
              /\ (IF c \in todo'[k] THEN 1 ELSE 0) = 0
          BY <1>7
        <5> HIDE DEF n, p
        <5>3. Append([i \in 1 .. n |-> p + i], p + n + 1) = [i \in 1 .. n + 1 |-> p + i]
          BY <5>1, NextGiven
        <5>4. got[c][k] = [i \in 1 .. n |-> p + i]
          BY <4>0, <4>1, <5>1, <5>2 DEF p
        <5>5. got'[c][k] = [i \in 1 .. n + 1 |-> p + i]
          BY <1>10, <2>2, <5>1, <5>3, <5>4
        <5> QED BY <4>1, <5>1, <5>2, <5>5 DEF p
      <4>2. CASE d # c \/ j # k
        <5>1. d \in todo'[j] <=> d \in todo[j]
          BY <1>7, <4>2
        <5>2. got'[d][j] = got[d][j]
          BY <1>0, <1>10, <2>2, <4>2, Numbers DEF ConnInv, Conns
        <5> QED BY <4>0, <5>1, <5>2
      <4> QED BY <4>1, <4>2
    <3>4. BroadcastReachesEach'
      BY <1>2, <3>3 DEF BroadcastReachesEach, connVars
    <3> QED BY <3>1, <3>2, <3>4
  <2> QED BY <1>0, <1>2, <2>1, <2>2 DEF CastInv, connVars
<1>12. TypeOK'
  <2>1. unwritten' \subseteq Conns
    BY <1>0, <1>1, <1>3 DEF TypeOK
  <2> QED BY <1>0, <1>2, <1>5, <1>7, <1>10, <2>1 DEF TypeOK, accVars, connVars, Queue, Handlers
<1> QED BY <1>6, <1>8, <1>11, <1>12 DEF ServerInv

(* Data arrives: its read is over, and the callback begins a broadcast.    *)
LEMMA RunReadKeeps ==
    ASSUME ServerInv, RunRead
    PROVE  ServerInv'
<1> DEFINE c == Head(ready).c
<1>0. TypeOK /\ AcceptInv /\ ConnInv /\ CastInv
  BY DEF ServerInv
<1>1. /\ receiver = 0 /\ ready # <<>> /\ Head(ready).op = "read" /\ Head(ready).ec = "ok"
      /\ receiver' = c /\ Boardcast("io", connections) /\ ready' = Tail(ready)
      /\ UNCHANGED <<accVars, connVars, got, unwritten, reading, raced, io>>
  BY DEF RunRead, Runs
<1>2. /\ AcceptsReady' = AcceptsReady - 0 /\ DataReady' = DataReady - 1 /\ DataReady' \in Nat /\ ready' \in Queue
  BY <1>0, <1>1, Numbers, ReadyTail DEF Yes, IsData
<1> HIDE DEF c
<1>3. /\ AllFit(ready', made, sock, unwritten) /\ Fits(Head(ready), made, sock, unwritten)
      /\ ReadsApart(ready') /\ ~HasRead(ready', c) /\ HasRead(ready, c)
      /\ \A d : HasRead(ready', d) => HasRead(ready, d)
      /\ \A d : HasRead(ready, d) => HasRead(ready', d) \/ c = d
  BY <1>0, <1>1, Numbers, TailKeeps DEF ConnInv, c
<1>4. c \in 1 .. made /\ c \in Conns /\ c # 0
  BY <1>0, <1>1, <1>3, Numbers DEF Fits, Conns, c
<1>5. AcceptInv'
  BY <1>0, <1>1, <1>2, Numbers, AcceptFrame
<1>6. casts["io"] < MaxCasts /\ casts'["io"] + DataReady' <= MaxCasts
  <2>1. casts["io"] \in Nat /\ DataReady \in Nat /\ MaxCasts \in Nat
    BY <1>0, Numbers DEF Casters
  <2>2. casts'["io"] = casts["io"] + 1
    BY <1>0, <1>1 DEF TypeOK, Boardcast, Casters
  <2>3. casts["io"] + DataReady <= MaxCasts
    BY <1>0 DEF CastInv
  <2> QED BY <1>2, <2>1, <2>2, <2>3
<1>7. /\ CastInv'
      /\ todo' \in [Casters -> SUBSET Conns] /\ casts' \in [Casters -> 0 .. MaxCasts]
      /\ \A j \in Casters : todo'[j] \subseteq connections /\ (j # "io" => todo'[j] = todo[j])
  <2>1. "io" \in Casters /\ UNCHANGED <<connections, joined, got, raced>> /\ todo["io"] = {}
    BY <1>0, <1>1 DEF Casters, connVars, ConnInv
  <2> QED BY <1>0, <1>1, <1>6, <2>1, BoardcastKeeps, Zenon
<1>8. ConnInv'
  <2>1. OneRead(ready, reading, receiver, sock, io, c)
    BY <1>0, <1>4 DEF ConnInv
  <2>2. c \notin reading /\ sock[c] # "closed"
    BY <1>3, <2>1 DEF OneRead
  <2>3. ASSUME NEW d \in Conns PROVE OneRead(ready', reading, c, sock, io, d)
    <3>1. OneRead(ready, reading, 0, sock, io, d)
      BY <1>0, <1>1 DEF ConnInv
    <3>2. d # 0
      BY <1>0, Numbers DEF Conns
    <3>3. CASE d = c
      BY <1>3, <2>2, <3>3 DEF OneRead
    <3>4. CASE d # c
      BY <1>3, <3>1, <3>2, <3>4 DEF OneRead
    <3> QED BY <3>3, <3>4
  <2>4. c \in 0 .. made
    BY <1>0, <1>4, Numbers
  <2> QED BY <1>0, <1>1, <1>3, <1>4, <1>7, <2>3, <2>4 DEF ConnInv, OnlyTheseAreFatal, connVars
<1>9. TypeOK'
  <2>1. receiver' \in 0 .. MaxConns
    BY <1>0, <1>1, <1>4, Numbers DEF Conns
  <2> QED BY <1>0, <1>1, <1>2, <1>7, <2>1 DEF TypeOK, accVars, connVars, Queue, Handlers
<1> QED BY <1>5, <1>7, <1>8, <1>9 DEF ServerInv

(* The callback is through: its connection is read again.                  *)
LEMMA EndReadKeeps ==
    ASSUME ServerInv, EndRead
    PROVE  ServerInv'
<1>0. TypeOK /\ AcceptInv /\ ConnInv /\ CastInv
  BY DEF ServerInv
<1>1. /\ receiver # 0 /\ todo["io"] = {} /\ receiver' = 0 /\ reading' = reading \cup {receiver}
      /\ UNCHANGED <<accVars, connVars, castVars, ready, raced, io>>
  BY DEF EndRead
<1>2. AcceptsReady' = AcceptsReady /\ DataReady' = DataReady
  BY <1>1 DEF AcceptsReady, DataReady
<1>3. AcceptInv'
  BY <1>0, <1>1, <1>2, AcceptFrame
<1>4. receiver \in connections /\ receiver \in Conns
  <2>1. receiver \in 0 .. made /\ connections = 1 .. made
    BY <1>0 DEF ConnInv
  <2> QED BY <1>0, <1>1, <2>1, Numbers DEF Conns
<1>5. ConnInv'
  <2>1. ASSUME NEW d \in Conns PROVE OneRead(ready, reading', 0, sock, io, d)
    <3>1. OneRead(ready, reading, receiver, sock, io, d)
      BY <1>0 DEF ConnInv
    <3>2. d # 0
      BY <1>0, Numbers DEF Conns
    <3> QED BY <1>1, <3>1, <3>2 DEF OneRead
  <2>2. reading' \subseteq connections /\ 0 \in 0 .. made
    BY <1>0, <1>1, <1>4, Numbers DEF ConnInv
  <2> QED BY <1>0, <1>1, <2>1, <2>2 DEF ConnInv, OnlyTheseAreFatal, connVars, castVars
<1>6. CastInv'
  BY <1>0, <1>1, <1>2, Numbers, CastFrame DEF connVars, castVars
<1>7. TypeOK'
  <2>1. reading' \subseteq Conns /\ receiver' \in 0 .. MaxConns
    BY <1>0, <1>1, <1>4, Numbers DEF TypeOK
  <2> QED BY <1>0, <1>1, <2>1 DEF TypeOK, accVars, connVars, castVars
<1> QED BY <1>3, <1>5, <1>6, <1>7 DEF ServerInv

(* A read or a write has failed: the connection is closed, or shutdown     *)
(* throws.                                                                 *)
LEMMA RunFailedKeeps ==
    ASSUME ServerInv, RunFailed
    PROVE  ServerInv'
<1> DEFINE h == Head(ready)
           c == h.c
<1>0. TypeOK /\ AcceptInv /\ ConnInv /\ CastInv
  BY DEF ServerInv
<1>1. /\ io = "running" /\ receiver = 0 /\ ready # <<>> /\ h.op \in {"read", "wrote"} /\ h.ec = "error"
      /\ ready' = Tail(ready)
      /\ \/ sock[c] = "open" /\ sock' = [sock EXCEPT ![c] = "closed"] /\ io' = io
         \/ sock[c] # "open" /\ sock' = sock /\ io' = "threw"
      /\ UNCHANGED <<accVars, connections, made, joined, castVars, reading, receiver, raced>>
  BY DEF RunFailed, Runs, ConnStop
<1>2. AcceptsReady' = AcceptsReady - 0 /\ DataReady' = DataReady - 0 /\ ready' \in Queue
  BY <1>0, <1>1, Numbers, ReadyTail DEF Yes, IsData
<1>3. /\ AllFit(ready', made, sock, unwritten) /\ Fits(h, made, sock, unwritten)
      /\ ReadsApart(ready') /\ (h.op = "read" => ~HasRead(ready', c) /\ HasRead(ready, c))
      /\ \A d : HasRead(ready', d) => HasRead(ready, d)
      /\ \A d : HasRead(ready, d) => HasRead(ready', d) \/ (h.op = "read" /\ c = d)
  BY <1>0, <1>1, Numbers, TailKeeps DEF ConnInv
<1>4. c \in 1 .. made /\ c \in Conns /\ (h.op = "wrote" => sock[c] # "open" /\ c \in unwritten)
  BY <1>0, <1>1, <1>3, Numbers DEF Fits, Conns
<1> HIDE DEF h, c
<1>5. AcceptInv'
  BY <1>0, <1>1, <1>2, Numbers, AcceptFrame
<1>6. CastInv'
  <2>1. DataReady' \in Nat /\ DataReady' <= DataReady
    BY <1>0, <1>2, Numbers
  <2> QED BY <1>0, <1>1, <2>1, CastFrame DEF castVars
<1>7. OneRead(ready, reading, receiver, sock, io, c)
  BY <1>0, <1>4 DEF ConnInv
<1>8. CASE sock[c] = "open" /\ sock' = [sock EXCEPT ![c] = "closed"] /\ io' = io
  <2>1. sock' \in [Conns -> {"open", "reset", "bad", "closed"}] /\ sock'[c] = "closed"
        /\ \A d \in Conns : d # c => sock'[d] = sock[d]
    BY <1>0, <1>4, <1>8 DEF TypeOK
  <2>2. h.op = "read" /\ ~HasRead(ready', c) /\ c \notin reading
    BY <1>1, <1>3, <1>4, <1>7, <1>8 DEF OneRead
  <2>3. AllFit(ready', made, sock', unwritten)
    <3>1. \A d \in 1 .. made : sock[d] # "open" /\ d \in unwritten => sock'[d] # "open" /\ d \in unwritten
      BY <1>0, <1>8, <2>1, Numbers DEF Conns
    <3> QED BY <1>0, <1>3, <3>1, Numbers, FitsKept
  <2>4. ASSUME NEW d \in Conns PROVE OneRead(ready', reading, receiver, sock', io, d)
    <3>1. OneRead(ready, reading, receiver, sock, io, d)
      BY <1>0 DEF ConnInv
    <3>2. receiver # d
      BY <1>0, <1>1, Numbers DEF Conns
    <3>3. CASE d = c
      BY <2>1, <2>2, <3>2, <3>3 DEF OneRead
    <3>4. CASE d # c
      BY <1>3, <2>1, <3>1, <3>2, <3>4 DEF OneRead
    <3> QED BY <3>3, <3>4
  <2>5. \A d \in Conns : d > made => sock'[d] = "bad"
    <3>1. \A d \in Conns : d > made => d # c
      BY <1>0, <1>4, Numbers DEF Conns
    <3> QED BY <1>0, <2>1, <3>1 DEF ConnInv
  <2>6. OnlyTheseAreFatal'
    BY <1>1, <1>8 DEF OnlyTheseAreFatal
  <2>7. ConnInv'
    BY <1>0, <1>1, <1>3, <1>8, <2>3, <2>4, <2>5, <2>6 DEF ConnInv, castVars
  <2>8. TypeOK'
    BY <1>0, <1>1, <1>2, <1>8, <2>1 DEF TypeOK, accVars, castVars, Queue, Handlers
  <2> QED BY <1>5, <1>6, <2>7, <2>8 DEF ServerInv
<1>9. CASE sock[c] # "open" /\ sock' = sock /\ io' = "threw"
  <2>1. OnlyTheseAreFatal'
    <3>1. sock[c] \in {"reset", "bad", "closed"}
      BY <1>0, <1>4, <1>9 DEF TypeOK
    <3>2. sock[c] = "closed" => c \in unwritten
      BY <1>1, <1>3, <1>4, <1>7 DEF OneRead
    <3>3. sock'[c] \in {"reset", "bad"} \/ (sock'[c] = "closed" /\ c \in unwritten')
      BY <1>1, <1>9, <3>1, <3>2 DEF castVars
    <3>4. c \in 1 .. made'
      BY <1>1, <1>4
    <3> QED BY <3>3, <3>4 DEF OnlyTheseAreFatal
  <2>2. ASSUME NEW d \in Conns PROVE OneRead(ready', reading, receiver, sock, "threw", d)
    <3>1. OneRead(ready, reading, receiver, sock, io, d)
      BY <1>0 DEF ConnInv
    <3> QED BY <1>3, <3>1 DEF OneRead
  <2>3. ConnInv'
    BY <1>0, <1>1, <1>3, <1>9, <2>1, <2>2 DEF ConnInv, castVars
  <2>4. TypeOK'
    BY <1>0, <1>1, <1>2, <1>9 DEF TypeOK, accVars, castVars, Queue, Handlers
  <2> QED BY <1>5, <1>6, <2>3, <2>4 DEF ServerInv
<1> QED BY <1>1, <1>8, <1>9

(* WriteToSocket: everything is written, or the write will fail.           *)
LEMMA RunWriteKeeps ==
    ASSUME ServerInv, RunWrite
    PROVE  ServerInv'
<1> DEFINE c == Head(ready).c
           h == H("wrote", c, "error")
<1>0. TypeOK /\ AcceptInv /\ ConnInv /\ CastInv
  BY DEF ServerInv
<1>1. /\ io = "running" /\ ready # <<>> /\ Head(ready).op = "write"
      /\ \/ (c \notin unwritten \/ sock[c] = "open") /\ ready' = Tail(ready) /\ unwritten' = unwritten \ {c}
         \/ c \in unwritten /\ sock[c] # "open" /\ ready' = Append(Tail(ready), h) /\ unwritten' = unwritten
      /\ UNCHANGED <<accVars, connVars, todo, casts, got, reading, receiver, raced, io>>
  BY DEF RunWrite, Runs
<1>2. /\ AllFit(Tail(ready), made, sock, unwritten) /\ Fits(Head(ready), made, sock, unwritten)
      /\ ReadsApart(Tail(ready)) /\ Tail(ready) \in Queue
      /\ \A d : HasRead(Tail(ready), d) <=> HasRead(ready, d)
  BY <1>0, <1>1, Numbers, TailKeeps DEF ConnInv
<1>3. c \in 1 .. made /\ c \in Conns
  BY <1>0, <1>1, <1>2, Numbers DEF Fits, Conns
<1>4. h \in Handlers /\ h.op = "wrote" /\ h.c = c /\ ~IsData(h)
  BY <1>0, <1>3, Numbers DEF H, Handlers, IsData, Conns
<1> HIDE DEF h, c
<1>5. /\ AcceptsReady' = AcceptsReady /\ DataReady' = DataReady /\ ready' \in Queue
      /\ AllFit(ready', made, sock, unwritten') /\ ReadsApart(ready') /\ unwritten' \subseteq unwritten
      /\ \A d : HasRead(ready', d) <=> HasRead(ready, d)
  <2>1. CASE (c \notin unwritten \/ sock[c] = "open") /\ ready' = Tail(ready) /\ unwritten' = unwritten \ {c}
    <3>1. AcceptsReady' = AcceptsReady - 0 /\ DataReady' = DataReady - 0
      BY <1>0, <1>1, <2>1, Numbers, ReadyTail DEF Yes, IsData
    <3>2. \A d \in 1 .. made : sock[d] # "open" /\ d \in unwritten => sock[d] # "open" /\ d \in unwritten'
      BY <2>1
    <3>3. AllFit(ready', made, sock, unwritten')
      BY <1>0, <1>2, <2>1, <3>2, Numbers, FitsKept
    <3> QED BY <1>0, <1>2, <2>1, <3>1, <3>3, Numbers
  <2>2. CASE c \in unwritten /\ sock[c] # "open" /\ ready' = Append(Tail(ready), h) /\ unwritten' = unwritten
    <3>1. ~IsData(Head(ready))
      BY <1>1 DEF IsData
    <3>2. AcceptsReady' = AcceptsReady /\ DataReady' = DataReady /\ ready' \in Queue
      BY <1>0, <1>1, <1>4, <2>2, <3>1, Numbers, ReadyCycle
    <3>3. Fits(h, made, sock, unwritten)
      BY <1>3, <1>4, <2>2 DEF Fits
    <3>4. /\ AllFit(ready', made, sock, unwritten) /\ ReadsApart(ready')
          /\ \A d : HasRead(ready', d) <=> HasRead(Tail(ready), d)
      BY <1>2, <1>4, <2>2, <3>3, AppendKeeps
    <3> QED BY <1>2, <2>2, <3>2, <3>4
  <2> QED BY <1>1, <2>1, <2>2
<1>6. AcceptInv'
  BY <1>0, <1>1, <1>5, AcceptFrame
<1>7. ConnInv'
  <2>1. \A d \in Conns : OneRead(ready', reading, receiver, sock, io, d)
    BY <1>0, <1>5 DEF ConnInv, OneRead
  <2>2. OnlyTheseAreFatal'
    BY <1>1 DEF OnlyTheseAreFatal
  <2> QED BY <1>0, <1>1, <1>5, <2>1, <2>2 DEF ConnInv, connVars
<1>8. CastInv'
  BY <1>0, <1>1, <1>5, Numbers, CastFrame DEF connVars
<1>9. TypeOK'
  BY <1>0, <1>1, <1>5 DEF TypeOK, accVars, connVars, Queue, Handlers
<1> QED BY <1>6, <1>7, <1>8, <1>9 DEF ServerInv

(* Nothing happens.                                                        *)
LEMMA ServerStutters ==
    ASSUME ServerInv, UNCHANGED vars
    PROVE  ServerInv'
<1>0. TypeOK /\ AcceptInv /\ ConnInv /\ CastInv
  BY DEF ServerInv
<1>1. UNCHANGED <<accVars, connVars, castVars, ready, reading, receiver, raced, io>>
  BY DEF vars
<1>2. AcceptsReady' = AcceptsReady /\ DataReady' = DataReady
  BY <1>1 DEF AcceptsReady, DataReady
<1>3. AcceptInv'
  BY <1>0, <1>1, <1>2, AcceptFrame
<1>4. ConnInv'
  BY <1>0, <1>1, ConnFrame DEF ConnInv, connVars, castVars
<1>5. CastInv'
  BY <1>0, <1>1, <1>2, Numbers, CastFrame DEF connVars, castVars
<1>6. TypeOK'
  BY <1>0, <1>1 DEF TypeOK, accVars, connVars, castVars
<1> QED BY <1>3, <1>4, <1>5, <1>6 DEF ServerInv

(* Every step keeps the invariant.                                         *)
LEMMA ServerStep == ServerInv /\ [Next]_vars => ServerInv'
<1> SUFFICES ASSUME ServerInv, [Next]_vars PROVE ServerInv'
  OBVIOUS
<1>1. "user" \in Casters /\ "io" \in Casters
  BY DEF Casters
<1>2. CASE Listen
  BY <1>2, ListenKeeps
<1>3. CASE Stop
  BY <1>3, StopKeeps
<1>4. CASE Destroy
  BY <1>4, DestroyKeeps
<1>5. CASE UserCast
  BY <1>5, UserCastKeeps
<1>6. CASE SendNext("user") \/ SendNext("io")
  BY <1>1, <1>6, SendNextKeeps
<1>7. CASE RunAccept
  BY <1>7, RunAcceptKeeps
<1>8. CASE StartConn
  BY <1>8, StartConnKeeps
<1>9. CASE RunRead
  BY <1>9, RunReadKeeps
<1>10. CASE EndRead
  BY <1>10, EndReadKeeps
<1>11. CASE RunFailed
  BY <1>11, RunFailedKeeps
<1>12. CASE RunWrite
  BY <1>12, RunWriteKeeps
<1>13. ASSUME NEW ec \in {"ok", "error"}, AcceptReady(ec) PROVE ServerInv'
  BY <1>13, AcceptReadyKeeps
<1>14. ASSUME NEW ec \in {"ok", "error"}, NEW c \in Conns, ReadReady(c, ec) PROVE ServerInv'
  BY <1>14, ReadReadyKeeps
<1>15. ASSUME NEW c \in Conns, PeerReset(c) PROVE ServerInv'
  BY <1>15, PeerResetKeeps
<1>16. CASE UNCHANGED vars
  BY <1>16, ServerStutters
<1> QED
  BY <1>2, <1>3, <1>4, <1>5, <1>6, <1>7, <1>8, <1>9, <1>10, <1>11, <1>12, <1>13, <1>14, <1>15, <1>16
  DEF Next, Handler

(* The invariant holds throughout.                                         *)
LEMMA ServerInvariant == Spec => []ServerInv
BY ServerInit, ServerStep, PTL DEF Spec

(***************************************************************************)
(* What the runs check.                                                    *)
(***************************************************************************)

(* The state of TcpServer and TcpConnManager keeps its types, whatever     *)
(* Listen, Stop and Boardcast are called for and however asio completes    *)
(* what was started.                                                       *)
THEOREM TypeCorrect == Spec => []TypeOK
<1>1. ServerInv => TypeOK
  BY DEF ServerInv
<1> QED BY <1>1, ServerInvariant, PTL

(* A server that listens has one accept under way (unless Listen came too  *)
(* early after Stop), and Stop lets one connection more through at most.   *)
THEOREM LoopIsSingle == Spec => []AcceptLoopIsSingle
<1>1. ServerInv => AcceptLoopIsSingle
  BY DEF ServerInv, AcceptInv, LoopInv, LateInv, AcceptLoopIsSingle, AtMostOneStartsLate
<1> QED BY <1>1, ServerInvariant, PTL

(* Handlers of writes find their connection, an open connection has one    *)
(* read under way, and only the departures named end the io thread.        *)
THEOREM ConnectionsServed == Spec => []ConnsAreServed
<1>1. ASSUME ServerInv PROVE ConnsAreServed
  <2>0. TypeOK /\ ConnInv
    BY <1>1 DEF ServerInv
  <2>1. WritersFindTheirConn
    BY <2>0 DEF ConnInv, AllFit, Fits, WritersFindTheirConn, Exists
  <2>2. ASSUME io = "running", NEW c \in Conns, sock[c] \in {"open", "reset"}, receiver # c
        PROVE  c \in connections /\ Cardinality(ReadsOf(c)) = IF c \in reading THEN 0 ELSE 1
    <3>1. c \in connections
      <4>1. ~(c > made)
        BY <2>0, <2>2 DEF ConnInv
      <4> QED BY <2>0, <4>1, Numbers DEF ConnInv, Conns
    <3>2. OneRead(ready, reading, receiver, sock, io, c) /\ ReadsApart(ready)
      BY <2>0 DEF ConnInv
    <3>3. CASE c \in reading
      <4>1. ReadsOf(c) = {}
        BY <3>2, <3>3 DEF OneRead, HasRead, ReadsOf
      <4> QED BY <3>1, <3>3, <4>1, FS_EmptySet
    <3>4. CASE c \notin reading
      <4>1. PICK i \in DOMAIN ready : ready[i].op = "read" /\ ready[i].c = c
        BY <2>2, <3>2, <3>4 DEF OneRead, HasRead
      <4>2. ReadsOf(c) = {i}
        BY <3>2, <4>1 DEF ReadsApart, ReadsOf
      <4>3. Cardinality({i}) = 1
        BY FS_Singleton
      <4> QED BY <3>1, <3>4, <4>2, <4>3
    <3> QED BY <3>3, <3>4
  <2>3. OpenConnIsRead
    BY <2>2 DEF OpenConnIsRead
  <2> QED BY <2>0, <2>1, <2>3 DEF ConnInv, ConnsAreServed
<1> QED BY <1>1, ServerInvariant, PTL

(* Each connection is given every broadcast made since it was started,     *)
(* once and in order, unless one was accepted during a user's Boardcast.   *)
THEOREM BroadcastsReach == Spec => []BroadcastReachesEach
<1>1. ServerInv => BroadcastReachesEach
  BY DEF ServerInv, CastInv, BroadcastReachesEach
<1> QED BY <1>1, ServerInvariant, PTL
=============================================================================
