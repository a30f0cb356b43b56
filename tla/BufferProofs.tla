---------------------------- MODULE BufferProofs ----------------------------
(***************************************************************************)
(* Proofs about Buffer, for every set of buffers and bytes and every       *)
(* kCheapPrepend: the indices stay in order, no assertion of the class can *)
(* fail, and a Buffer implements a byte queue.                             *)
(***************************************************************************)
EXTENDS Buffer, TLAPS

BufferRec == [data : Seq(Byte), reader : Nat, writer : Nat]

(* A Buffer whose indices are in order.                                    *)
Ordered(b) ==
    /\ b \in BufferRec
    /\ kCheapPrepend <= b.reader /\ b.reader <= b.writer /\ b.writer <= Len(b.data)

(* A chunk given to Append is a sequence of bytes.                         *)
LEMMA ChunkIsSeq ==
    ASSUME NEW s \in Chunk
    PROVE  s \in Seq(Byte) /\ Len(s) \in 0 .. MaxLen
<1>1. PICK n \in 0 .. MaxLen : s \in [1 .. n -> Byte]
  BY DEF Chunk
<1>2. n \in Nat
  BY BufferAssumption
<1> QED BY <1>1, <1>2

(* What a function over 1 .. n is as a sequence.                           *)
LEMMA FunctionIsSeq ==
    ASSUME NEW n \in Nat, NEW f \in [1 .. n -> Byte]
    PROVE  f \in Seq(Byte) /\ Len(f) = n
OBVIOUS

-----------------------------------------------------------------------------
(* Every operation keeps a Buffer in order.                                *)

(* A new Buffer has its indices in order (the constructor).                *)
LEMMA NewOrdered ==
    ASSUME NEW n \in Nat
    PROVE  Ordered(New(n)) /\ ReadableBytes(New(n)) = 0
<1>1. [i \in 1 .. (kCheapPrepend + n) |-> Zero] \in [1 .. (kCheapPrepend + n) -> Byte]
  BY BufferAssumption
<1>2. kCheapPrepend + n \in Nat
  BY BufferAssumption
<1> QED BY <1>1, <1>2, FunctionIsSeq, BufferAssumption DEF New, Ordered, BufferRec, ReadableBytes

(* RetriveAll puts both indices back and keeps them in order.              *)
LEMMA RetriveAllOrdered ==
    ASSUME NEW b, Ordered(b)
    PROVE  Ordered(RetriveAll(b)) /\ ReadableBytes(RetriveAll(b)) = 0
<1> DEFINE r == RetriveAll(b)
<1>1. b \in BufferRec /\ kCheapPrepend \in Nat /\ kCheapPrepend <= Len(b.data)
  BY BufferAssumption DEF Ordered, BufferRec
<1>2. r \in BufferRec /\ r.data = b.data /\ r.reader = kCheapPrepend /\ r.writer = kCheapPrepend
  BY <1>1 DEF RetriveAll, BufferRec
<1> HIDE DEF r
<1>3. Ordered(r) /\ ReadableBytes(r) = 0
  BY <1>1, <1>2 DEF Ordered, ReadableBytes
<1> QED BY <1>3 DEF r

(* Retrive keeps the indices in order, also when more is taken than there is. *)
LEMMA RetriveOrdered ==
    ASSUME NEW b, Ordered(b), NEW len \in Nat
    PROVE  Ordered(Retrive(b, len))
<1>1. CASE len < ReadableBytes(b)
  <2> DEFINE r == [b EXCEPT !.reader = @ + len]
  <2>1. b \in BufferRec /\ b.reader + len \in Nat
    BY DEF Ordered, BufferRec
  <2>2. r \in BufferRec /\ r.data = b.data /\ r.reader = b.reader + len /\ r.writer = b.writer
    BY <2>1 DEF BufferRec
  <2> HIDE DEF r
  <2>3. Ordered(r)
    BY <1>1, <2>1, <2>2, BufferAssumption DEF Ordered, ReadableBytes, BufferRec
  <2> QED BY <1>1, <2>3 DEF Retrive, r
<1>2. CASE ~(len < ReadableBytes(b))
  BY <1>2, RetriveAllOrdered DEF Retrive
<1> QED BY <1>1, <1>2

(* Unwrite keeps the indices in order.                                     *)
LEMMA UnwriteOrdered ==
    ASSUME NEW b, Ordered(b), NEW len \in Nat, len <= ReadableBytes(b)
    PROVE  Ordered(Unwrite(b, len))
BY BufferAssumption DEF Unwrite, Ordered, BufferRec, ReadableBytes

(* Growing keeps the indices and all bytes there were.                     *)
LEMMA ResizeOrdered ==
    ASSUME NEW b, Ordered(b), NEW n \in Nat, n >= Len(b.data)
    PROVE  LET r == Resize(b, n) IN
           /\ Ordered(r) /\ Len(r.data) = n
           /\ r.reader = b.reader /\ r.writer = b.writer
           /\ \A i \in 1 .. Len(b.data) : r.data[i] = b.data[i]
<1> DEFINE d == [i \in 1 .. n |-> IF i <= Len(b.data) THEN b.data[i] ELSE Zero]
<1>1. b \in BufferRec /\ b.data \in Seq(Byte) /\ Len(b.data) \in Nat
  BY DEF Ordered, BufferRec
<1>2. d \in [1 .. n -> Byte]
  BY <1>1, BufferAssumption
<1>3. d \in Seq(Byte) /\ Len(d) = n
  BY <1>2, FunctionIsSeq
<1>4. \A i \in 1 .. Len(b.data) : d[i] = b.data[i]
  BY <1>1
<1> HIDE DEF d
<1>5. Resize(b, n) = [b EXCEPT !.data = d]
  BY DEF Resize, d
<1> QED BY <1>1, <1>3, <1>4, <1>5 DEF Ordered, BufferRec

(* Moving to the front keeps size and content.                             *)
LEMMA MoveOrdered ==
    ASSUME NEW b, Ordered(b)
    PROVE  LET m == MoveToFront(b) IN
           /\ Ordered(m) /\ Len(m.data) = Len(b.data)
           /\ m.reader = kCheapPrepend /\ ReadableBytes(m) = ReadableBytes(b)
           /\ \A i \in 1 .. ReadableBytes(b) : m.data[m.reader + i] = b.data[b.reader + i]
<1> DEFINE n == Len(b.data)
           d == [i \in 1 .. n |->
                   IF i \in (kCheapPrepend + 1) .. (kCheapPrepend + ReadableBytes(b))
                   THEN b.data[i - kCheapPrepend + b.reader] ELSE b.data[i]]
<1>1. /\ b.data \in Seq(Byte) /\ n \in Nat /\ b.reader \in Nat /\ b.writer \in Nat
      /\ kCheapPrepend \in Nat /\ ReadableBytes(b) \in Nat
      /\ kCheapPrepend + ReadableBytes(b) <= n
      /\ kCheapPrepend <= b.reader /\ b.reader + ReadableBytes(b) <= n
  BY BufferAssumption DEF Ordered, BufferRec, ReadableBytes
<1>2. ASSUME NEW i \in 1 .. n,
             i \in (kCheapPrepend + 1) .. (kCheapPrepend + ReadableBytes(b))
      PROVE  i - kCheapPrepend + b.reader \in 1 .. n
  BY <1>1, <1>2
<1>3. d \in [1 .. n -> Byte]
  BY <1>1, <1>2
<1>4. d \in Seq(Byte) /\ Len(d) = n
  BY <1>1, <1>3, FunctionIsSeq
<1>5. ASSUME NEW i \in 1 .. ReadableBytes(b)
      PROVE  d[kCheapPrepend + i] = b.data[b.reader + i]
  <2>1. kCheapPrepend + i \in 1 .. n
    BY <1>1
  <2>2. kCheapPrepend + i \in (kCheapPrepend + 1) .. (kCheapPrepend + ReadableBytes(b))
    BY <1>1
  <2>3. (kCheapPrepend + i) - kCheapPrepend + b.reader = b.reader + i
    BY <1>1
  <2> QED BY <2>1, <2>2, <2>3
<1> HIDE DEF d
<1>6. MoveToFront(b) = [data |-> d, reader |-> kCheapPrepend,
                        writer |-> kCheapPrepend + ReadableBytes(b)]
  BY DEF MoveToFront, d
<1>7. ReadableBytes(MoveToFront(b)) = ReadableBytes(b)
  BY <1>1, <1>6 DEF ReadableBytes
<1>8. Ordered(MoveToFront(b))
  BY <1>1, <1>4, <1>6 DEF Ordered, BufferRec
<1> QED BY <1>4, <1>5, <1>6, <1>7, <1>8

-----------------------------------------------------------------------------
(* What the operations do to the content.                                  *)

(* What a Buffer holds unread is a sequence of bytes.                      *)
LEMMA ContentIsSeq ==
    ASSUME NEW b, Ordered(b)
    PROVE  /\ ReadableBytes(b) \in Nat
           /\ Content(b) \in [1 .. ReadableBytes(b) -> Byte]
           /\ Content(b) \in Seq(Byte) /\ Len(Content(b)) = ReadableBytes(b)
<1>1. /\ b.data \in Seq(Byte) /\ b.reader \in Nat /\ b.writer \in Nat
      /\ ReadableBytes(b) \in Nat /\ b.reader + ReadableBytes(b) <= Len(b.data)
  BY BufferAssumption DEF Ordered, BufferRec, ReadableBytes
<1>2. \A i \in 1 .. ReadableBytes(b) : b.data[b.reader + i] \in Byte
  BY <1>1
<1>3. Content(b) \in [1 .. ReadableBytes(b) -> Byte]
  BY <1>2 DEF Content
<1> QED BY <1>1, <1>3, FunctionIsSeq

(* Two buffers with the same readable bytes have the same content.         *)
LEMMA SameContent ==
    ASSUME NEW b, NEW c, ReadableBytes(c) = ReadableBytes(b),
           \A i \in 1 .. ReadableBytes(b) : c.data[c.reader + i] = b.data[b.reader + i]
    PROVE  Content(c) = Content(b)
BY DEF Content

(* EnsureWritableBytes makes the room, keeps the content, and the          *)
(* assertion of MakeSpace on the reader index holds where it is reached.   *)
LEMMA EnsureSpace ==
    ASSUME NEW b, Ordered(b), NEW len \in Nat
    PROVE  /\ Ordered(EnsureWritableBytes(b, len))
           /\ WritableBytes(EnsureWritableBytes(b, len)) >= len
           /\ ReadableBytes(EnsureWritableBytes(b, len)) = ReadableBytes(b)
           /\ Content(EnsureWritableBytes(b, len)) = Content(b)
           /\ (WritableBytes(b) < len /\ ~NeedsResize(b, len)) => kCheapPrepend < b.reader
<1> DEFINE e == EnsureWritableBytes(b, len)
<1>1. /\ b.data \in Seq(Byte) /\ Len(b.data) \in Nat /\ b.reader \in Nat /\ b.writer \in Nat
      /\ kCheapPrepend \in Nat /\ ReadableBytes(b) \in Nat /\ WritableBytes(b) \in Nat
      /\ b.writer + WritableBytes(b) = Len(b.data) /\ b.reader + ReadableBytes(b) = b.writer
      /\ kCheapPrepend <= b.reader
  BY BufferAssumption, SMTT(30) DEF Ordered, BufferRec, ReadableBytes, WritableBytes
<1>2. CASE WritableBytes(b) >= len
  <2>1. e = b
    BY <1>1, <1>2 DEF EnsureWritableBytes
  <2> QED BY <1>1, <1>2, <2>1
<1>3. CASE WritableBytes(b) < len /\ NeedsResize(b, len)
  <2>1. e = Resize(b, b.writer + len)
    BY <1>3 DEF EnsureWritableBytes, MakeSpace
  <2>2. b.writer + len \in Nat /\ b.writer + len >= Len(b.data)
    BY <1>1, <1>3
  <2>3. /\ Ordered(e) /\ Len(e.data) = b.writer + len
        /\ e.reader = b.reader /\ e.writer = b.writer
        /\ \A i \in 1 .. Len(b.data) : e.data[i] = b.data[i]
    BY <2>1, <2>2, ResizeOrdered
  <2> HIDE DEF e
  <2>4. WritableBytes(e) >= len /\ ReadableBytes(e) = ReadableBytes(b)
    BY <1>1, <2>3 DEF WritableBytes, ReadableBytes
  <2>5. \A i \in 1 .. ReadableBytes(b) : b.reader + i \in 1 .. Len(b.data)
    BY <1>1
  <2>6. Content(e) = Content(b)
    BY <2>3, <2>4, <2>5, SameContent
  <2> QED BY <1>3, <2>3, <2>4, <2>6 DEF e
<1>4. CASE WritableBytes(b) < len /\ ~NeedsResize(b, len)
  <2>1. e = MoveToFront(b)
    BY <1>4 DEF EnsureWritableBytes, MakeSpace
  <2>2. /\ Ordered(e) /\ Len(e.data) = Len(b.data)
        /\ e.reader = kCheapPrepend /\ ReadableBytes(e) = ReadableBytes(b)
        /\ \A i \in 1 .. ReadableBytes(b) : e.data[e.reader + i] = b.data[b.reader + i]
    BY <2>1, MoveOrdered
  <2> HIDE DEF e
  <2>3. e.writer \in Nat /\ e.writer = kCheapPrepend + ReadableBytes(b)
    BY <1>1, <2>2 DEF ReadableBytes, Ordered, BufferRec
  <2>4. WritableBytes(b) + b.reader >= len + kCheapPrepend
    BY <1>1, <1>4 DEF NeedsResize, PrependableBytes
  <2>5. WritableBytes(e) >= len
    BY <1>1, <2>2, <2>3, <2>4 DEF WritableBytes
  <2>6. kCheapPrepend < b.reader
    BY <1>1, <1>4, <2>4
  <2>7. Content(e) = Content(b)
    BY <2>2, SameContent
  <2> QED BY <2>2, <2>5, <2>6, <2>7 DEF e
<1> QED BY <1>1, <1>2, <1>3, <1>4

(* Bytes put at BeginWrite() and declared written are appended.            *)
LEMMA WriteAppends ==
    ASSUME NEW b, Ordered(b), NEW s \in Seq(Byte), Len(s) <= WritableBytes(b)
    PROVE  /\ Ordered(HasWritten(b, s))
           /\ Content(HasWritten(b, s)) = Content(b) \o s
<1> DEFINE n == Len(b.data)
           d == [i \in 1 .. n |-> IF i \in (b.writer + 1) .. (b.writer + Len(s))
                                  THEN s[i - b.writer] ELSE b.data[i]]
           h == HasWritten(b, s)
<1>1. /\ b \in BufferRec /\ b.data \in Seq(Byte) /\ n \in Nat /\ b.reader \in Nat
      /\ b.writer \in Nat /\ kCheapPrepend \in Nat /\ Len(s) \in Nat
      /\ ReadableBytes(b) \in Nat /\ b.reader + ReadableBytes(b) = b.writer
      /\ b.writer + Len(s) <= n /\ kCheapPrepend <= b.reader
  BY BufferAssumption DEF Ordered, BufferRec, ReadableBytes, WritableBytes
<1>2. \A i \in (b.writer + 1) .. (b.writer + Len(s)) : i - b.writer \in 1 .. Len(s)
  BY <1>1, SMTT(30)
<1>3. d \in [1 .. n -> Byte]
  BY <1>1, <1>2, SMTT(30)
<1>4. d \in Seq(Byte) /\ Len(d) = n
  BY <1>1, <1>3, FunctionIsSeq
<1>5. \A i \in 1 .. ReadableBytes(b) : d[b.reader + i] = b.data[b.reader + i]
  <2> SUFFICES ASSUME NEW i \in 1 .. ReadableBytes(b) PROVE d[b.reader + i] = b.data[b.reader + i]
    OBVIOUS
  <2>1. b.reader + i \in 1 .. n /\ ~(b.reader + i \in (b.writer + 1) .. (b.writer + Len(s)))
    <3> DEFINE r == b.reader
               w == b.writer
               l == Len(s)
               k == ReadableBytes(b)
    <3>1. /\ r \in Nat /\ w \in Nat /\ l \in Nat /\ n \in Nat /\ k \in Nat
          /\ r + k = w /\ w + l <= n /\ i \in 1 .. k
      BY <1>1
    <3> HIDE DEF n, r, w, l, k
    <3>2. r + i \in 1 .. n /\ ~(r + i \in (w + 1) .. (w + l))
      BY <3>1
    <3> QED BY <3>2 DEF r, w, l
  <2> QED BY <2>1
<1>6. \A j \in 1 .. Len(s) : d[b.writer + j] = s[j]
  <2> SUFFICES ASSUME NEW j \in 1 .. Len(s) PROVE d[b.writer + j] = s[j]
    OBVIOUS
  <2>1. /\ b.writer + j \in (b.writer + 1) .. (b.writer + Len(s)) /\ (b.writer + j) - b.writer = j
        /\ b.writer + j \in 1 .. n
    <3> DEFINE w == b.writer
               l == Len(s)
    <3>1. w \in Nat /\ l \in Nat /\ n \in Nat /\ w + l <= n /\ j \in 1 .. l
      BY <1>1
    <3> HIDE DEF n, w, l
    <3>2. w + j \in (w + 1) .. (w + l) /\ (w + j) - w = j /\ w + j \in 1 .. n
      BY <3>1
    <3> QED BY <3>2 DEF w, l
  <2> QED BY <2>1
<1> HIDE DEF d
<1>7. h = [b EXCEPT !.data = d, !.writer = b.writer + Len(s)]
  BY DEF HasWritten, d
<1>8. h \in BufferRec /\ h.data = d /\ h.reader = b.reader /\ h.writer = b.writer + Len(s)
  <2> HIDE DEF h
  <2> DEFINE w == b.writer + Len(s)
  <2>1. w \in Nat /\ h = [b EXCEPT !.data = d, !.writer = w]
    BY <1>1, <1>7
  <2> HIDE DEF w
  <2>2. h \in BufferRec /\ h.data = d /\ h.reader = b.reader /\ h.writer = w
    BY <1>1, <1>4, <2>1 DEF BufferRec
  <2> QED BY <2>2 DEF w
<1> HIDE DEF h
<1>9. Ordered(h) /\ ReadableBytes(h) = ReadableBytes(b) + Len(s)
  BY <1>1, <1>4, <1>8 DEF Ordered, ReadableBytes
<1>10. Content(h) = Content(b) \o s
  <2>1. /\ Content(b) \in Seq(Byte) /\ Len(Content(b)) = ReadableBytes(b)
        /\ Content(h) \in Seq(Byte) /\ Len(Content(h)) = ReadableBytes(b) + Len(s)
    BY <1>9, ContentIsSeq
  <2>2. ASSUME NEW i \in 1 .. (ReadableBytes(b) + Len(s))
        PROVE  Content(h)[i] = (Content(b) \o s)[i]
    <3>1. Content(h)[i] = d[b.reader + i]
      BY <1>8, <1>9 DEF Content
    <3>2. CASE i \in 1 .. ReadableBytes(b)
      <4>1. Content(b)[i] = b.data[b.reader + i]
        BY <3>2 DEF Content
      <4>2. (Content(b) \o s)[i] = Content(b)[i]
        BY <2>1, <3>2
      <4> QED BY <1>5, <3>1, <3>2, <4>1, <4>2
    <3>3. CASE i > ReadableBytes(b)
      <4> DEFINE j == i - ReadableBytes(b)
      <4>1. j \in 1 .. Len(s) /\ b.reader + i = b.writer + j
        BY <1>1, <3>3
      <4>2. (Content(b) \o s)[i] = s[j]
        BY <1>1, <2>1, <3>3, SMTT(30)
      <4>3. d[b.reader + i] = s[j]
        <5> HIDE DEF j
        <5> QED BY <1>6, <4>1
      <4> QED BY <3>1, <4>2, <4>3
    <3>4. i \in 1 .. ReadableBytes(b) \/ i > ReadableBytes(b)
      BY <1>1
    <3> QED BY <3>2, <3>3, <3>4
  <2>3. Content(b) \o s \in Seq(Byte) /\ Len(Content(b) \o s) = ReadableBytes(b) + Len(s)
    BY <1>1, <2>1
  <2> QED BY <2>1, <2>2, <2>3
<1> QED BY <1>9, <1>10 DEF h

(* Append makes room and adds the chunk behind the unread bytes.           *)
LEMMA AppendAppends ==
    ASSUME NEW b, Ordered(b), NEW s \in Seq(Byte)
    PROVE  Ordered(Append_(b, s)) /\ Content(Append_(b, s)) = Content(b) \o s
<1>1. Len(s) \in Nat
  OBVIOUS
<1>2. LET e == EnsureWritableBytes(b, Len(s)) IN
      Ordered(e) /\ Len(s) <= WritableBytes(e) /\ Content(e) = Content(b)
  <2>1. WritableBytes(EnsureWritableBytes(b, Len(s))) \in Int
    BY <1>1, EnsureSpace DEF Ordered, BufferRec, WritableBytes
  <2> QED BY <1>1, <2>1, EnsureSpace
<1> QED BY <1>2, WriteAppends DEF Append_

(* Retrive drops bytes from the front, all of them if there are no more.   *)
LEMMA RetriveTakes ==
    ASSUME NEW b, Ordered(b), NEW n \in Nat
    PROVE  Content(Retrive(b, n)) =
             IF n < Len(Content(b)) THEN SubSeq(Content(b), n + 1, Len(Content(b))) ELSE <<>>
<1>1. /\ ReadableBytes(b) \in Nat /\ Content(b) \in Seq(Byte)
      /\ Len(Content(b)) = ReadableBytes(b)
  BY ContentIsSeq
<1>2. CASE n < ReadableBytes(b)
  <2> DEFINE r == Retrive(b, n)
  <2>1. r = [b EXCEPT !.reader = b.reader + n]
    BY <1>2 DEF Retrive
  <2>2. b \in BufferRec /\ b.reader \in Nat /\ b.writer \in Nat
    BY DEF Ordered, BufferRec
  <2>3. r.data = b.data /\ r.reader = b.reader + n /\ r.writer = b.writer
    BY <2>1, <2>2 DEF BufferRec
  <2>4. Ordered(r)
    BY RetriveOrdered
  <2> HIDE DEF r
  <2>5. ReadableBytes(r) = ReadableBytes(b) - n
    BY <2>2, <2>3 DEF ReadableBytes
  <2>6. Content(r) \in Seq(Byte) /\ Len(Content(r)) = ReadableBytes(b) - n
    BY <2>4, <2>5, ContentIsSeq
  <2> DEFINE t == SubSeq(Content(b), n + 1, ReadableBytes(b))
  <2>7. t \in Seq(Byte) /\ Len(t) = ReadableBytes(b) - n
    BY <1>1, <1>2
  <2>8. ASSUME NEW i \in 1 .. (ReadableBytes(b) - n) PROVE Content(r)[i] = t[i]
    <3>1. Content(r)[i] = b.data[(b.reader + n) + i]
      BY <2>3, <2>5 DEF Content
    <3>2. n + i \in 1 .. ReadableBytes(b) /\ t[i] = Content(b)[n + i]
      BY <1>1, <1>2
    <3>3. Content(b)[n + i] = b.data[b.reader + (n + i)]
      BY <3>2 DEF Content
    <3>4. (b.reader + n) + i = b.reader + (n + i)
      BY <1>1, <2>2
    <3> QED BY <3>1, <3>2, <3>3, <3>4
  <2> HIDE DEF t
  <2>9. Content(r) = t
    BY <2>6, <2>7, <2>8
  <2> QED BY <1>1, <1>2, <2>9 DEF r, t
<1>3. CASE ~(n < ReadableBytes(b))
  <2>1. Retrive(b, n) = RetriveAll(b)
    BY <1>3 DEF Retrive
  <2>2. Content(RetriveAll(b)) \in Seq(Byte) /\ Len(Content(RetriveAll(b))) = 0
    BY RetriveAllOrdered, ContentIsSeq
  <2> QED BY <1>1, <1>3, <2>1, <2>2
<1> QED BY <1>1, <1>2, <1>3

(* Unwrite takes the last n unread bytes back.                             *)
LEMMA UnwriteTakesBack ==
    ASSUME NEW b, Ordered(b), NEW n \in Nat, n <= ReadableBytes(b)
    PROVE  Content(Unwrite(b, n)) = SubSeq(Content(b), 1, Len(Content(b)) - n)
<1> DEFINE r == Unwrite(b, n)
<1>1. /\ ReadableBytes(b) \in Nat /\ Content(b) \in Seq(Byte)
      /\ Len(Content(b)) = ReadableBytes(b)
  BY ContentIsSeq
<1>2. b \in BufferRec /\ b.reader \in Nat /\ b.writer \in Nat
  BY DEF Ordered, BufferRec
<1>3. r.data = b.data /\ r.reader = b.reader /\ r.writer = b.writer - n
  BY <1>2 DEF Unwrite, BufferRec
<1>4. Ordered(r)
  BY UnwriteOrdered
<1> HIDE DEF r
<1>5. ReadableBytes(r) = ReadableBytes(b) - n
  BY <1>2, <1>3 DEF ReadableBytes
<1>6. Content(r) \in Seq(Byte) /\ Len(Content(r)) = ReadableBytes(b) - n
  BY <1>4, <1>5, ContentIsSeq
<1> DEFINE t == SubSeq(Content(b), 1, ReadableBytes(b) - n)
<1>7. t \in Seq(Byte) /\ Len(t) = ReadableBytes(b) - n
  BY <1>1
<1>8. ASSUME NEW i \in 1 .. (ReadableBytes(b) - n) PROVE Content(r)[i] = t[i]
  <2>1. i \in 1 .. ReadableBytes(b) /\ t[i] = Content(b)[i]
    BY <1>1
  <2> QED BY <1>3, <1>5, <2>1 DEF Content
<1> HIDE DEF t
<1>9. Content(r) = t
  BY <1>6, <1>7, <1>8
<1> QED BY <1>1, <1>9 DEF r, t

-----------------------------------------------------------------------------
(* The specification.                                                      *)

AllOrdered == buf \in [Bufs -> BufferRec] /\ \A b \in Bufs : Ordered(buf[b])

Replaced(b, r) == [buf EXCEPT ![b] = r]

(* Replacing one buffer by one in order.                                   *)
LEMMA ReplaceOne ==
    ASSUME AllOrdered, NEW b \in Bufs, NEW r, Ordered(r), buf' = Replaced(b, r)
    PROVE  AllOrdered'
BY DEF AllOrdered, Ordered, Replaced

(* Each operation replaces one buffer.                                     *)
LEMMA Replacements ==
    ASSUME NEW b \in Bufs
    PROVE  /\ \A s : DoAppend(b, s) => buf' = Replaced(b, Append_(buf[b], s))
           /\ \A s : DoWrite(b, s) => buf' = Replaced(b, HasWritten(buf[b], s))
           /\ \A n : DoEnsure(b, n) => buf' = Replaced(b, EnsureWritableBytes(buf[b], n))
           /\ \A n : DoRetrive(b, n) => buf' = Replaced(b, Retrive(buf[b], n))
           /\ \A n : DoUnwrite(b, n) => buf' = Replaced(b, Unwrite(buf[b], n))
           /\ DoRetriveAll(b) => buf' = Replaced(b, RetriveAll(buf[b]))
BY DEF DoAppend, DoWrite, DoEnsure, DoRetrive, DoUnwrite, DoRetriveAll, Replaced

(* Lengths are natural numbers.                                            *)
LEMMA LenIsNat == 0 .. MaxLen \subseteq Nat
BY BufferAssumption

(* All Buffers start empty and in order.                                   *)
LEMMA InitOrdered == Init => AllOrdered /\ \A b \in Bufs : Content(buf[b]) = <<>>
<1> SUFFICES ASSUME Init PROVE AllOrdered /\ \A b \in Bufs : Content(buf[b]) = <<>>
  OBVIOUS
<1>1. ASSUME NEW b \in Bufs PROVE Ordered(buf[b]) /\ Content(buf[b]) = <<>>
  <2>1. PICK n \in InitialSizes : buf[b] = New(n)
    BY DEF Init
  <2>2. n \in Nat
    BY BufferAssumption
  <2>3. Ordered(buf[b]) /\ ReadableBytes(buf[b]) = 0
    BY <2>1, <2>2, NewOrdered
  <2>4. Content(buf[b]) \in Seq(Byte) /\ Len(Content(buf[b])) = 0
    BY <2>3, ContentIsSeq
  <2> QED BY <2>3, <2>4
<1>2. buf \in [Bufs -> BufferRec]
  BY <1>1 DEF Init, Ordered
<1> QED BY <1>1, <1>2 DEF AllOrdered

(* Every operation keeps every Buffer in order.                            *)
LEMMA StepOrdered == AllOrdered /\ [Next]_buf => AllOrdered'
<1> SUFFICES ASSUME AllOrdered, [Next]_buf PROVE AllOrdered'
  OBVIOUS
<1>0. \A b \in Bufs : Ordered(buf[b])
  BY DEF AllOrdered
<1>1. ASSUME NEW b \in Bufs, NEW s \in Chunk, DoAppend(b, s) PROVE AllOrdered'
  <2>1. Ordered(Append_(buf[b], s))
    BY <1>0, ChunkIsSeq, AppendAppends
  <2> QED BY <1>1, <2>1, Replacements, ReplaceOne
<1>2. ASSUME NEW b \in Bufs, NEW s \in Chunk, DoWrite(b, s) PROVE AllOrdered'
  <2>1. Ordered(HasWritten(buf[b], s))
    BY <1>0, <1>2, ChunkIsSeq, WriteAppends DEF DoWrite
  <2> QED BY <1>2, <2>1, Replacements, ReplaceOne
<1>3. ASSUME NEW b \in Bufs, NEW n \in 0 .. MaxLen, DoEnsure(b, n) PROVE AllOrdered'
  <2>1. Ordered(EnsureWritableBytes(buf[b], n))
    BY <1>0, LenIsNat, EnsureSpace
  <2> QED BY <1>3, <2>1, Replacements, ReplaceOne
<1>4. ASSUME NEW b \in Bufs, NEW n \in 0 .. MaxLen, DoRetrive(b, n) PROVE AllOrdered'
  <2>1. Ordered(Retrive(buf[b], n))
    BY <1>0, LenIsNat, RetriveOrdered
  <2> QED BY <1>4, <2>1, Replacements, ReplaceOne
<1>5. ASSUME NEW b \in Bufs, NEW n \in 0 .. MaxLen, DoUnwrite(b, n) PROVE AllOrdered'
  <2>1. Ordered(Unwrite(buf[b], n))
    BY <1>0, <1>5, LenIsNat, UnwriteOrdered DEF DoUnwrite
  <2> QED BY <1>5, <2>1, Replacements, ReplaceOne
<1>6. ASSUME NEW b \in Bufs, DoRetriveAll(b) PROVE AllOrdered'
  <2>1. Ordered(RetriveAll(buf[b]))
    BY <1>0, RetriveAllOrdered
  <2> QED BY <1>6, <2>1, Replacements, ReplaceOne
<1>7. ASSUME NEW b \in Bufs, NEW a \in Bufs, Swap(a, b) PROVE AllOrdered'
  BY <1>0, <1>7 DEF Swap, AllOrdered
<1>8. CASE UNCHANGED buf
  BY <1>8 DEF AllOrdered
<1> QED BY <1>1, <1>2, <1>3, <1>4, <1>5, <1>6, <1>7, <1>8 DEF Next

(* So they are in order in every state.                                    *)
LEMMA OrderInvariant == Spec => []AllOrdered
BY InitOrdered, StepOrdered, PTL DEF Spec

(* A Buffer's parts keep their types.                                      *)
THEOREM TypeCorrect == Spec => []TypeOK
<1>1. AllOrdered => TypeOK
  BY DEF AllOrdered, TypeOK, BufferRec
<1> QED BY <1>1, OrderInvariant, PTL

(* The indices of every Buffer stay in the order of the class comment, and *)
(* no assertion inside EnsureWritableBytes, MakeSpace or HasWritten can    *)
(* fail in an Append, whatever operations came before.                     *)
THEOREM NoAssertionFails == Spec => []AssertionsHold
<1>1. AllOrdered => IndexOrder
  BY DEF AllOrdered, Ordered, IndexOrder
<1>2. AllOrdered => AppendAssertionsHold
  BY EnsureSpace DEF AllOrdered, AppendAssertionsHold
<1> QED BY <1>1, <1>2, OrderInvariant, PTL DEF AssertionsHold

-----------------------------------------------------------------------------
(* Refinement of ByteQueue.                                                *)

Contents == [b \in Bufs |-> Content(buf[b])]

(* Replacing one Buffer replaces one content.                              *)
LEMMA ReplaceContent ==
    ASSUME AllOrdered, NEW b \in Bufs, NEW r, buf' = Replaced(b, r),
           NEW q, Content(r) = q
    PROVE  Contents' = [Contents EXCEPT ![b] = q]
BY DEF AllOrdered, Contents, Replaced

(* Every operation on a Buffer is a step of the byte queue on its content. *)
LEMMA StepImplements == AllOrdered /\ [Next]_buf => [Queue!Next]_Contents
<1> SUFFICES ASSUME AllOrdered, Next PROVE Queue!Next \/ UNCHANGED Contents
  BY DEF Contents
<1>0. \A b \in Bufs : Ordered(buf[b]) /\ Contents[b] = Content(buf[b])
  BY DEF AllOrdered, Contents
<1>1. ASSUME NEW b \in Bufs, NEW s \in Chunk, DoAppend(b, s) \/ DoWrite(b, s) PROVE Queue!Next
  <2>1. CASE DoAppend(b, s)
    <3>1. Content(Append_(buf[b], s)) = Contents[b] \o s
      BY <1>0, ChunkIsSeq, AppendAppends
    <3>2. Contents' = [Contents EXCEPT ![b] = Contents[b] \o s]
      BY <2>1, <3>1, Replacements, ReplaceContent
    <3> QED BY <3>2 DEF Queue!Put, Contents, Queue!Next, Queue!Chunk, Chunk
  <2>2. CASE DoWrite(b, s)
    <3>1. Content(HasWritten(buf[b], s)) = Contents[b] \o s
      BY <1>0, <2>2, ChunkIsSeq, WriteAppends DEF DoWrite
    <3>2. Contents' = [Contents EXCEPT ![b] = Contents[b] \o s]
      BY <2>2, <3>1, Replacements, ReplaceContent
    <3> QED BY <3>2 DEF Queue!Put, Contents, Queue!Next, Queue!Chunk, Chunk
  <2> QED BY <1>1, <2>1, <2>2
<1>2. ASSUME NEW b \in Bufs, NEW n \in 0 .. MaxLen, DoEnsure(b, n) PROVE UNCHANGED Contents
  <2>1. Content(EnsureWritableBytes(buf[b], n)) = Contents[b]
    BY <1>0, LenIsNat, EnsureSpace
  <2>2. Contents' = [Contents EXCEPT ![b] = Contents[b]]
    BY <1>2, <2>1, Replacements, ReplaceContent
  <2> QED BY <2>2 DEF Contents
<1>3. ASSUME NEW b \in Bufs, NEW n \in 0 .. MaxLen, DoRetrive(b, n) PROVE Queue!Next
  <2> DEFINE q == IF n < Len(Contents[b])
                  THEN SubSeq(Contents[b], n + 1, Len(Contents[b])) ELSE <<>>
  <2>1. Content(Retrive(buf[b], n)) = q
    BY <1>0, LenIsNat, RetriveTakes
  <2> HIDE DEF q
  <2>2. Contents' = [Contents EXCEPT ![b] = q]
    BY <1>3, <2>1, Replacements, ReplaceContent
  <2>3. Queue!Take(b, n)
    BY <2>2 DEF Queue!Take, Contents, q
  <2> QED BY <2>3 DEF Queue!Next
<1>4. ASSUME NEW b \in Bufs, NEW n \in 0 .. MaxLen, DoUnwrite(b, n) PROVE Queue!Next
  <2> DEFINE q == SubSeq(Contents[b], 1, Len(Contents[b]) - n)
  <2>1. n <= ReadableBytes(buf[b])
    BY <1>4 DEF DoUnwrite
  <2>2. Content(Unwrite(buf[b], n)) = q
    BY <1>0, <2>1, LenIsNat, UnwriteTakesBack
  <2>3. n <= Len(Contents[b])
    BY <1>0, <2>1, ContentIsSeq
  <2> HIDE DEF q
  <2>4. Contents' = [Contents EXCEPT ![b] = q]
    BY <1>4, <2>2, Replacements, ReplaceContent
  <2>5. Queue!TakeBack(b, n)
    BY <2>3, <2>4 DEF Queue!TakeBack, Contents, q
  <2> QED BY <2>5 DEF Queue!Next
<1>5. ASSUME NEW b \in Bufs, DoRetriveAll(b) PROVE Queue!Next
  <2>1. Content(RetriveAll(buf[b])) = <<>>
    BY <1>0, RetriveAllOrdered, ContentIsSeq
  <2>2. Contents' = [Contents EXCEPT ![b] = <<>>]
    BY <1>5, <2>1, Replacements, ReplaceContent
  <2>3. Queue!Clear(b)
    BY <2>2 DEF Queue!Clear, Contents
  <2> QED BY <2>3 DEF Queue!Next
<1>6. ASSUME NEW b \in Bufs, NEW a \in Bufs, Swap(a, b) PROVE Queue!Next
  <2>1. Contents' = [Contents EXCEPT ![a] = Contents[b], ![b] = Contents[a]]
    BY <1>6 DEF Swap, Contents, AllOrdered
  <2>2. Queue!Swap(a, b)
    BY <2>1 DEF Queue!Swap, Contents
  <2> QED BY <2>2 DEF Queue!Next
<1> QED BY <1>1, <1>2, <1>3, <1>4, <1>5, <1>6 DEF Next

(* A Buffer is a byte queue: what was appended comes out, in order, once,  *)
(* however the bytes were moved inside the vector.                         *)
THEOREM BufferIsQueue == Spec => ImplementsQueue
<1>1. Init => Queue!Init
  BY InitOrdered DEF Queue!Init
<1>2. AllOrdered /\ [Next]_buf => [Queue!Next]_Contents
  BY StepImplements
<1> QED BY <1>1, <1>2, OrderInvariant, PTL DEF Spec, ImplementsQueue, Queue!Spec, Contents
=============================================================================
