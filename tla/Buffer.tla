------------------------------- MODULE Buffer -------------------------------
(***************************************************************************)
(* net::Buffer (net/buffer.h), the byte buffer of every connection: a      *)
(* vector with a reader and a writer index and some room kept in front.    *)
(* A Buffer is a record; data[i] is the byte at offset i - 1.              *)
(***************************************************************************)
EXTENDS Integers, Sequences

CONSTANTS
    Bufs,           \* Buffer objects
    Byte,           \* values of a byte
    Zero,           \* the byte vector::resize fills with
    kCheapPrepend,  \* 8 in the code
    InitialSizes,   \* arguments of the constructor
    MaxLen,         \* bound: the longest run of bytes in one operation
    MaxSize         \* bound: vector size up to which buffers are allowed to grow

ASSUME BufferAssumption ==
    /\ kCheapPrepend \in Nat
    /\ MaxLen \in Nat /\ MaxSize \in Nat
    /\ InitialSizes \subseteq Nat
    /\ Zero \in Byte

VARIABLE buf    \* the Buffer objects

-----------------------------------------------------------------------------
(* Buffer(initial_size) *)
New(initial_size) ==
    [data |-> [i \in 1 .. (kCheapPrepend + initial_size) |-> Zero],
     reader |-> kCheapPrepend, writer |-> kCheapPrepend]

PrependableBytes(b) == b.reader
ReadableBytes(b) == b.writer - b.reader
WritableBytes(b) == Len(b.data) - b.writer

(* The bytes ToString, Str and Peek show.                                  *)
Content(b) == [i \in 1 .. ReadableBytes(b) |-> b.data[b.reader + i]]

RetriveAll(b) == [b EXCEPT !.reader = kCheapPrepend, !.writer = kCheapPrepend]

(* A bug: no test against the readable bytes.                              *)
RetriveUnchecked(b, len) == [b EXCEPT !.reader = @ + len]

Retrive(b, len) ==
    IF len < ReadableBytes(b) THEN [b EXCEPT !.reader = @ + len] ELSE RetriveAll(b)

(* buffer_.resize(n) *)
Resize(b, n) ==
    [b EXCEPT !.data = [i \in 1 .. n |-> IF i <= Len(b.data) THEN b.data[i] ELSE Zero]]

(* A bug: the indices move, the bytes do not.                              *)
MoveIndicesOnly(b) ==
    [b EXCEPT !.reader = kCheapPrepend, !.writer = kCheapPrepend + ReadableBytes(b)]

(* Move the readable bytes down to kCheapPrepend.                          *)
MoveToFront(b) ==
    [data |-> [i \in 1 .. Len(b.data) |->
                IF i \in (kCheapPrepend + 1) .. (kCheapPrepend + ReadableBytes(b))
                THEN b.data[i - kCheapPrepend + b.reader] ELSE b.data[i]],
     reader |-> kCheapPrepend,
     writer |-> kCheapPrepend + ReadableBytes(b)]

(* A bug: the room kept in front is counted as room for data.              *)
NeedsResizeTooLate(b, len) == WritableBytes(b) + PrependableBytes(b) < len

(* The condition in MakeSpace.                                             *)
NeedsResize(b, len) == WritableBytes(b) + PrependableBytes(b) < len + kCheapPrepend

MakeSpace(b, len) ==
    IF NeedsResize(b, len) THEN Resize(b, b.writer + len) ELSE MoveToFront(b)

EnsureWritableBytes(b, len) == IF WritableBytes(b) < len THEN MakeSpace(b, len) ELSE b

(* The caller's bytes s are at BeginWrite(); HasWritten(Len(s)).           *)
HasWritten(b, s) ==
    [b EXCEPT !.data = [i \in 1 .. Len(b.data) |->
                          IF i \in (b.writer + 1) .. (b.writer + Len(s))
                          THEN s[i - b.writer] ELSE b.data[i]],
              !.writer = @ + Len(s)]

Append_(b, s) == HasWritten(EnsureWritableBytes(b, Len(s)), s)

(* A bug: the wrong index moves.                                           *)
UnwriteReader(b, len) == [b EXCEPT !.reader = @ - len]

Unwrite(b, len) == [b EXCEPT !.writer = @ - len]

-----------------------------------------------------------------------------
Chunk == UNION {[1 .. n -> Byte] : n \in 0 .. MaxLen}

Init == buf \in [Bufs -> {New(n) : n \in InitialSizes}]

DoAppend(b, s) ==
    /\ Len(EnsureWritableBytes(buf[b], Len(s)).data) <= MaxSize
    /\ buf' = [buf EXCEPT ![b] = Append_(@, s)]

DoEnsure(b, n) ==
    /\ Len(EnsureWritableBytes(buf[b], n).data) <= MaxSize
    /\ buf' = [buf EXCEPT ![b] = EnsureWritableBytes(@, n)]

(* A caller that fills the writable bytes itself has asked for the room.   *)
DoWrite(b, s) ==
    /\ Len(s) <= WritableBytes(buf[b])
    /\ buf' = [buf EXCEPT ![b] = HasWritten(@, s)]

DoRetrive(b, n) == buf' = [buf EXCEPT ![b] = Retrive(@, n)]

DoRetriveAll(b) == buf' = [buf EXCEPT ![b] = RetriveAll(@)]

(* The caller of Unwrite keeps its assertion.                              *)
DoUnwrite(b, n) ==
    /\ n <= ReadableBytes(buf[b])
    /\ buf' = [buf EXCEPT ![b] = Unwrite(@, n)]

Swap(a, b) == buf' = [buf EXCEPT ![a] = buf[b], ![b] = buf[a]]

Next ==
    \E b \in Bufs :
        \/ \E s \in Chunk : DoAppend(b, s) \/ DoWrite(b, s)
        \/ \E n \in 0 .. MaxLen : DoEnsure(b, n) \/ DoRetrive(b, n) \/ DoUnwrite(b, n)
        \/ DoRetriveAll(b)
        \/ \E a \in Bufs : Swap(a, b)

Spec == Init /\ [][Next]_buf

-----------------------------------------------------------------------------
(* The three parts of a Buffer have their types.                           *)
TypeOK == buf \in [Bufs -> [data : Seq(Byte), reader : Nat, writer : Nat]]

(* The picture in the comment on the class, with the room in front that    *)
(* every operation keeps: kCheapPrepend <= reader <= writer <= size.       *)
IndexOrder ==
    \A b \in Bufs :
        /\ kCheapPrepend <= buf[b].reader
        /\ buf[b].reader <= buf[b].writer
        /\ buf[b].writer <= Len(buf[b].data)

(* The next Append would not fail an assertion of EnsureWritableBytes,     *)
(* MakeSpace or HasWritten.                                                *)
AppendAssertionsHold ==
    \A b \in Bufs : \A len \in 0 .. MaxLen :
        LET B == buf[b]
            space == EnsureWritableBytes(B, len)
        IN  /\ WritableBytes(space) >= len
            /\ (WritableBytes(B) < len /\ ~NeedsResize(B, len)) => kCheapPrepend < B.reader
            /\ ReadableBytes(space) = ReadableBytes(B)

(* No sequence of operations breaks the order of the indices or reaches a  *)
(* state where an assertion would fail.                                    *)
AssertionsHold == IndexOrder /\ AppendAssertionsHold

(* The buffers behave as byte queues: moving, growing, swapping and        *)
(* writing in place are invisible to the reader.                           *)
Queue == INSTANCE ByteQueue WITH queue <- [b \in Bufs |-> Content(buf[b])]
ImplementsQueue == Queue!Spec
=============================================================================
