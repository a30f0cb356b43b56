----------------------------- MODULE ByteQueue -----------------------------
(***************************************************************************)
(* What net::Buffer promises: each buffer is a FIFO queue of bytes.  Bytes *)
(* are put in at the back, taken from the front, and the last ones put in  *)
(* can be taken back.                                                      *)
(***************************************************************************)
EXTENDS Integers, Sequences

CONSTANTS Bufs,     \* buffers
          Byte,     \* bytes
          MaxLen    \* bound: the longest run of bytes put in or taken out at once

VARIABLE queue      \* the bytes each buffer holds

Init == queue = [b \in Bufs |-> <<>>]

Chunk == UNION {[1 .. n -> Byte] : n \in 0 .. MaxLen}

Put(b, s) == queue' = [queue EXCEPT ![b] = @ \o s]

(* Taking more than there is takes everything.                             *)
Take(b, n) ==
    queue' = [queue EXCEPT ![b] = IF n < Len(@) THEN SubSeq(@, n + 1, Len(@)) ELSE <<>>]

TakeBack(b, n) ==
    /\ n <= Len(queue[b])
    /\ queue' = [queue EXCEPT ![b] = SubSeq(@, 1, Len(@) - n)]

Clear(b) == queue' = [queue EXCEPT ![b] = <<>>]

Swap(a, b) == queue' = [queue EXCEPT ![a] = queue[b], ![b] = queue[a]]

Next ==
    \E b \in Bufs :
        \/ \E s \in Chunk : Put(b, s)
        \/ \E n \in 0 .. MaxLen : Take(b, n) \/ TakeBack(b, n)
        \/ Clear(b)
        \/ \E a \in Bufs : Swap(a, b)

Spec == Init /\ [][Next]_queue
=============================================================================
