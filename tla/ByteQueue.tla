----------------------------- MODULE ByteQueue -----------------------------
(***************************************************************************)
(* What a ring buffer promises: a bounded queue of bytes.  A chunk that    *)
(* fits is appended, the oldest bytes are removed, and nothing else ever   *)
(* changes what is queued.                                                 *)
(***************************************************************************)
EXTENDS Naturals, Sequences

CONSTANTS Bytes, Capacity

VARIABLE queue

Init == queue = <<>>

Put(b, n) == /\ Len(queue) + n <= Capacity
             /\ queue' = queue \o [k \in 1 .. n |-> b]

Take(n) == /\ n <= Len(queue)
           /\ queue' = SubSeq(queue, n + 1, Len(queue))

Clear == queue' = <<>>

Next == \/ \E b \in Bytes, n \in 1 .. Capacity : Put(b, n)
        \/ \E n \in 1 .. Capacity : Take(n)
        \/ Clear

Spec == Init /\ [][Next]_queue
=============================================================================
