----------------------------- MODULE ByteQueue -----------------------------
(* What a pipe promises of the bytes in it: a bounded first-in first-out   *)
(* queue.                                                                  *)
EXTENDS Integers, Sequences

CONSTANTS Byte, capacity
VARIABLE queue

Init == queue = <<>>

Put(b) == /\ Len(queue) < capacity
          /\ queue' = Append(queue, b)

Get == /\ queue # <<>>
       /\ queue' = Tail(queue)

Next == Get \/ \E b \in Byte : Put(b)

Spec == Init /\ [][Next]_queue
=============================================================================
