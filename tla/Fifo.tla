-------------------------------- MODULE Fifo --------------------------------
(* What a ring buffer promises: bytes come out in the order they went in,    *)
(* none lost, none twice, and never more than Capacity of them wait inside.  *)
EXTENDS Integers, Sequences

CONSTANTS Byte, Capacity

VARIABLE queue

Init == queue = <<>>

\* The producer publishes one or more bytes.
Put ==
    /\ queue' \in Seq(Byte)
    /\ Len(queue') \in Len(queue) + 1 .. Capacity
    /\ SubSeq(queue', 1, Len(queue)) = queue

\* The consumer takes one or more bytes.
Take == \E n \in 1 .. Len(queue) : queue' = SubSeq(queue, n + 1, Len(queue))

Next == Put \/ Take

Spec == Init /\ [][Next]_queue
=============================================================================
