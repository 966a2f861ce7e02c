-------------------------------- MODULE Fifo --------------------------------
(***************************************************************************)
(* What an interrupt queue promises (devices/intq.h): a queue of at most   *)
(* Capacity bytes, each of which comes out once and in order.              *)
(***************************************************************************)
EXTENDS Naturals, Sequences

CONSTANTS Byte, Capacity

VARIABLES queue, got   \* the bytes inside, and the last byte that came out

FifoInit == queue = <<>> /\ got \in Byte

Put(b) == Len(queue) < Capacity /\ queue' = Append(queue, b) /\ UNCHANGED got

Get == queue # <<>> /\ got' = Head(queue) /\ queue' = Tail(queue)

FifoNext == Get \/ \E b \in Byte : Put(b)

FifoSpec == FifoInit /\ [][FifoNext]_<<queue, got>>
=============================================================================
